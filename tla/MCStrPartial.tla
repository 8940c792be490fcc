---------------------------- MODULE MCStrPartial ----------------------------
(* strpartial_split on every pattern of MinLen to MaxLen characters over   *)
(* the characters that steer the parser, and on patterns no such string    *)
(* spells: env: escapes, the other single letters, numbers of several      *)
(* digits and a number past the range of an int.                          *)
EXTENDS StrPartial

MCAlphabet == {"%", "{", "}", "1", "s", "x"}

MCExtraInputs ==
    { <<"%", "{", "e", "n", "v", ":", "x", "}">>,
      <<"a", "%", "{", "e", "n", "v", ":", "}", "b">>,
      <<"%", "{", "d", "}", "%", "{", "T", "}">>,
      <<"%", "{", "m", "}", "x", "%", "{", "t", "}">>,
      <<"%", "{", "0", "1", "2", "}">>,
      <<"%", "{", "x", "y", "}", "%", "{", "a", "}">> }

(* A capture-group number past INT_MAX, and the empty and short patterns   *)
(* that the parser takes verbatim.                                         *)
MCWrapInputs ==
    { <<"%", "{", "4", "2", "9", "4", "9", "6", "7", "2", "9", "6", "}">>,
      <<"%", "{", "4", "2", "9", "4", "9", "6", "7", "2", "9", "5", "}">> }
=============================================================================
