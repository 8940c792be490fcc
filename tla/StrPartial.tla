----------------------------- MODULE StrPartial -----------------------------
(***************************************************************************)
(* The pattern parser of src/strpartial.c: strpartial_split cuts a rule's  *)
(* pattern string into the list of segments that strpartial_resolve        *)
(* (src/node.c) renders for every line, and strpartial_from_format decides *)
(* the kind of one %{...} escape.                                          *)
(*                                                                         *)
(* A string is a sequence of one-character strings.  A segment is the     *)
(* calloc'ed struct strpartial: its type, its dynstr (text) and its int   *)
(* capture number; the fields a kind does not set keep their zero.  The   *)
(* parser is checked against a reference grammar of patterns, written     *)
(* from spec.md 3 ("Pattern") and 7 ("invalid %{...} escape") and the     *)
(* escape table at the head of strpartial.c.                               *)
(***************************************************************************)
EXTENDS Naturals, Integers, Sequences, SequencesExt

CONSTANTS
    Alphabet,     \* characters the enumerated patterns are made of
    MinLen,       \* shortest enumerated pattern
    MaxLen,       \* longest enumerated pattern
    ExtraInputs   \* further patterns, spelled out character by character

Digits == <<"0", "1", "2", "3", "4", "5", "6", "7", "8", "9">>
DigitChars == {Digits[k] : k \in DOMAIN Digits}
Letters == {"a", "b", "d", "e", "m", "n", "s", "t", "v", "x", "y", "T"}

ASSUME
    /\ MinLen \in Nat /\ MaxLen \in Nat /\ MinLen <= MaxLen
    \* strtol does not saturate at LONG_MAX below 19 digits
    /\ \A p \in ExtraInputs : Len(p) < 19

Inputs == UNION {[1..n -> Alphabet] : n \in MinLen..MaxLen} \cup ExtraInputs

IsDigit(c) == c \in DigitChars
IsAlpha(c) == c \in Letters
DigitValue(c) == CHOOSE k \in 0..9 : Digits[k + 1] = c

-----------------------------------------------------------------------------
(* strtol of a string of digits into a 64-bit long, then the implicit     *)
(* conversion to the 32-bit int num: the value modulo 2^32, read as a     *)
(* two's-complement int.  The low 32 bits are kept as two 16-bit halves   *)
(* so that no intermediate value leaves the model checker's integers.     *)
Half == 65536

StrtolStep(acc, c) ==
    LET lo == acc.lo * 10 + DigitValue(c)
        hi == acc.hi * 10 + lo \div Half
    IN  [hi |-> hi % Half, lo |-> lo % Half]

StrtolToInt(sym) ==
    LET w == FoldLeft(StrtolStep, [hi |-> 0, lo |-> 0], sym)
    IN  IF w.hi >= Half \div 2 THEN (w.hi - Half) * Half + w.lo
                               ELSE w.hi * Half + w.lo

(* calloc of one struct strpartial: type STR_INVALID, no dynstr, number 0.       *)
Blank == [type |-> "INVALID", text |-> <<>>, number |-> 0]

Verbatim(t) == [Blank EXCEPT !.type = "VERBATIM", !.text = t]

(* The single-letter escapes and the types they stand for.               *)
Special == [s |-> "SOURCE", d |-> "DATETIME", m |-> "LOGLINE",
            t |-> "FRACTSECOND", T |-> "DATETIMEFRACT"]

EnvPrefix == <<"e", "n", "v", ":">>

(* strpartial_from_format: the escape body sym decides the type of str.   *)
(* An empty body leaves the calloc'ed STR_INVALID.                        *)
StrpartialFromFormat(sym, str) ==
    CASE Len(sym) = 0 -> str
      [] IsDigit(sym[1]) ->
             IF \A k \in DOMAIN sym : IsDigit(sym[k])
             THEN [str EXCEPT !.type = "CAPTURE_GROUP", !.number = StrtolToInt(sym)]
             ELSE [str EXCEPT !.type = "INVALID"]
      [] Len(sym) = 1 /\ IsAlpha(sym[1]) ->
             [str EXCEPT !.type = IF sym[1] \in DOMAIN Special
                                  THEN Special[sym[1]] ELSE "INVALID"]
      [] IsPrefix(EnvPrefix, sym) ->
             [str EXCEPT !.type = "ENV", !.text = SubSeq(sym, 5, Len(sym))]
      [] OTHER -> [str EXCEPT !.type = "VAR", !.text = sym]

-----------------------------------------------------------------------------
(* strpartial_split returns NULL on a syntax error; a list it returns     *)
(* always has a first segment.                                             *)
NULL == <<>>

(* strstr(s + from, "%{") and strchr(s + from, '}'), 0 when absent.       *)
Strstr(s, from) ==
    LET at == {k \in from..Len(s) - 1 : s[k] = "%" /\ s[k + 1] = "{"}
    IN  IF at = {} THEN 0 ELSE Min(at)

Strchr(s, from) == SelectInSubSeq(s, from, Len(s), LAMBDA c : c = "}")

(* One pass of the while loop over *left from index left, with the segments  *)
(* done so far in acc.  dynstr_cnew copies the inclusive range            *)
(* [start, end]; the escape's body lies between "%{" and "}".  The test   *)
(* left > endptr after an escape can never hold: end < endptr.            *)
RECURSIVE SplitFrom(_, _, _)
SplitFrom(s, left, acc) ==
    IF left > Len(s) THEN acc
    ELSE
    LET start == Strstr(s, left)
        end == IF start = 0 THEN 0 ELSE Strchr(s, start)
        raw == IF start - left >= 1 THEN <<Verbatim(SubSeq(s, left, start - 1))>>
                                    ELSE <<>>
        cur == StrpartialFromFormat(SubSeq(s, start + 2, end - 1), Blank)
    IN  CASE start = 0 -> Append(acc, Verbatim(SubSeq(s, left, Len(s))))
          [] end = 0 -> NULL
          [] cur.type = "INVALID" -> NULL
          [] OTHER -> SplitFrom(s, end + 1, acc \o raw \o <<cur>>)

(* strpartial_split: a pattern shorter than four characters is one        *)
(* verbatim segment ("small optimisation").                               *)
StrpartialSplit(sym) ==
    IF Len(sym) < 4 THEN <<Verbatim(sym)>> ELSE SplitFrom(sym, 1, <<>>)

-----------------------------------------------------------------------------
(* The reference grammar.  A pattern is a list of segments, rendered one  *)
(* after the other: verbatim text, which holds no "%{", and escapes       *)
(* "%{" body "}" whose body holds no "}" and is a capture-group number, *)
(* one of the letters of the table at the head of strpartial.c, env:name *)
(* or a variable name (neither digit-led nor a single letter).  Two       *)
(* verbatim segments are never adjacent.  A capture group keeps the       *)
(* digits it was written with.                                             *)
HasEscapeStart(t) == \E k \in 1..Len(t) - 1 : t[k] = "%" /\ t[k + 1] = "{"

RefEscape(t) ==
    IF /\ Len(t) >= 3 /\ t[1] = "%" /\ t[2] = "{" /\ t[Len(t)] = "}"
       /\ ~Contains(SubSeq(t, 3, Len(t) - 1), "}")
    THEN LET b == SubSeq(t, 3, Len(t) - 1)
         IN  CASE b = <<>> -> {}
               [] \A k \in DOMAIN b : IsDigit(b[k]) ->
                      {[Blank EXCEPT !.type = "CAPTURE_GROUP", !.text = b]}
               [] Len(b) = 1 /\ b[1] \in DOMAIN Special ->
                      {[Blank EXCEPT !.type = Special[b[1]]]}
               [] IsPrefix(EnvPrefix, b) ->
                      {[Blank EXCEPT !.type = "ENV", !.text = SubSeq(b, 5, Len(b))]}
               [] ~IsDigit(b[1]) /\ ~(Len(b) = 1 /\ IsAlpha(b[1])) ->
                      {[Blank EXCEPT !.type = "VAR", !.text = b]}
               [] OTHER -> {}
    ELSE {}

RefSegments(t) ==
    (IF t # <<>> /\ ~HasEscapeStart(t) THEN {Verbatim(t)} ELSE {}) \cup RefEscape(t)

(* Every segment list that renders as s.                                  *)
RECURSIVE Parses(_)
Parses(s) ==
    IF s = <<>> THEN {<<>>}
    ELSE UNION { UNION { { <<g>> \o r :
                           r \in {r \in Parses(SubSeq(s, k + 1, Len(s))) :
                                    ~(g.type = "VERBATIM" /\ r # <<>> /\ r[1].type = "VERBATIM")} } :
                         g \in RefSegments(SubSeq(s, 1, k)) } :
                 k \in 1..Len(s) }

(* The empty pattern renders as one empty verbatim segment.               *)
RefParse(s) == IF s = <<>> THEN {<<Verbatim(<<>>)>>} ELSE Parses(s)

(* The decimal digits of an int, and written digits without leading zeros. *)
RECURSIVE Decimal(_)
Decimal(n) ==
    CASE n < 0 -> <<"-">>
      [] n < 10 -> <<Digits[n + 1]>>
      [] OTHER -> Decimal(n \div 10) \o <<Digits[(n % 10) + 1]>>

RECURSIVE Canonical(_)
Canonical(d) == IF Len(d) > 1 /\ d[1] = "0" THEN Canonical(Tail(d)) ELSE d

(* Segment lists p (the parser's) and r (the grammar's) agree.            *)
Agrees(p, r) ==
    /\ Len(p) = Len(r)
    /\ \A k \in 1..Len(p) :
           /\ p[k].type = r[k].type
           /\ IF p[k].type = "CAPTURE_GROUP"
              THEN Decimal(p[k].number) = Canonical(r[k].text)
              ELSE p[k].text = r[k].text

-----------------------------------------------------------------------------
(* A pattern of the configuration and what strpartial_split made of it;   *)
(* a pattern is parsed once, when the configuration is read.              *)
VARIABLES pattern, parts

vars == <<pattern, parts>>

Init ==
    /\ pattern \in Inputs
    /\ parts = StrpartialSplit(pattern)

Next == UNCHANGED vars

Spec == Init /\ [][Next]_vars

Types == {"INVALID", "VERBATIM", "VAR", "ENV", "CAPTURE_GROUP"} \cup
         {Special[c] : c \in DOMAIN Special}

TypeOK ==
    /\ pattern \in Seq(Alphabet \cup DigitChars \cup Letters \cup {"%", "{", "}", ":"})
    /\ \A k \in DOMAIN parts :
           /\ parts[k].type \in Types \ {"INVALID"}
           /\ parts[k].number \in (-2147483647 - 1)..2147483647

(* spec.md 3 and 7: a pattern is cut into the segments of the grammar,    *)
(* each escape of the kind its body names and a capture group with the    *)
(* number written; a pattern with an invalid %{...} escape is an error    *)
(* (strpartial_split returns NULL and the rule node fails).                *)
SplitAsGrammar ==
    IF RefParse(pattern) = {}
    THEN parts = NULL
    ELSE \E r \in RefParse(pattern) : Agrees(parts, r)

=============================================================================
