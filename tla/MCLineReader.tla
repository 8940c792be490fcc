---------------------------- MODULE MCLineReader ----------------------------
(* Model-checking instance of LineReader: two ordinary byte values, so    *)
(* that records are told apart, and bounds under which a record can reach *)
(* the reader split across reads and several records share one read.      *)
EXTENDS LineReader

CONSTANTS a, b, nl

MCChars == {a, b}

=============================================================================
