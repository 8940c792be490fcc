---------------------------- MODULE RecordStream ----------------------------
(***************************************************************************)
(* What a read-side descriptor promises the rule tree (spec.md 4.c, 5):    *)
(* a producer appends bytes to a source; the lines handed to               *)
(* node_eval_root are exactly the newline-terminated records of that       *)
(* stream, in order, whole, and every complete record is eventually        *)
(* handed over.  An unterminated tail is never handed over.                *)
(***************************************************************************)
EXTENDS Naturals, Sequences, SequencesExt

CONSTANTS
    Chars,      \* byte values other than the line terminator
    NL,         \* the line terminator '\n'
    MaxInput    \* bound on the number of bytes the producer writes

ASSUME NL \notin Chars /\ MaxInput \in Nat

VARIABLES
    stream,     \* every byte the producer has written, in order
    records     \* the records handed to the rule tree, in order

vars == <<stream, records>>

Byte == Chars \cup {NL}

(* The complete records of s: each ends with, and contains one, NL.        *)
RECURSIVE Records(_)
Records(s) ==
    LET p == SelectInSeq(s, LAMBDA x : x = NL)
    IN  IF p = 0 THEN <<>>
        ELSE <<SubSeq(s, 1, p)>> \o Records(SubSeq(s, p + 1, Len(s)))

Init ==
    /\ stream = <<>>
    /\ records = <<>>

Write(b) ==
    /\ Len(stream) < MaxInput
    /\ stream' = Append(stream, b)
    /\ UNCHANGED records

(* One or more of the next complete records are handed over.               *)
Deliver ==
    /\ \E n \in (Len(records) + 1)..Len(Records(stream)) :
          records' = SubSeq(Records(stream), 1, n)
    /\ UNCHANGED stream

Next ==
    \/ \E b \in Byte : Write(b)
    \/ Deliver

Spec == Init /\ [][Next]_vars /\ WF_vars(Deliver)

=============================================================================
