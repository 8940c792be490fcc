----------------------------- MODULE WriteQueue -----------------------------
(***************************************************************************)
(* The write queue of one write-side descriptor (src/lw.c): wq_add_line    *)
(* appends a line unless DLOG_WRITE_HIGH_WM lines are queued; wq_write     *)
(* submits every queued line in one writev() and accounts for the bytes   *)
(* the kernel took.                                                        *)
(*                                                                         *)
(* A line is a record: id names the line, len is its length in bytes,      *)
(* data names the line whose bytes the entry's memory now holds and freed  *)
(* says whether dynstr_free has released that memory.  Byte k of a line    *)
(* is the pair <<data, k>>.  Reading a freed dynstr is undefined: the slab *)
(* arena hands the slot to the next allocation of that size, so a freed   *)
(* entry may come to hold the bytes of a line allocated after it.          *)
(***************************************************************************)
EXTENDS Naturals, Sequences, SequencesExt

CONSTANTS
    HWM,          \* DLOG_WRITE_HIGH_WM
    LineLens,     \* lengths a line may have, trailing '\n' included
    MaxLines      \* bound on the lines offered to the queue

ASSUME
    /\ HWM \in Nat \ {0}
    /\ LineLens \subseteq Nat \ {0}
    /\ MaxLines \in Nat

VARIABLES
    q,            \* wq->line[0 .. num_entries-1]
    offered,      \* number of lines offered by wq_add_line callers
    accepted,     \* the lines wq_add_line accepted, in order (history)
    sink          \* bytes the fd has taken, in order

vars == <<q, offered, accepted, sink>>

Entry == [id : 1..MaxLines, len : LineLens, data : 1..MaxLines,
          freed : BOOLEAN]

(* The bytes writev() sees for entry e (iov_base/iov_len from the dynstr). *)
Bytes(e) == [k \in 1..e.len |-> <<e.data, k>>]

QueuedBytes(s) == FlattenSeq([k \in 1..Len(s) |-> Bytes(s[k])])

-----------------------------------------------------------------------------
(* The accounting loop of wq_write: walk the entries while r covers them,  *)
(* freeing each one covered.  i is the 0-based index it stops at; that     *)
(* entry was freed iff r ran out exactly at its end.                       *)
RECURSIVE Account(_, _, _)
Account(s, i, r) ==
    IF r < s[i + 1].len THEN [i |-> i, headFreed |-> FALSE]
    ELSE IF r = s[i + 1].len THEN [i |-> i, headFreed |-> TRUE]
    ELSE Account(s, i + 1, r - s[i + 1].len)

(* memmove(&line[0], &line[i], ...) then num_entries -= i + 1: the queue  *)
(* keeps line[i .. num_entries-2]; line[i] is kept even when freed and the *)
(* last line drops out of the count.                                       *)
AfterWrite(s, a) ==
    [k \in 1..(Len(s) - a.i - 1) |->
        IF k = 1 /\ a.headFreed THEN [s[a.i + 1] EXCEPT !.freed = TRUE]
        ELSE s[a.i + k]]

(* Allocating a new dynstr of the same size may reuse the slot of a freed  *)
(* entry still in the queue: that entry's memory then holds the new line. *)
Reused(s, e) ==
    { [k \in 1..Len(s) |->
          IF k \in S /\ s[k].len = e.len THEN [s[k] EXCEPT !.data = e.data]
          ELSE s[k]]
      : S \in SUBSET {k \in 1..Len(s) : s[k].freed} }

-----------------------------------------------------------------------------
(* Mutant of WqAddLine: the watermark test is num_entries > HWM.          *)
WqAddLineOffByOne(e) ==
    \/ /\ Len(q) > HWM
       /\ UNCHANGED <<q, accepted>>
    \/ /\ Len(q) <= HWM
       /\ \E s \in Reused(q, e) : q' = Append(s, e)
       /\ accepted' = Append(accepted, e)

(* wq_add_line: rejected at the high watermark (the caller logs and the    *)
(* line is not queued), appended otherwise.                                *)
WqAddLine(e) ==
    \/ /\ Len(q) = HWM
       /\ UNCHANGED <<q, accepted>>
    \/ /\ Len(q) # HWM
       /\ \E s \in Reused(q, e) : q' = Append(s, e)
       /\ accepted' = Append(accepted, e)

(* wq_write with writev() taking r > 0 bytes of the queued bytes.          *)
WqWrite(r) ==
    /\ q # <<>>
    /\ r \in 1..Len(QueuedBytes(q))
    /\ sink' = sink \o SubSeq(QueuedBytes(q), 1, r)
    /\ q' = AfterWrite(q, Account(q, 0, r))

-----------------------------------------------------------------------------
Init ==
    /\ q = <<>>
    /\ offered = 0
    /\ accepted = <<>>
    /\ sink = <<>>

(* A caller offers a fresh line of some length.                            *)
AddLine ==
    /\ offered < MaxLines
    /\ offered' = offered + 1
    /\ \E n \in LineLens :
          WqAddLine([id |-> offered + 1, len |-> n, data |-> offered + 1,
                     freed |-> FALSE])
    /\ UNCHANGED sink

(* writev() takes r > 0 bytes.  EAGAIN, 0 and errors leave the queue as   *)
(* it is: stuttering steps here, they matter to the descriptor around it.  *)
Write ==
    /\ \E r \in 1..Len(QueuedBytes(q)) : WqWrite(r)
    /\ UNCHANGED <<offered, accepted>>

Next == AddLine \/ Write

Spec == Init /\ [][Next]_vars

-----------------------------------------------------------------------------
TypeOK ==
    /\ q \in Seq(Entry)
    /\ Len(q) <= HWM
    /\ offered \in 0..MaxLines
    /\ accepted \in Seq(Entry)
    /\ sink \in Seq((1..MaxLines) \X Nat)

(* spec.md 4.d: the fd receives the accepted lines in order, whole, each  *)
(* once: what it has taken is always a prefix of their concatenation, and *)
(* what is still queued is the rest of it.                                 *)
SinkIsPrefixOfAccepted ==
    IsPrefix(sink, QueuedBytes(accepted))

(* No entry of the queue is memory that wq_write already released.         *)
NoFreedEntryQueued ==
    \A k \in 1..Len(q) : ~q[k].freed

=============================================================================
