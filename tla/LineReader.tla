----------------------------- MODULE LineReader -----------------------------
(***************************************************************************)
(* The line reader of one read-side descriptor (src/lr.c) driven by        *)
(* descriptor_read (src/dlog.c): a producer appends bytes to the source;   *)
(* on readiness the daemon reads what is available, up to one chunk, into  *)
(* the reader's buffer, then takes lines with reader_get_next_line until   *)
(* it returns NULL, handing each line to the rule tree.                    *)
(*                                                                         *)
(* Bytes are abstracted to a few values: Chars for ordinary bytes and NL   *)
(* for '\n'.  The reader's dynstr is the sequence buf, its cur_idx is cur  *)
(* (a 0-based index as in the code: bytes buf[1..cur] have been scanned).  *)
(***************************************************************************)
EXTENDS Naturals, Sequences, SequencesExt

CONSTANTS
    Chars,        \* byte values other than '\n'
    NL,           \* the line terminator LINE_TERMINATOR
    MaxInput,     \* bound on the bytes the producer writes
    Chunk,        \* bytes one descriptor_read takes at most (DLOG_READ_MAX_CHUNK)
    BlankLines    \* whether the producer may write empty lines

ASSUME
    /\ NL \notin Chars
    /\ MaxInput \in Nat
    /\ Chunk \in Nat \ {0}
    /\ BlankLines \in BOOLEAN

VARIABLES
    avail,        \* bytes written to the source and not yet read (kernel side)
    produced,     \* every byte the producer has written (history)
    buf,          \* linereader.buf
    cur,          \* linereader.cur_idx
    delivered     \* lines passed to node_eval_root, in order (history)

vars == <<avail, produced, buf, cur, delivered>>

Byte == Chars \cup {NL}

-----------------------------------------------------------------------------
(* Mutant of RemoveRange: the memmove starts at idx2 instead of idx2 + 1. *)
RemoveRangeKeepsLast(s, idx1, idx2) ==
    IF idx1 = 0 /\ idx2 >= Len(s) THEN <<>>
    ELSE IF idx2 = 0 \/ idx2 < idx1 THEN SubSeq(s, 1, idx1 - 1)
    ELSE SubSeq(s, 1, idx1) \o SubSeq(s, idx2 + 1, Len(s))

(* dynstr_remove_range(s, idx1, idx2): remove the 0-based inclusive range. *)
(* The branch idx2 = 0 sets the length to idx1 - 1, which the reader never *)
(* reaches (its idx2 is the index of a newline after the cursor, >= 1).    *)
RemoveRange(s, idx1, idx2) ==
    IF idx1 = 0 /\ idx2 >= Len(s) THEN <<>>
    ELSE IF idx2 = 0 \/ idx2 < idx1 THEN SubSeq(s, 1, idx1 - 1)
    ELSE SubSeq(s, 1, idx1) \o SubSeq(s, idx2 + 2, Len(s))

(* The scan loop of reader_get_next_line: memchr for '\n' from cur_idx;    *)
(* a '\n' found exactly at cur_idx only advances cur_idx and scans again.  *)
(* Result: the cursor reached and the 1-based position of the newline     *)
(* found, 0 for none.                                                      *)
RECURSIVE ScanNewline(_, _)
ScanNewline(b, c) ==
    LET p == SelectInSubSeq(b, c + 1, Len(b), LAMBDA x : x = NL)
    IN  IF p = c + 1 THEN ScanNewline(b, c + 1)
        ELSE [cur |-> c, nl |-> p]

(* Mutant of GetNextLine: on a miss the cursor is left one past the end.  *)
GetNextLineCursorPastEnd(b, c) ==
    LET s == ScanNewline(b, c)
    IN  IF s.nl = 0
        THEN [line |-> <<>>, buf |-> b, cur |-> Len(b) + 1]
        ELSE [line |-> SubSeq(b, 1, s.nl),
              buf  |-> RemoveRange(b, 0, s.nl - 1),
              cur  |-> 0]

(* reader_get_next_line: on a miss the cursor moves to the end and NULL    *)
(* (<<>>) is returned; on a hit the line is bytes [0..nl] inclusive, they  *)
(* are removed from the buffer and the cursor is reset.                    *)
GetNextLine(b, c) ==
    LET s == ScanNewline(b, c)
    IN  IF s.nl = 0
        THEN [line |-> <<>>, buf |-> b, cur |-> Len(b)]
        ELSE [line |-> SubSeq(b, 1, s.nl),
              buf  |-> RemoveRange(b, 0, s.nl - 1),
              cur  |-> 0]

(* The loop `while ((line = reader_get_next_line(...)))` of                *)
(* descriptor_read, collecting the lines passed to node_eval_root.         *)
RECURSIVE DrainLines(_, _, _)
DrainLines(b, c, acc) ==
    LET r == GetNextLine(b, c)
    IN  IF r.line = <<>>
        THEN [lines |-> acc, buf |-> r.buf, cur |-> r.cur]
        ELSE DrainLines(r.buf, r.cur, Append(acc, r.line))

(* Bytes one descriptor_read takes: read() returns what is available up   *)
(* to the buffer size; reaching the chunk cap stops the loop (the rest is  *)
(* left for the pending-reads path), otherwise the next read is EAGAIN.    *)
ReadSize(n) == IF n < Chunk THEN n ELSE Chunk

-----------------------------------------------------------------------------
Init ==
    /\ avail = <<>>
    /\ produced = <<>>
    /\ buf = <<>>
    /\ cur = 0
    /\ delivered = <<>>

(* The producer writes one byte to the source (a file append, a pipe or    *)
(* socket write).  Without BlankLines it never writes an empty line.       *)
Produce(b) ==
    /\ Len(produced) < MaxInput
    /\ BlankLines \/ b # NL \/ (produced # <<>> /\ Last(produced) # NL)
    /\ avail' = Append(avail, b)
    /\ produced' = Append(produced, b)
    /\ UNCHANGED <<buf, cur, delivered>>

(* descriptor_read: read into reader_get_buffer / reader_buffer_fill, then *)
(* hand every complete line to the rule tree.                              *)
DescriptorRead ==
    /\ avail # <<>>
    /\ LET k == ReadSize(Len(avail))
           r == DrainLines(buf \o SubSeq(avail, 1, k), cur, <<>>)
       IN  /\ avail' = SubSeq(avail, k + 1, Len(avail))
           /\ buf' = r.buf
           /\ cur' = r.cur
           /\ delivered' = delivered \o r.lines
    /\ UNCHANGED produced

Next ==
    \/ \E b \in Byte : Produce(b)
    \/ DescriptorRead

(* Readiness is edge triggered (EPOLLET / EV_CLEAR) and fires on every     *)
(* arrival; a read cut at the chunk cap is re-queued in pending reads.     *)
Spec == Init /\ [][Next]_vars /\ WF_vars(DescriptorRead)

-----------------------------------------------------------------------------
TypeOK ==
    /\ avail \in Seq(Byte)
    /\ produced \in Seq(Byte)
    /\ buf \in Seq(Byte)
    /\ cur \in 0..Len(buf)
    /\ delivered \in Seq(Seq(Byte))

(* Across any sequence of reads and line extractions, the lines handed to  *)
(* the rule tree, followed by what is still buffered and what is still    *)
(* unread, are exactly the bytes the producer wrote: descriptor_read and   *)
(* reader_get_next_line never lose, duplicate or reorder a byte.           *)
ByteConservation ==
    FlattenSeq(delivered) \o buf \o avail = produced

(* spec.md 8: "next_line() output always ends with exactly one '\n' and    *)
(* contains no earlier '\n'".                                              *)
AtMostOneNewline ==
    \A i \in 1..Len(delivered) :
        \A j \in 1..(Len(delivered[i]) - 1) : delivered[i][j] # NL

(* The reader implements the record stream of RecordStream: what reaches   *)
(* the rule tree is the sequence of records of what was written, and every *)
(* complete record read is eventually handed over.                         *)
RS == INSTANCE RecordStream WITH stream <- produced, records <- delivered

ImplementsRecordStream == RS!Spec

=============================================================================
