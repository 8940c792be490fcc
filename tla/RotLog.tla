-------------------------------- MODULE RotLog --------------------------------
(***************************************************************************)
(* Rotating log sinks (src/rotlog.c) as the daemon drives them: a WRITE    *)
(* of the rule tree reaches descriptor_write_direct (src/dlog.c), whose    *)
(* post-write hook counts the bytes and calls rotlog_rotate at the size    *)
(* threshold; SIGUSR1 runs dlog_sig_rotlog, which rotates every rotlog on  *)
(* the active list.  rotlog_rotate closes the fd, renames the file to a    *)
(* name made of the current second, and reopens the sink through           *)
(* open_descriptor, which appends it to the active list.                   *)
(*                                                                         *)
(* Fds are numbers handed out lowest-first, as open() does, so a number    *)
(* closed by one sink can come back from another sink's open.  A line is   *)
(* one byte.  Someone else may move the log file away and create a new    *)
(* one at its path (an administrator, logrotate).                          *)
(***************************************************************************)
EXTENDS Integers, Sequences, FiniteSets

CONSTANTS
    Descs,      \* the descriptors on the active list, model values
    Kind,       \* Kind[d]: "filer" or "rotlog"
    Order,      \* the order main opened them in
    Size,       \* origin->file.size, the rotation threshold, in lines
    HWM,        \* DLOG_WRITE_HIGH_WM
    MaxTime,    \* the last second of the clock
    MaxWrites,  \* bound on the lines written
    MaxMoves,   \* bound on the outside moves and creations of log files
    Nil

ASSUME Order \in Seq(Descs) /\ Size \in Nat \ {0} /\ HWM \in Nat \ {0}

LOCAL TQ == INSTANCE TailQ

None == "none"

Rotlogs == {d \in Descs : Kind[d] = "rotlog"}

\* The fd numbers the descriptors can hold (open() returns the lowest free).
FdNums == 1 .. Len(Order)

VARIABLES
    q,          \* desc_active_list
    fd,         \* fd[d]: d->fd
    fdOwner,    \* fdOwner[n]: the sink whose file fd number n is open on
    onDisk,     \* onDisk[w]: a file exists at w's path
    wq,         \* wq[w]: the lines in w's write queue
    cur,        \* cur[w]: *cur_file_size, rotlog_on_activate's counter
    written,    \* written[w]: the bytes in the file w's open fd writes to
    renames,    \* renames[w]: the successful renames of w's file
    rotated,    \* rotated[w]: the seconds of the rotated files of w
    now,        \* CLOCK_REALTIME in seconds
    pc,         \* "loop", or "rot" inside dlog_sig_rotlog
    it,         \* the TAILQ_FOREACH cursor of dlog_sig_rotlog
    visits,     \* the iterations of that loop so far
    writes,     \* lines written so far
    moves       \* outside moves and creations so far

vars == <<q, fd, fdOwner, onDisk, wq, cur, written, renames, rotated, now, pc,
          it, visits, writes, moves>>

\* main's start-up: every descriptor opened in turn (fds 1, 2, ...) and
\* appended to the active list; rotlog_on_activate stats a new, empty file.
Init ==
    /\ q = TQ!InsertAll(TQ!TailQInit(Descs), Order)
    /\ fd = [d \in Descs |-> CHOOSE i \in FdNums : Order[i] = d]
    /\ fdOwner = [n \in FdNums |-> Order[n]]
    /\ onDisk = [w \in Rotlogs |-> TRUE]
    /\ wq = [w \in Rotlogs |-> 0]
    /\ cur = [w \in Rotlogs |-> 0]
    /\ written = [d \in Descs |-> 0]
    /\ renames = [w \in Rotlogs |-> 0]
    /\ rotated = [w \in Rotlogs |-> {}]
    /\ now = 0 /\ pc = "loop" /\ it = Nil /\ visits = 0
    /\ writes = 0 /\ moves = 0

\* The number open() returns: the lowest one not open.
LowestFree(owner) ==
    CHOOSE n \in FdNums : owner[n] = None /\ \A m \in FdNums : owner[m] = None => n <= m

\* open_descriptor(d->origin, d, &rotlog_vfn, DOPEN_NOFLAGS) on w, whose
\* fd is already closed (fds as in closed): open_file_w takes the lowest
\* free number (O_CREAT, so it succeeds), wq_destroy empties the queue (no
\* DOPEN_KEEP_BUFFERS), rotlog_on_activate stats the new, empty file, and
\* w, ACTIVE, is appended to the active list again.
Reopen(w, closed, wrIn) ==
    LET n == LowestFree(closed)
    IN  /\ fdOwner' = [closed EXCEPT ![n] = w]
        /\ fd' = [fd EXCEPT ![w] = n]
        /\ wq' = [wq EXCEPT ![w] = 0]
        /\ cur' = [cur EXCEPT ![w] = 0]
        /\ written' = [wrIn EXCEPT ![w] = 0]
        /\ q' = TQ!InsertTail(q, w)

\* rotlog_rotate(w) with w's queue and counter as they stand: close(d->fd)
\* closes whatever file that number is open on; rename() fails when no
\* file is at the path, and the sink keeps the closed number; otherwise
\* the file becomes path.<now> (replacing one of that name: the suffix
\* has one-second resolution) and the sink is reopened.
RotlogRotate(w, wqIn, curIn, wrIn) ==
    LET closed == [fdOwner EXCEPT ![fd[w]] = None]
    IN  IF onDisk[w]
        THEN /\ renames' = [renames EXCEPT ![w] = @ + 1]
             /\ rotated' = [rotated EXCEPT ![w] = @ \cup {now}]
             /\ Reopen(w, closed, wrIn)
        ELSE /\ fdOwner' = closed
             /\ wq' = [wq EXCEPT ![w] = wqIn]
             /\ cur' = [cur EXCEPT ![w] = curIn]
             /\ written' = wrIn
             /\ UNCHANGED <<fd, renames, rotated, q>>

\* rotlog_post_line_write: the counter grows by the bytes wq_write
\* returned (-1 on an error) and the sink rotates at the threshold.
PostLineWrite(w, wqIn, wrIn, nbytes) ==
    IF cur[w] + nbytes < Size
    THEN /\ cur' = [cur EXCEPT ![w] = @ + nbytes]
         /\ wq' = [wq EXCEPT ![w] = wqIn]
         /\ written' = wrIn
         /\ UNCHANGED <<fd, fdOwner, renames, rotated, q>>
    ELSE RotlogRotate(w, wqIn, cur[w] + nbytes, wrIn)

\* descriptor_write of one line to rotlog w: wq_add_line (dropped at the
\* watermark), then wq_write of the whole queue to d->fd: the lines land in
\* the file that number is open on; on a closed number writev fails with
\* EBADF, returns -1 and the lines stay queued.
Write(w) ==
    /\ pc = "loop"
    /\ writes < MaxWrites
    /\ LET queued == IF wq[w] < HWM THEN wq[w] + 1 ELSE wq[w]
           owner == fdOwner[fd[w]]
       IN  IF owner # None
           THEN PostLineWrite(w, 0, [written EXCEPT ![owner] = @ + queued], queued)
           ELSE PostLineWrite(w, queued, written, -1)
    /\ writes' = writes + 1
    /\ UNCHANGED <<onDisk, now, pc, it, visits, moves>>

\* SIGUSR1, handled by process_signals: dlog_sig_rotlog starts its walk.
SigRotlog ==
    /\ pc = "loop"
    /\ pc' = "rot" /\ it' = q.first /\ visits' = 0
    /\ UNCHANGED <<q, fd, fdOwner, onDisk, wq, cur, written, renames, rotated,
                   now, writes, moves>>

\* One iteration of dlog_sig_rotlog's TAILQ_FOREACH: a rotlog is rotated
\* whatever its size, then the loop follows d->_lnk.tqe_next as the
\* rotation left it.  The walk is cut after 2 * |Descs| iterations.
RotStep ==
    /\ pc = "rot"
    /\ it # Nil
    /\ visits < 2 * Cardinality(Descs)
    /\ IF it \in Rotlogs
       THEN /\ RotlogRotate(it, wq[it], cur[it], written)
            /\ it' = q'.next[it]
       ELSE /\ it' = q.next[it]
            /\ UNCHANGED <<q, fd, fdOwner, wq, cur, written, renames, rotated>>
    /\ visits' = visits + 1
    /\ UNCHANGED <<onDisk, now, pc, writes, moves>>

RotDone ==
    /\ pc = "rot"
    /\ it = Nil
    /\ pc' = "loop"
    /\ UNCHANGED <<q, fd, fdOwner, onDisk, wq, cur, written, renames, rotated,
                   now, it, visits, writes, moves>>

\* The clock reaches the next second.
Tick ==
    /\ now < MaxTime
    /\ now' = now + 1
    /\ UNCHANGED <<q, fd, fdOwner, onDisk, wq, cur, written, renames, rotated,
                   pc, it, visits, writes, moves>>

\* Someone moves w's log file away (an open fd keeps writing to it), or
\* creates a new, empty one at its path.
MoveAway(w) ==
    /\ moves < MaxMoves
    /\ onDisk[w]
    /\ onDisk' = [onDisk EXCEPT ![w] = FALSE]
    /\ moves' = moves + 1
    /\ UNCHANGED <<q, fd, fdOwner, wq, cur, written, renames, rotated, now,
                   pc, it, visits, writes>>

CreateAt(w) ==
    /\ moves < MaxMoves
    /\ ~onDisk[w]
    /\ onDisk' = [onDisk EXCEPT ![w] = TRUE]
    /\ moves' = moves + 1
    /\ UNCHANGED <<q, fd, fdOwner, wq, cur, written, renames, rotated, now,
                   pc, it, visits, writes>>

Next ==
    \/ \E w \in Rotlogs : Write(w) \/ MoveAway(w) \/ CreateAt(w)
    \/ SigRotlog \/ RotStep \/ RotDone \/ Tick

Spec == Init /\ [][Next]_vars

-----------------------------------------------------------------------------
TypeOK ==
    /\ fd \in [Descs -> FdNums]
    /\ fdOwner \in [FdNums -> Descs \cup {None}]
    /\ wq \in [Rotlogs -> 0 .. HWM]
    /\ pc \in {"loop", "rot"} /\ it \in Descs \cup {Nil}

\* Spec.md section 3 and 8: the active list is an insertion-ordered
\* sequence of the ACTIVE descriptors; here every descriptor stays ACTIVE
\* (a rotation reopens its sink), so the list must stay a proper tail
\* queue holding each of them once.  It is what dlog_sig_rotlog and the
\* restart drain walk.
ActiveListIntact ==
    /\ TQ!WellFormed(q, Cardinality(Descs))
    /\ {TQ!Listed(q, Cardinality(Descs))[i] : i \in 1 .. Len(TQ!Listed(q, Cardinality(Descs)))} = Descs

\* Spec.md 4.h: rotation renames the file to path.suffix; no rotation
\* replaces a file an earlier rotation made.
RotatedFilesKept == \A w \in Rotlogs : Cardinality(rotated[w]) = renames[w]

\* rotlog.c:80 "Will continue to write into the same file": a rotlog's fd
\* number is open on its own file, or, after a failed rename, on none.
WritesReachOwnFile == \A w \in Rotlogs : fdOwner[fd[w]] \in {w, None}

\* Spec.md 4.h: the counter of rotlog_on_activate tracks the size of the
\* file being written, so the threshold is measured on that file.
CounterTracksFile ==
    \A w \in Rotlogs : fdOwner[fd[w]] = w => cur[w] = written[w]

=============================================================================
