----------------------------- MODULE FileSource -----------------------------
(***************************************************************************)
(* One file source (a D_FILER descriptor) under the Linux backend          *)
(* (src/evt_inotify.c): how open_descriptor, descriptor_read, the main     *)
(* loop's event processing and the idle drain of pending reads follow a   *)
(* file through appends, unlink and re-creation (log rotation).           *)
(*                                                                         *)
(* The path names at most one inode at a time; inodes are numbered in     *)
(* creation order.  A writer appends to whatever inode the path names.    *)
(* The kernel queues inotify events for watched inodes and, once the      *)
(* directory is watched, for creations in it.                              *)
(*                                                                         *)
(* The daemon side is the record sys:                                      *)
(*   state    d->state                                                     *)
(*   listed   how many times d is linked into desc_active_list             *)
(*   pending  d is in pending_reads_table                                  *)
(*   inDir    d has a filew in its directory watcher (evt_watch_vnode)    *)
(*   dirWatch the directory has an inotify watch (never removed)           *)
(*   watched  inodes with a filew in filewatchers (IN_MODIFY|IN_ATTRIB)   *)
(*   open     "none", or the part of open_file_r still to run: "vnode"     *)
(*            (access() failed) or "reg" (open() done, evt_reg_read next) *)
(*   fdIno    the inode d->fd reads, 0 when closed                          *)
(*   offset   the file offset of d->fd                                      *)
(*   got      history: the bytes of each inode the daemon has read         *)
(***************************************************************************)
EXTENDS Naturals, Sequences

CONSTANTS
    MaxInodes,    \* bound on the files created at the path
    MaxSize,      \* bound on the bytes written to one file
    Chunk,        \* DLOG_READ_MAX_CHUNK, in bytes
    MaxQueue,     \* bound on the inotify events queued at once
    MaxFiles,     \* DLOG_MAX_FILES, the size of main_loop's read_files
    Unlinks,      \* whether the environment may unlink the file
    OpenRaces     \* whether writers may act inside open_file_r

ASSUME
    /\ MaxInodes \in Nat \ {0}
    /\ MaxSize \in Nat
    /\ Chunk \in Nat \ {0}
    /\ MaxQueue \in Nat \ {0}
    /\ MaxFiles \in Nat
    /\ Unlinks \in BOOLEAN
    /\ OpenRaces \in BOOLEAN

VARIABLES
    sys,          \* the descriptor and the daemon tables it is in
    path,         \* inode the path names, 0 for none
    size,         \* size of every inode created so far
    created,      \* number of inodes created
    queue,        \* inotify events not yet read by evt_process_vnode
    phase,        \* where main is: "start", "wait" (in epoll_wait),
                  \* "events" (evt_process_vnode), "files" (read_files loop)
    nread,        \* entries of read_files not yet read
    rotating      \* whether the writer of this behaviour rotates the file

vars == <<sys, path, size, created, queue, phase, nread, rotating>>

Inodes == 1..MaxInodes
States == {"INIT", "PENDING", "ACTIVE", "DRAIN_ROTATE", "DEAD"}
InotifyEvent == [kind : {"MODIFY", "ATTRIB"}, ino : Inodes] \cup [kind : {"CREATE"}]

-----------------------------------------------------------------------------
(* evt_watch_vnode: add an IN_CREATE watch on the file's directory (one  *)
(* dirw per watch descriptor) and a filew for d in it, unless d already   *)
(* has one.                                                                *)
EvtWatchVnode(s) == [s EXCEPT !.inDir = TRUE, !.dirWatch = TRUE]

(* evt_reg_read for a file: a filew with an IN_MODIFY watch on the inode  *)
(* the path names when it is called, appended to filewatchers;             *)
(* evt_reg_vnode_del then adds IN_ATTRIB to the same watch.  With no file *)
(* at the path inotify_add_watch fails.                                    *)
EvtRegRead(s) == [s EXCEPT !.watched = @ \cup {path}]

(* open_file_r up to its first system call that depends on the path      *)
(* again.  At INIT, access() failing sends it to evt_watch_vnode;         *)
(* otherwise open() binds d->fd to the inode the path names now (open     *)
(* fails with no file, leaving no inode).  A fresh descriptor seeks to    *)
(* the end, a reused one reads from the start.                             *)
OpenFileR(s, reuse) ==
    IF s.state = "INIT" /\ path = 0
    THEN [s EXCEPT !.open = "vnode"]
    ELSE [s EXCEPT !.fdIno = path,
                   !.offset = IF path = 0 THEN @ ELSE IF reuse THEN 0 ELSE size[path],
                   !.open = "reg"]

(* open_descriptor up to the return of open_file_r's first part.          *)
OpenDescriptor(s, reuse) == OpenFileR(s, reuse)

(* The end of open_descriptor: on DEAD it calls close_descriptor, which   *)
(* returns at once because the state is already DEAD; an ACTIVE           *)
(* descriptor is linked at the tail of the active list.                    *)
OpenDescriptorTail(s) ==
    IF s.state = "ACTIVE" THEN [s EXCEPT !.listed = @ + 1] ELSE s

(* The rest of open_file_r and open_descriptor.  After a failed access(), *)
(* evt_watch_vnode and PENDING.  After open(), evt_reg_read: when it      *)
(* succeeds the descriptor is ACTIVE and, since the test                   *)
(* `flags | DOPEN_SEEKSTART` is always true, in pending reads; when it    *)
(* fails the descriptor is DEAD.                                           *)
FinishOpen(s) ==
    IF s.open = "vnode"
    THEN [EvtWatchVnode(s) EXCEPT !.state = "PENDING", !.open = "none"]
    ELSE OpenDescriptorTail(
           IF path # 0
           THEN [EvtRegRead(s) EXCEPT !.state = "ACTIVE", !.pending = TRUE, !.open = "none"]
           ELSE [s EXCEPT !.state = "DEAD", !.open = "none"])

(* reset_descriptor: close the fd, unlink from the active list only when  *)
(* ACTIVE, back to INIT.                                                   *)
ResetDescriptor(s) ==
    [s EXCEPT !.fdIno = 0,
              !.listed = IF s.state = "ACTIVE" THEN @ - 1 ELSE @,
              !.state = "INIT"]

(* Mutant of DescriptorRead: the offset advances by a whole chunk however *)
(* few bytes read() returned.                                              *)
DescriptorReadFullChunk(s) ==
    LET unread == size[s.fdIno] - s.offset
        r == [s EXCEPT !.offset = @ + Chunk, !.got[s.fdIno] = s.offset + Chunk]
    IN  IF s.fdIno = 0 THEN s
        ELSE IF unread >= Chunk THEN [r EXCEPT !.pending = TRUE]
        ELSE IF r.state = "DRAIN_ROTATE"
             THEN OpenDescriptor(ResetDescriptor([r EXCEPT !.pending = FALSE]),
                                 TRUE)
             ELSE [r EXCEPT !.pending = FALSE]

(* Mutant of DescriptorRead: a read cut at the chunk cap is not put back  *)
(* in pending reads.                                                       *)
DescriptorReadNoRequeue(s) ==
    LET unread == size[s.fdIno] - s.offset
        k == IF unread >= Chunk THEN Chunk ELSE unread
        r == [s EXCEPT !.offset = @ + k, !.got[s.fdIno] = s.offset + k]
    IN  IF s.fdIno = 0 THEN s
        ELSE IF unread >= Chunk THEN r
        ELSE IF r.state = "DRAIN_ROTATE"
             THEN OpenDescriptor(ResetDescriptor([r EXCEPT !.pending = FALSE]),
                                 TRUE)
             ELSE [r EXCEPT !.pending = FALSE]

(* descriptor_read: with no fd (closed by a reset) read() fails and       *)
(* nothing happens.  Otherwise read to EOF, or stop at the chunk cap and  *)
(* stay in pending reads.  At EOF (read() = 0) leave pending reads and,   *)
(* in DRAIN_ROTATE, reset and reopen with SEEKSTART | KEEP_BUFFERS.       *)
DescriptorRead(s) ==
    LET unread == size[s.fdIno] - s.offset
        k == IF unread >= Chunk THEN Chunk ELSE unread
        r == [s EXCEPT !.offset = @ + k, !.got[s.fdIno] = s.offset + k]
    IN  IF s.fdIno = 0 THEN s
        ELSE IF unread >= Chunk THEN [r EXCEPT !.pending = TRUE]
        ELSE IF r.state = "DRAIN_ROTATE"
             THEN OpenDescriptor(ResetDescriptor([r EXCEPT !.pending = FALSE]),
                                 TRUE)
             ELSE [r EXCEPT !.pending = FALSE]

(* evt_process_vnode on one event.  IN_CREATE of a file a filew waits for *)
(* reopens it (SEEKSTART | KEEP_BUFFERS).  IN_ATTRIB of a watched inode    *)
(* whose link count dropped (d->fd's inode is no longer linked at the      *)
(* path) while access() fails removes the watch and sets DRAIN_ROTATE.     *)
(* IN_MODIFY only adds to read_files (see IsRead).  Events of unwatched     *)
(* inodes are skipped.                                                     *)
ProcessEvent(s, e) ==
    CASE e.kind = "CREATE" /\ s.inDir ->
             OpenDescriptor([s EXCEPT !.inDir = FALSE], TRUE)
      [] e.kind = "ATTRIB" /\ e.ino \in s.watched /\ path = 0 ->
             [s EXCEPT !.watched = @ \ {e.ino}, !.state = "DRAIN_ROTATE"]
      [] OTHER -> s

(* IN_MODIFY of a watched inode puts d in read_files.                      *)
IsRead(s, e) == e.kind = "MODIFY" /\ e.ino \in s.watched

(* One entry of the read_files loop of main_loop: a DRAIN_ROTATE file goes *)
(* into pending reads, then descriptor_read(filed, 0).                     *)
ReadFile(s) ==
    DescriptorRead(IF s.state = "DRAIN_ROTATE" THEN [s EXCEPT !.pending = TRUE]
                   ELSE s)

-----------------------------------------------------------------------------
Init ==
    /\ sys = [state |-> "INIT", listed |-> 0, pending |-> FALSE,
              inDir |-> FALSE, dirWatch |-> FALSE, watched |-> {},
              open |-> "none", fdIno |-> 0, offset |-> 0, got |-> [i \in Inodes |-> 0]]
    /\ created \in {0, 1}
    /\ path = created
    /\ size = [i \in Inodes |-> 0]
    /\ queue = <<>>
    /\ phase = "start"
    /\ nread = 0
    /\ rotating \in IF Unlinks THEN BOOLEAN ELSE {FALSE}

Env == <<path, size, created, rotating>>

(* The daemon runs a step only when it is not inside open_file_r.  The     *)
(* writers are other processes and may act between open_file_r's access() *)
(* or open() and its watch; with OpenRaces FALSE they are assumed not to. *)
Idling == sys.open = "none"
WritersMayAct == OpenRaces \/ Idling

(* main: open_descriptor(origin, NULL, NULL, DOPEN_NOFLAGS).               *)
Start ==
    /\ phase = "start"
    /\ phase' = "wait"
    /\ sys' = OpenDescriptor(sys, FALSE)
    /\ UNCHANGED <<queue, nread>> /\ UNCHANGED Env

(* The kernel queues an event for a watch, unless the queue is at its     *)
(* bound; an event identical to the last unread one is coalesced with it. *)
Notify(cond, e) ==
    IF cond /\ Len(queue) < MaxQueue /\ (queue = <<>> \/ queue[Len(queue)] # e)
    THEN Append(queue, e) ELSE queue

(* open_file_r goes on from where its first part left off.               *)
CompleteOpen ==
    /\ ~Idling
    /\ sys' = FinishOpen(sys)
    /\ UNCHANGED <<queue, phase, nread>> /\ UNCHANGED Env

(* A writer appends a byte to the file at the path.                        *)
Append1 ==
    /\ WritersMayAct
    /\ phase # "start" /\ path # 0 /\ size[path] < MaxSize
    /\ size' = [size EXCEPT ![path] = @ + 1]
    /\ queue' = Notify(path \in sys.watched, [kind |-> "MODIFY", ino |-> path])
    /\ UNCHANGED <<sys, path, created, phase, nread, rotating>>

(* The file is unlinked (renamed away by a rotation).                      *)
Unlink ==
    /\ WritersMayAct
    /\ rotating /\ phase # "start" /\ path # 0
    /\ path' = 0
    /\ queue' = Notify(path \in sys.watched, [kind |-> "ATTRIB", ino |-> path])
    /\ UNCHANGED <<sys, size, created, phase, nread, rotating>>

(* A new file is created at the path.                                      *)
Create ==
    /\ WritersMayAct
    /\ phase # "start" /\ path = 0 /\ created < MaxInodes
    /\ created' = created + 1
    /\ path' = created + 1
    /\ queue' = Notify(sys.dirWatch, [kind |-> "CREATE"])
    /\ UNCHANGED <<sys, size, phase, nread, rotating>>

(* epoll_wait reports the inotify fd, or evt_process_vnode's read() loop   *)
(* returns the next event: process it.                                     *)
Event ==
    /\ Idling
    /\ phase \in {"wait", "events"} /\ queue # <<>>
    /\ phase' = "events"
    /\ sys' = ProcessEvent(sys, Head(queue))
    /\ nread' = IF IsRead(sys, Head(queue)) THEN nread + 1 ELSE nread
    /\ queue' = Tail(queue)
    /\ UNCHANGED Env

(* read() on the inotify fd returns EAGAIN: evt_process_vnode returns and  *)
(* the event loop moves on to read_files.                                  *)
EndEvents ==
    /\ Idling
    /\ phase = "events" /\ queue = <<>>
    /\ phase' = IF nread = 0 THEN "wait" ELSE "files"
    /\ UNCHANGED <<sys, queue, nread>> /\ UNCHANGED Env

(* The next entry of the read_files loop.                                  *)
ReadNext ==
    /\ Idling
    /\ phase = "files"
    /\ sys' = ReadFile(sys)
    /\ nread' = nread - 1
    /\ phase' = IF nread = 1 THEN "wait" ELSE "files"
    /\ UNCHANGED queue /\ UNCHANGED Env

(* epoll_wait times out: idle_loop reads the descriptor if it is pending   *)
(* and ACTIVE, DRAIN or DRAIN_ROTATE.                                      *)
Idle ==
    /\ Idling
    /\ phase = "wait" /\ queue = <<>>
    /\ sys.pending /\ sys.state \in {"ACTIVE", "DRAIN_ROTATE"}
    /\ sys' = DescriptorRead(sys)
    /\ UNCHANGED <<queue, phase, nread>> /\ UNCHANGED Env

(* epoll_wait times out with nothing pending: the daemon waits again.      *)
Wait ==
    /\ Idling
    /\ phase = "wait" /\ queue = <<>>
    /\ ~(sys.pending /\ sys.state \in {"ACTIVE", "DRAIN_ROTATE"})
    /\ UNCHANGED vars

Daemon == Start \/ CompleteOpen \/ Event \/ EndEvents \/ ReadNext \/ Idle

Next == Daemon \/ Append1 \/ Unlink \/ Create \/ Wait

(* The daemon is one thread that never blocks except in epoll_wait, which *)
(* returns when the inotify fd is readable and times out after            *)
(* DLOG_EVENTLOOP_TIMEOUT otherwise: each of its steps is taken whenever  *)
(* it stays possible.                                                      *)
Spec == Init /\ [][Next]_vars
        /\ WF_vars(Start) /\ WF_vars(Event) /\ WF_vars(EndEvents)
        /\ WF_vars(ReadNext) /\ WF_vars(Idle) /\ WF_vars(CompleteOpen)

-----------------------------------------------------------------------------
TypeOK ==
    /\ sys.state \in States
    /\ sys.listed \in Nat
    /\ sys.pending \in BOOLEAN /\ sys.inDir \in BOOLEAN
    /\ sys.dirWatch \in BOOLEAN /\ sys.watched \subseteq Inodes
    /\ sys.open \in {"none", "vnode", "reg"}
    /\ sys.fdIno \in 0..MaxInodes
    /\ sys.fdIno # 0 => sys.offset \in 0..size[sys.fdIno]
    /\ sys.got \in [Inodes -> 0..MaxSize]
    /\ path \in 0..MaxInodes /\ created \in 0..MaxInodes
    /\ size \in [Inodes -> 0..MaxSize]
    /\ queue \in Seq(InotifyEvent) /\ Len(queue) <= MaxQueue
    /\ phase \in {"start", "wait", "events", "files"}
    /\ nread \in 0..(MaxInodes * MaxSize)
    /\ rotating \in BOOLEAN

(* The source follows its path: once the writers stop, the daemon has    *)
(* read every byte of the file at the path, and stays caught up.  The     *)
(* IN_MODIFY reads, the chunk cap with pending reads, the idle drain and  *)
(* the IN_CREATE open of a file that was missing must never strand a      *)
(* byte.                                                                   *)
CaughtUpWithPath ==
    <>[](path # 0 => sys.got[path] = size[path])

CaughtUpWithoutRotation == ~rotating => CaughtUpWithPath

(* spec.md 4.f and seed 4: a descriptor that enters DRAIN_ROTATE reads    *)
(* what is left of the unlinked file and is reopened: it does not stay in *)
(* DRAIN_ROTATE.                                                            *)
DrainRotateEnds ==
    sys.state = "DRAIN_ROTATE" ~> sys.state # "DRAIN_ROTATE"

(* spec.md 8 (state-machine closure): no descriptor is on the active list *)
(* while DEAD.                                                              *)
NoDeadListed ==
    sys.state = "DEAD" => sys.listed = 0

(* evt_process_vnode stores one read_files entry per IN_MODIFY it reads,  *)
(* and its read() loop runs until EAGAIN: the entries must fit in the     *)
(* DLOG_MAX_FILES slots of main_loop's read_files array.                  *)
ReadFilesFit ==
    nread <= MaxFiles

(* spec.md 4.f: the active list holds a descriptor at most once            *)
(* (TAILQ_INSERT_TAIL of an element already linked corrupts the list).     *)
ListedAtMostOnce ==
    sys.listed <= 1

(* An ACTIVE file source watches the inode it reads: the IN_MODIFY and    *)
(* IN_ATTRIB events that drive its reads and its rotation are those of    *)
(* d->fd's file (open_file_r opens the path, then evt_reg_read watches   *)
(* the path).                                                              *)
WatchesWhatItReads ==
    sys.state = "ACTIVE" /\ Idling => sys.fdIno \in sys.watched

=============================================================================
