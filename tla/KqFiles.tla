------------------------------ MODULE KqFiles ------------------------------
(***************************************************************************)
(* Two file sources (D_FILER descriptors) A and B, opened in that order,  *)
(* whose files live in one directory, under the kqueue backend            *)
(* (src/evt_kq.c): open_file_r, the directory watch evt_watch_vnode sets  *)
(* up for a file that is missing, the oneshot NOTE_DELETE|NOTE_RENAME     *)
(* watch of an open file, evt_process_vnode, main_loop's batch of events  *)
(* and its read_files loop, descriptor_read and the idle drain.           *)
(*                                                                         *)
(* The environment appends to, unlinks (rotates) and creates the files.  *)
(* Each path names at most one inode; inodes are numbered in creation     *)
(* order.  kqueue's side is kept with the daemon in the record dm:        *)
(*   d        per source: state, listed (links in desc_active_list),      *)
(*            pending (in pending_reads_table), fdIno (the inode d->fd    *)
(*            reads, 0 when closed), offset, and open: "vnode" while      *)
(*            open_file_r has found the file missing and not yet watched  *)
(*            the directory, else "none"                                  *)
(*   opened   the origins main's start-up loop has opened                 *)
(*   dirFiles the filew entries of the directory's dirw, in list order    *)
(*   regs     EVFILT_VNODE registrations on the directory (each          *)
(*            add_file_watch opens and registers a new directory fd)      *)
(*   armed    sources whose oneshot deletion watch is registered          *)
(*   readEv, delEv  sources with a read / deletion event queued           *)
(*   dirEv    directory registrations with a NOTE_WRITE queued            *)
(*   got      history: the bytes of each inode the daemon has read        *)
(* The read and deletion watches go on d->fd, so only the gap between     *)
(* access() and the directory registration is open to the writers.       *)
(***************************************************************************)
EXTENDS Naturals, Sequences, SequencesExt

CONSTANTS
    A, B,         \* the two sources, model values
    MaxInodes,    \* bound on the files created in the directory
    MaxSize,      \* bound on the bytes written to one file
    Chunk,        \* DLOG_READ_MAX_CHUNK, in bytes
    MaxRotating,  \* bound on the writers that rotate their file
    OpenRaces     \* whether writers may act inside open_file_r

ASSUME /\ MaxInodes \in Nat \ {0} /\ MaxSize \in Nat /\ Chunk \in Nat \ {0}
       /\ MaxRotating \in Nat /\ OpenRaces \in BOOLEAN

Fs == {A, B}
Origins == <<A, B>>     \* the order main opens the origins in
Inodes == 1 .. MaxInodes
States == {"INIT", "PENDING", "ACTIVE", "DRAIN_ROTATE", "DEAD"}
KEvent == [k : {"dir"}, n : Nat] \cup [k : {"read", "del"}, f : Fs]

VARIABLES
    dm,           \* the daemon and its kqueue registrations (see above)
    path,         \* the inode each source's path names, 0 for none
    size,         \* the size of every inode created so far
    created,      \* the number of inodes created
    rotating,     \* the sources whose writer unlinks and re-creates the file
    phase,        \* "start" (main's open loop), "wait" (in kevent),
                  \* "events" (the loop over the batch)
    batch,        \* the events kevent returned not yet processed
    readFiles     \* main_loop's read_files

vars == <<dm, path, size, created, rotating, phase, batch, readFiles>>

-----------------------------------------------------------------------------
(* add_file_watch: a new directory fd is opened each time.  For a         *)
(* descriptor already in dir->files it is closed again (returns 0); else *)
(* a filew is appended and the new fd returned.                           *)
AddFileWatch(w, f) ==
    IF f \in Range(w.dirFiles) THEN w ELSE [w EXCEPT !.dirFiles = Append(@, f)]

(* Mutant of EvtWatchVnode: the directory is registered once, when its    *)
(* dirw is created, as if add_file_watch reused dir->dirfd.               *)
EvtWatchVnodeOnce(w, f) ==
    IF f \in Range(w.dirFiles) THEN w
    ELSE [AddFileWatch(w, f) EXCEPT !.regs = IF @ = 0 THEN 1 ELSE @]

(* evt_watch_vnode: unless add_file_watch reported "already watched",     *)
(* the fd it returned is registered (EVFILT_VNODE, EV_ADD|EV_CLEAR,       *)
(* NOTE_WRITE|NOTE_EXTEND|NOTE_DELETE, tagged VNODE_DIR).                 *)
EvtWatchVnode(w, f) ==
    IF f \in Range(w.dirFiles) THEN w
    ELSE [AddFileWatch(w, f) EXCEPT !.regs = @ + 1]

(* open_file_r.  In INIT access() failing leaves the rest of the open to  *)
(* FinishOpen.  Otherwise open(): a fresh descriptor seeks to the end,  *)
(* a reused one reads from the start; evt_reg_read registers EVFILT_READ  *)
(* (kqueue reports a read at once when there are bytes past the offset)   *)
(* and evt_reg_vnode_del the deletion watch.  A failed open makes          *)
(* evt_reg_read fail too: DEAD.                                            *)
OpenFileR(w, f, reuse) ==
    LET s == w.d[f]
        off == IF reuse THEN 0 ELSE size[path[f]]
    IN  IF s.state = "INIT" /\ path[f] = 0
        THEN [w EXCEPT !.d[f].open = "vnode"]
        ELSE IF path[f] = 0
        THEN [w EXCEPT !.d[f].state = "DEAD"]
        ELSE [w EXCEPT !.d[f].fdIno = path[f], !.d[f].offset = off,
                       !.d[f].state = "ACTIVE",
                       !.readEv = IF size[path[f]] > off THEN @ \cup {f} ELSE @,
                       !.armed = @ \cup {f}]

(* The rest of open_file_r after a failed access(): the file is watched   *)
(* for through its directory and the descriptor goes PENDING; open_file_r *)
(* returns and open_descriptor links nothing.                             *)
FinishOpen(w, f) ==
    [EvtWatchVnode(w, f) EXCEPT !.d[f].state = "PENDING", !.d[f].open = "none"]

(* open_descriptor on a D_FILER: an ACTIVE descriptor is linked at the    *)
(* tail of desc_active_list.                                              *)
OpenDescriptor(w, f, reuse) ==
    LET o == OpenFileR(w, f, reuse)
    IN  IF o.d[f].state = "ACTIVE" THEN [o EXCEPT !.d[f].listed = @ + 1] ELSE o

(* reset_descriptor: close(d->fd), which drops its kqueue registrations   *)
(* and their queued events; unlink only when ACTIVE; INIT.                *)
ResetDescriptor(w, f) ==
    [w EXCEPT !.d[f].fdIno = 0,
              !.d[f].listed = IF w.d[f].state = "ACTIVE" THEN @ - 1 ELSE @,
              !.d[f].state = "INIT",
              !.readEv = @ \ {f}, !.delEv = @ \ {f}, !.armed = @ \ {f}]

(* Mutant of DescriptorRead: the offset advances by a whole chunk however *)
(* few bytes read() returned.                                              *)
DescriptorReadFullChunk(w, f) ==
    LET s == w.d[f]
        unread == size[s.fdIno] - s.offset
        r == [w EXCEPT !.d[f].offset = @ + Chunk, !.got[s.fdIno] = s.offset + Chunk]
    IN  IF s.fdIno = 0 THEN w
        ELSE IF unread >= Chunk THEN [r EXCEPT !.d[f].pending = TRUE]
        ELSE IF s.state = "DRAIN_ROTATE"
             THEN OpenDescriptor(ResetDescriptor([r EXCEPT !.d[f].pending = FALSE], f),
                                 f, TRUE)
             ELSE [r EXCEPT !.d[f].pending = FALSE]

(* descriptor_read(d, 0): with d->fd closed nothing is read.  Otherwise   *)
(* read to EOF, or stop at the chunk cap and stay in pending reads.  At   *)
(* EOF leave pending reads and, in DRAIN_ROTATE, reset and reopen with    *)
(* SEEKSTART | KEEP_BUFFERS.                                              *)
DescriptorRead(w, f) ==
    LET s == w.d[f]
        unread == size[s.fdIno] - s.offset
        k == IF unread >= Chunk THEN Chunk ELSE unread
        r == [w EXCEPT !.d[f].offset = @ + k, !.got[s.fdIno] = s.offset + k]
    IN  IF s.fdIno = 0 THEN w
        ELSE IF unread >= Chunk THEN [r EXCEPT !.d[f].pending = TRUE]
        ELSE IF s.state = "DRAIN_ROTATE"
             THEN OpenDescriptor(ResetDescriptor([r EXCEPT !.d[f].pending = FALSE], f),
                                 f, TRUE)
             ELSE [r EXCEPT !.d[f].pending = FALSE]

(* _read_pending, one entry of the idle drain's ht_visit.                 *)
ReadPending(w, f) ==
    IF w.d[f].state \in {"ACTIVE", "DRAIN_ROTATE"} THEN DescriptorRead(w, f) ELSE w

(* evt_process_vnode on a deletion event (VNODE_FILE): when fstat on      *)
(* d->fd succeeds, DRAIN_ROTATE (the caller resets read_files to d).      *)
ProcessVnodeFile(w, f) ==
    IF w.d[f].fdIno # 0 THEN [w EXCEPT !.d[f].state = "DRAIN_ROTATE"] ELSE w

(* evt_process_vnode on a directory event: TAILQ_FOREACH over dir->files  *)
(* moves the first filew whose path access() finds onto the local flist   *)
(* and reopens its descriptor (SEEKSTART | KEEP_BUFFERS).  The moved      *)
(* entry's next pointer is now NULL, so the walk ends there; the second   *)
(* loop's remove_file_watch finds nothing left to remove.                 *)
ProcessVnodeDir(w) ==
    LET ready == SelectSeq(w.dirFiles, LAMBDA g : path[g] # 0)
    IN  IF ready = <<>> THEN w
        ELSE OpenDescriptor([w EXCEPT !.dirFiles = Remove(@, Head(ready))],
                            Head(ready), TRUE)

-----------------------------------------------------------------------------
(* Before main's open loop: each file present (empty) or missing.         *)
Init ==
    /\ \E present \in SUBSET Fs :
          /\ created = Cardinality(present)
          /\ path = [f \in Fs |-> IF f \notin present THEN 0
                                  ELSE IF f = A THEN 1 ELSE created]
    /\ size = [i \in Inodes |-> 0]
    /\ rotating \in {R \in SUBSET Fs : Cardinality(R) <= MaxRotating}
    /\ dm = [d |-> [f \in Fs |-> [state |-> "INIT", listed |-> 0, pending |-> FALSE,
                                   fdIno |-> 0, offset |-> 0, open |-> "none"]],
             opened |-> 0, dirFiles |-> <<>>, regs |-> 0, armed |-> {},
             readEv |-> {}, delEv |-> {}, dirEv |-> 0, got |-> [i \in Inodes |-> 0]]
    /\ phase = "start" /\ batch = {} /\ readFiles = <<>>

(* The daemon takes a step only when no open_file_r is half done.  The     *)
(* writers are other processes and may act inside it; with OpenRaces      *)
(* FALSE they are assumed not to.                                          *)
Idling == \A f \in Fs : dm.d[f].open = "none"
WritersMayAct == OpenRaces \/ Idling

(* main's start-up loop: open_descriptor(origin, NULL, NULL,              *)
(* DOPEN_NOFLAGS) for A, then for B, then main_loop.                      *)
Start ==
    /\ phase = "start" /\ Idling
    /\ dm' = OpenDescriptor([dm EXCEPT !.opened = @ + 1], Origins[dm.opened + 1], FALSE)
    /\ phase' = IF dm.opened + 1 = Len(Origins) THEN "wait" ELSE "start"
    /\ UNCHANGED <<path, size, created, rotating, batch, readFiles>>

(* open_file_r goes on after access(): evt_watch_vnode registers a new    *)
(* directory fd, which reports only changes made from now on.             *)
CompleteOpen(f) ==
    /\ dm.d[f].open = "vnode"
    /\ dm' = FinishOpen(dm, f)
    /\ UNCHANGED <<path, size, created, rotating, phase, batch, readFiles>>

(* kevent returns: every queued event, one per directory registration     *)
(* with a NOTE_WRITE, in an order the loop then takes as it comes.        *)
Kevent ==
    /\ phase = "wait" /\ Idling
    /\ dm.readEv \cup dm.delEv # {} \/ dm.dirEv > 0
    /\ batch' = {[k |-> "dir", n |-> j] : j \in 1 .. dm.dirEv}
                  \cup {[k |-> "read", f |-> f] : f \in dm.readEv}
                  \cup {[k |-> "del", f |-> f] : f \in dm.delEv}
    /\ dm' = [dm EXCEPT !.readEv = {}, !.delEv = {}, !.dirEv = 0]
    /\ phase' = "events" /\ readFiles' = <<>>
    /\ UNCHANGED <<path, size, created, rotating>>

(* One event of the batch.  A directory event goes to ProcessVnodeDir.    *)
(* A deletion event (evt_process_vnode's VNODE_FILE branch) whose fstat   *)
(* on d->fd succeeds sets DRAIN_ROTATE and writes ds[0] = d, *numfd = 1:   *)
(* read_files is reset to that one descriptor.  A read event of a file    *)
(* appends d to read_files.                                               *)
Event ==
    /\ phase = "events" /\ Idling
    /\ \E e \in batch :
          /\ batch' = batch \ {e}
          /\ dm' = CASE e.k = "dir"  -> ProcessVnodeDir(dm)
                      [] e.k = "del"  -> ProcessVnodeFile(dm, e.f)
                      [] e.k = "read" -> dm
          /\ readFiles' = CASE e.k = "del" /\ dm.d[e.f].fdIno # 0 -> <<e.f>>
                             [] e.k = "read" -> Append(readFiles, e.f)
                             [] OTHER -> readFiles
    /\ UNCHANGED <<path, size, created, rotating, phase>>

(* The read_files loop, one entry: a DRAIN_ROTATE file is put in pending  *)
(* reads, then descriptor_read(filed, 0).                                 *)
ReadNext ==
    /\ phase = "events" /\ Idling /\ batch = {} /\ readFiles # <<>>
    /\ LET f == Head(readFiles)
           w == IF dm.d[f].state = "DRAIN_ROTATE" THEN [dm EXCEPT !.d[f].pending = TRUE]
                ELSE dm
       IN  dm' = DescriptorRead(w, f)
    /\ readFiles' = Tail(readFiles)
    /\ UNCHANGED <<path, size, created, rotating, phase, batch>>

EndEvents ==
    /\ phase = "events" /\ Idling /\ batch = {} /\ readFiles = <<>>
    /\ phase' = "wait"
    /\ UNCHANGED <<dm, path, size, created, rotating, batch, readFiles>>

(* kevent timed out with nothing queued: idle_loop drains pending reads,  *)
(* visiting the table's entries in some order.  A reopen in the drain     *)
(* that finds the file missing finishes after the drain's other reads,   *)
(* which do not touch the directory.                                      *)
Idle ==
    /\ phase = "wait" /\ Idling
    /\ dm.readEv \cup dm.delEv = {} /\ dm.dirEv = 0
    /\ \E f \in Fs : dm.d[f].pending /\ dm.d[f].state \in {"ACTIVE", "DRAIN_ROTATE"}
    /\ \E order \in SetToSeqs({f \in Fs : dm.d[f].pending}) :
          dm' = FoldLeft(ReadPending, dm, order)
    /\ UNCHANGED <<path, size, created, rotating, phase, batch, readFiles>>

(* A writer appends a byte; kqueue queues a read event for every fd open  *)
(* on that inode.                                                         *)
Write(f) ==
    /\ WritersMayAct
    /\ path[f] # 0 /\ size[path[f]] < MaxSize
    /\ size' = [size EXCEPT ![path[f]] = @ + 1]
    /\ dm' = [dm EXCEPT !.readEv = @ \cup {g \in Fs : dm.d[g].fdIno = path[f]}]
    /\ UNCHANGED <<path, created, rotating, phase, batch, readFiles>>

(* A rotating writer unlinks the file: the armed deletion watch on it     *)
(* fires once, and every directory registration gets a NOTE_WRITE.       *)
Unlink(f) ==
    /\ WritersMayAct
    /\ f \in rotating /\ path[f] # 0
    /\ path' = [path EXCEPT ![f] = 0]
    /\ LET hit == {g \in dm.armed : dm.d[g].fdIno = path[f]}
       IN  dm' = [dm EXCEPT !.delEv = @ \cup hit, !.armed = @ \ hit, !.dirEv = dm.regs]
    /\ UNCHANGED <<size, created, rotating, phase, batch, readFiles>>

(* A writer creates the file anew (a new inode).                          *)
Create(f) ==
    /\ WritersMayAct
    /\ path[f] = 0 /\ created < MaxInodes
    /\ created' = created + 1
    /\ path' = [path EXCEPT ![f] = created + 1]
    /\ dm' = [dm EXCEPT !.dirEv = dm.regs]
    /\ UNCHANGED <<size, rotating, phase, batch, readFiles>>

Daemon == Start \/ Kevent \/ Event \/ ReadNext \/ EndEvents \/ Idle
          \/ \E f \in Fs : CompleteOpen(f)
Env == \E f \in Fs : Write(f) \/ Unlink(f) \/ Create(f)

Next == Daemon \/ Env

Spec == Init /\ [][Next]_vars

(* The loop runs whenever it has something to do: kevent returns queued   *)
(* events, and times out into idle_loop when there are none.              *)
LiveSpec ==
    Spec /\ WF_vars(Start) /\ (\A f \in Fs : WF_vars(CompleteOpen(f)))
         /\ WF_vars(Kevent) /\ WF_vars(Event) /\ WF_vars(ReadNext)
         /\ WF_vars(EndEvents) /\ WF_vars(Idle)

-----------------------------------------------------------------------------
TypeOK ==
    /\ \A f \in Fs :
          /\ dm.d[f].state \in States /\ dm.d[f].pending \in BOOLEAN
          /\ dm.d[f].open \in {"none", "vnode"}
          /\ dm.d[f].fdIno \in 0 .. created
          /\ dm.d[f].offset \in 0 .. (IF dm.d[f].fdIno = 0 THEN MaxSize
                                      ELSE size[dm.d[f].fdIno])
    /\ path \in [Fs -> 0 .. created] /\ created \in 0 .. MaxInodes
    /\ size \in [Inodes -> 0 .. MaxSize] /\ rotating \subseteq Fs
    /\ dm.regs \in Nat /\ dm.dirEv \in 0 .. dm.regs
    /\ dm.opened \in 0 .. Len(Origins)
    /\ phase \in {"start", "wait", "events"} /\ batch \subseteq KEvent
    /\ readFiles \in Seq(Fs)

(* Spec.md 4.f: a source whose file (re)appears in the watched directory   *)
(* is opened.  evt_process_vnode reopens one waiting file per directory    *)
(* event; it holds because every add_file_watch registers its own         *)
(* directory fd, so one change of the directory yields an event for each  *)
(* waiting file.                                                          *)
WaitingFileOpened ==
    \A f \in Fs : <>[](path[f] # 0) => <>[](dm.d[f].state = "ACTIVE")

(* Spec.md 4.f: a file that appears while its source waits for it in the *)
(* watched directory, and stays, is opened.  Both sources may wait at     *)
(* once and their files may appear in one change of the directory;        *)
(* evt_process_vnode reopens one waiting file per directory event, so it  *)
(* rests on every add_file_watch registering its own directory fd.  A     *)
(* file that appeared before the registration (the access() race) and a   *)
(* source stuck in DRAIN_ROTATE never wait, and are left to                *)
(* WaitingFileOpened.                                                      *)
WaitedFileOpened ==
    \A f \in Fs :
        [](dm.d[f].state = "PENDING" /\ path[f] = 0 =>
             (<>[](path[f] # 0) => <>(dm.d[f].state = "ACTIVE")))

(* Spec.md 4.f (a file source keeps up with its file): every byte         *)
(* appended to a file that is not itself rotated is eventually read,      *)
(* whatever the other file's writer does in the same batch.               *)
CaughtUpUnrotated ==
    \A f \in Fs : f \notin rotating =>
        <>[](path[f] # 0 => dm.got[path[f]] = size[path[f]])

=============================================================================
