------------------------------- MODULE Handoff -------------------------------
(***************************************************************************)
(* Start-up and hot restart of the daemon (src/dlog.c, src/fdxfer.c,       *)
(* src/proc.c) over the active list of src/coredesc.c.                     *)
(*                                                                         *)
(* The parent opens its descriptors in start-up order (the inotify         *)
(* descriptor on Linux, the listening socket, then the configured origins) *)
(* and each one that comes up ACTIVE is appended to desc_active_list.  On  *)
(* SIGHUP, dlog_sig_restart closes the listening socket, runs              *)
(* desc_active_writes_drain(true), forks the new binary, connects to the   *)
(* transfer socket, sends every read-side descriptor on the active list    *)
(* with its residual read buffer, and shuts down.  The child parses the    *)
(* same configuration, daemonizes unless started with -n, binds the        *)
(* transfer socket named after getppid(), accepts one connection, reads    *)
(* messages until the parent closes it, and opens its origins with what it *)
(* inherited.                                                              *)
(*                                                                         *)
(* A descriptor's data is abstracted to its residual read buffer: a        *)
(* member of Residues, "" when no partial record is buffered.  Write       *)
(* queues are left out: no property here is about their contents.          *)
(***************************************************************************)
EXTENDS Integers, Sequences, FiniteSets

CONSTANTS
    Descs,      \* the descriptors of one configuration, model values
    Kind,       \* Kind[d]: "inotify", "listen", "filer" or "filew"
    Order,      \* the start-up order of Descs (inotify, listen, origins)
    Residues,   \* residual read buffers, "" for none
    Daemon,     \* TRUE unless the daemon was started with -n
    Nil

ASSUME Order \in Seq(Descs) /\ Daemon \in BOOLEAN

LOCAL TQ == INSTANCE TailQ

\* The loop count of fdxfer_open_send: one connect and three retries.
ConnectRetries == 3

None == "none"

\* D_CORE_READ_TYPES: the kinds fdxfer_send hands over (D_FILER here).
ReadKinds == {"filer"}

VARIABLES
    platform,   \* "linux" (inotify) or "bsd" (kqueue), fixed by the build
    ok,         \* ok[d]: whether d's open succeeds (the file exists, ...)
    residue,    \* residue[d]: the raw buffer of d's line reader at SIGHUP
    q,          \* desc_active_list
    st,         \* st[d]: "INIT", "ACTIVE", "PENDING" or "DEAD" (freed)
    ppc,        \* the parent's program counter
    oi,         \* the start-up loop's position in Order
    it,         \* the cursor of the parent's TAILQ_FOREACH
    prevd,      \* prev of desc_active_writes_drain
    tries,      \* loop of fdxfer_open_send
    toSend,     \* the read-side descriptors listed when SIGHUP arrived
    chan,       \* messages sent on the transfer socket, not yet received
    sent,       \* the descriptors fdxfer_send has sent
    cpc,        \* the child's program counter, "none" before the fork
    ppidOk,     \* the child's getppid() is the parent
    inherited,  \* inherited[d]: the buffer the child's origin inherited
    childBuf    \* childBuf[d]: the buffer the child's line reader starts with

vars == <<platform, ok, residue, q, st, ppc, oi, it, prevd, tries, toSend,
          chan, sent, cpc, ppidOk, inherited, childBuf>>

Readers == {d \in Descs : Kind[d] \in ReadKinds}

\* The start-up order of this build: no inotify descriptor on kqueue.
StartOrder == IF platform = "linux" THEN Order
              ELSE SelectSeq(Order, LAMBDA d : Kind[d] # "inotify")

Init ==
    /\ platform \in {"linux", "bsd"}
    /\ ok \in [Descs -> BOOLEAN]
    /\ residue \in {f \in [Descs -> Residues] : \A d \in Descs \ Readers : f[d] = ""}
    /\ q = TQ!TailQInit(Descs)
    /\ st = [d \in Descs |-> "INIT"]
    /\ ppc = "open" /\ oi = 1
    /\ it = Nil /\ prevd = Nil /\ tries = ConnectRetries
    /\ toSend = {} /\ chan = <<>> /\ sent = {}
    /\ cpc = "none" /\ ppidOk = FALSE
    /\ inherited = [d \in Descs |-> None]
    /\ childBuf = [d \in Descs |-> None]

-----------------------------------------------------------------------------
(* The parent.                                                              *)

\* One open_descriptor of the start-up sequence of main: the inotify
\* descriptor and the listening socket are tried once; the origin loop
\* advances only when open_descriptor returns a descriptor, so an origin
\* that comes up DEAD (open_file_w fails) is tried again and again.
\* open_file_r of a missing file leaves the reader PENDING, unlisted.
OpenNext ==
    /\ ppc = "open"
    /\ oi <= Len(StartOrder)
    /\ LET d == StartOrder[oi]
           up == ok[d]
       IN  /\ st' = [st EXCEPT ![d] = CASE up -> "ACTIVE"
                                        [] Kind[d] = "filer" -> "PENDING"
                                        [] OTHER -> "DEAD"]
           /\ q' = IF up THEN TQ!InsertTail(q, d) ELSE q
           /\ oi' = IF ~up /\ Kind[d] = "filew" THEN oi ELSE oi + 1
    /\ UNCHANGED <<platform, ok, residue, ppc, it, prevd, tries, toSend, chan,
                   sent, cpc, ppidOk, inherited, childBuf>>

\* The origins are open; main enters its event loop.
OpenDone ==
    /\ ppc = "open"
    /\ oi > Len(StartOrder)
    /\ ppc' = "run"
    /\ UNCHANGED <<platform, ok, residue, q, st, oi, it, prevd, tries, toSend,
                   chan, sent, cpc, ppidOk, inherited, childBuf>>

\* close_descriptor of an ACTIVE or PENDING descriptor: unlinked when
\* ACTIVE, then freed.
CloseDescriptor(d) ==
    /\ st' = [st EXCEPT ![d] = "DEAD"]
    /\ q' = IF st[d] = "ACTIVE" THEN TQ!TailRemove(q, d) ELSE q

\* SIGHUP: dlog_sig_restart closes the listening socket and starts
\* desc_active_writes_drain(true) at the head of the list.
SigRestart ==
    /\ ppc = "run"
    /\ LET lsn == {d \in Descs : Kind[d] = "listen" /\ st[d] = "ACTIVE"}
           q1 == IF lsn = {} THEN q ELSE TQ!TailRemove(q, CHOOSE d \in lsn : TRUE)
       IN  /\ st' = [d \in Descs |-> IF d \in lsn THEN "DEAD" ELSE st[d]]
           /\ q' = q1
           /\ it' = q1.first
    /\ toSend' = {d \in Readers : st[d] = "ACTIVE"}
    /\ prevd' = Nil
    /\ ppc' = "drain"
    /\ UNCHANGED <<platform, ok, residue, oi, tries, chan, sent, cpc, ppidOk,
                   inherited, childBuf>>

\* One iteration of desc_active_writes_drain(true): a write-side
\* descriptor is flushed (descriptor_write_direct(d, NULL)); every
\* descriptor after the first is closed and freed; the loop then reads
\* d->_lnk.tqe_next, of the freed descriptor, which TAILQ_REMOVE left as
\* it was.
DrainStep ==
    /\ ppc = "drain"
    /\ it # Nil
    /\ IF prevd # Nil THEN CloseDescriptor(it) ELSE UNCHANGED <<st, q>>
    /\ prevd' = it
    /\ it' = q.next[it]
    /\ UNCHANGED <<platform, ok, residue, ppc, oi, tries, toSend, chan, sent,
                   cpc, ppidOk, inherited, childBuf>>

\* The drain is done: evt_sys_destroy, proc_restart_with_newbinary forks
\* the child, and the parent connects when the active list is not empty.
Exec ==
    /\ ppc = "drain"
    /\ it = Nil
    /\ cpc' = "start"
    /\ ppc' = IF q.first # Nil THEN "connect" ELSE "exit"
    /\ tries' = ConnectRetries
    /\ UNCHANGED <<platform, ok, residue, q, st, oi, it, prevd, toSend, chan,
                   sent, ppidOk, inherited, childBuf>>

\* One connect() of fdxfer_open_send to the socket named after the
\* parent's pid: it succeeds when the child listens under that name;
\* otherwise the parent sleeps and retries while loop-- is non-zero, then
\* logs "Failed to open transfer channel" and shuts down.
Connect ==
    /\ ppc = "connect"
    /\ IF cpc = "accept" /\ ppidOk
       THEN /\ ppc' = "send" /\ cpc' = "recv"
            /\ it' = q.first
            /\ UNCHANGED tries
       ELSE /\ ppc' = IF tries > 0 THEN "connect" ELSE "exit"
            /\ tries' = tries - 1
            /\ UNCHANGED <<cpc, it>>
    /\ UNCHANGED <<platform, ok, residue, q, st, oi, prevd, toSend, chan, sent,
                   ppidOk, inherited, childBuf>>

\* One iteration of the TAILQ_FOREACH of dlog_sig_restart: fdxfer_send of
\* a read-side descriptor sends its symbol, its reader's raw buffer and
\* its fd.
SendStep ==
    /\ ppc = "send"
    /\ it # Nil
    /\ IF Kind[it] \in ReadKinds
       THEN /\ chan' = Append(chan, [d |-> it, buf |-> residue[it]])
            /\ sent' = sent \cup {it}
       ELSE UNCHANGED <<chan, sent>>
    /\ it' = q.next[it]
    /\ UNCHANGED <<platform, ok, residue, q, st, ppc, oi, prevd, tries, toSend,
                   cpc, ppidOk, inherited, childBuf>>

SendDone ==
    /\ ppc = "send"
    /\ it = Nil
    /\ ppc' = "exit"
    /\ UNCHANGED <<platform, ok, residue, q, st, oi, it, prevd, tries, toSend,
                   chan, sent, cpc, ppidOk, inherited, childBuf>>

\* dlog_sig_shutdown: the parent drains again, frees everything and exits,
\* which closes its end of the transfer socket.
Exit ==
    /\ ppc = "exit"
    /\ ppc' = "gone"
    /\ UNCHANGED <<platform, ok, residue, q, st, oi, it, prevd, tries, toSend,
                   chan, sent, cpc, ppidOk, inherited, childBuf>>

-----------------------------------------------------------------------------
(* The child: main of the new binary, started with -x.                     *)

\* get_opts and parse_config, then proc_daemonize unless -n: the fork
\* whose parent exits leaves the daemon with a getppid() that is not the
\* restarting parent.
ChildStart ==
    /\ cpc = "start"
    /\ ppidOk' = ~Daemon
    /\ cpc' = "bind"
    /\ UNCHANGED <<platform, ok, residue, q, st, ppc, oi, it, prevd, tries,
                   toSend, chan, sent, inherited, childBuf>>

\* fdxfer_open_recv: unlink, bind and listen on the name made from
\* getppid(), then block in accept().
ChildBind ==
    /\ cpc = "bind"
    /\ cpc' = "accept"
    /\ UNCHANGED <<platform, ok, residue, q, st, ppc, oi, it, prevd, tries,
                   toSend, chan, sent, ppidOk, inherited, childBuf>>

\* What main does with one received message: the origin whose symbol and
\* kind match inherits the buffer (and the fd, not modelled).
Deliver(inh, m) == [inh EXCEPT ![m.d] = m.buf]

\* One recvmsg of fdxfer_open_recv, the message handed to main.
ChildRecv ==
    /\ cpc = "recv"
    /\ chan # <<>>
    /\ inherited' = Deliver(inherited, Head(chan))
    /\ chan' = Tail(chan)
    /\ UNCHANGED <<platform, ok, residue, q, st, ppc, oi, it, prevd, tries,
                   toSend, sent, cpc, ppidOk, childBuf>>

\* recvmsg returns 0: the parent has closed the socket.
ChildRecvDone ==
    /\ cpc = "recv"
    /\ chan = <<>>
    /\ ppc = "gone"
    /\ cpc' = "open"
    /\ UNCHANGED <<platform, ok, residue, q, st, ppc, oi, it, prevd, tries,
                   toSend, chan, sent, ppidOk, inherited, childBuf>>

\* reader_reset_with_buffer and reader_reset of lr.c.
ReaderResetWithBuffer(b) == b
ReaderReset(b) == ""

\* open_descriptor of each origin in the child, DOPEN_NOFLAGS: a new
\* reader takes the inherited buffer, and then, without KEEP_BUFFERS, is
\* reset.
ChildOpen ==
    /\ cpc = "open"
    /\ childBuf' = [d \in Descs |->
                      IF d \notin Readers THEN None
                      ELSE IF inherited[d] # None
                           THEN ReaderReset(ReaderResetWithBuffer(inherited[d]))
                           ELSE ReaderReset("")]
    /\ cpc' = "running"
    /\ UNCHANGED <<platform, ok, residue, q, st, ppc, oi, it, prevd, tries,
                   toSend, chan, sent, ppidOk, inherited>>

Parent == OpenNext \/ OpenDone \/ DrainStep \/ Exec \/ Connect \/ SendStep
          \/ SendDone \/ Exit
Child == ChildStart \/ ChildBind \/ ChildRecv \/ ChildRecvDone \/ ChildOpen

Next == Parent \/ Child \/ SigRestart

\* Both processes run; SIGHUP is sent by the operator and may never come.
Spec == Init /\ [][Next]_vars /\ WF_vars(Parent) /\ WF_vars(Child)

-----------------------------------------------------------------------------
States == {"INIT", "ACTIVE", "PENDING", "DEAD"}

TypeOK ==
    /\ platform \in {"linux", "bsd"}
    /\ st \in [Descs -> States]
    /\ ppc \in {"open", "run", "drain", "connect", "send", "exit", "gone"}
    /\ cpc \in {"none", "start", "bind", "accept", "recv", "open", "running"}
    /\ it \in Descs \cup {Nil} /\ prevd \in Descs \cup {Nil}
    /\ tries \in -1 .. ConnectRetries
    /\ toSend \subseteq Readers /\ sent \subseteq Readers
    /\ inherited \in [Descs -> Residues \cup {None}]
    /\ childBuf \in [Descs -> Residues \cup {None}]

\* Spec.md 4.i step 4 and the active list's "hand-off-all": once the
\* parent has connected and finished sending, every read-side descriptor
\* that was on the active list when SIGHUP arrived has been sent (the
\* drain of step 1 only flushes write queues).
HandoffSendsAllReaders ==
    (ppc \in {"exit", "gone"} /\ cpc \in {"recv", "open", "running"})
        => sent = toSend

\* Spec.md 4.i, last paragraph: the child's line reader of an origin that
\* inherited a residual buffer starts from that buffer (reader of
\* open_descriptor in the child).
ResidueKept ==
    cpc = "running" =>
        \A d \in Readers : inherited[d] # None => childBuf[d] = inherited[d]

\* Spec.md 4.i: a restart ends with the new binary running; once SIGHUP
\* is handled the child gets past fdxfer_open_recv and opens its origins.
RestartCompletes == (ppc = "drain") ~> (cpc = "running")

\* main's start-up finishes: every origin is tried and the event loop is
\* entered, whether or not an origin could be opened.
StartupCompletes == <>(ppc # "open")

=============================================================================
