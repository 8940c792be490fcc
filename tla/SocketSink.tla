------------------------------ MODULE SocketSink ------------------------------
(***************************************************************************)
(* An outbound TCP sink (D_SOCKETW) of src/coredesc.c and src/dlog.c:      *)
(* open_skt_w's non-blocking connect, the one-shot write-readiness event   *)
(* main_loop handles for a PENDING sink, descriptor_write_direct, and      *)
(* _sktw_post_line_write, which resets the descriptor and reopens it with  *)
(* its write queue kept.  The sink S is opened after a file sink F, so the *)
(* active list holds F and, when it is linked, S.                          *)
(*                                                                         *)
(* The kernel's side of the socket is conn:                                *)
(*   "connecting" -- connect() returned EINPROGRESS;                       *)
(*   "connected"  -- established;                                          *)
(*   "fin"        -- the server closed it; a write is still accepted, and  *)
(*                   the server answers it with RST;                       *)
(*   "reset"      -- RST received (ECONNRESET pending);                    *)
(*   "failed"     -- the connect was refused (ECONNREFUSED pending);       *)
(*   "dead"       -- the pending error was consumed: writes get EPIPE;     *)
(*   "closed"     -- d->fd is closed.                                      *)
(* The addrinfo list is taken to hold one address (AF_INET, one host).     *)
(***************************************************************************)
EXTENDS Integers, Sequences

CONSTANTS
    F, S,       \* the file sink and the socket sink, model values
    HWM,        \* DLOG_WRITE_HIGH_WM
    MaxFlips,   \* bound on the server's stops and starts
    Nil

ASSUME HWM \in Nat \ {0} /\ MaxFlips \in Nat

LOCAL TQ == INSTANCE TailQ

Platforms == {"linux", "bsd"}

VARIABLES
    platform,   \* the build: epoll or kqueue
    listening,  \* the server accepts connections
    conn,       \* the kernel state of S's socket (see above)
    st,         \* S->state
    armed,      \* S's one-shot write event is registered and not yet reported
    q,          \* desc_active_list
    wq,         \* the lines in S's write queue
    crashed,    \* the daemon wrote through a NULL pointer
    flips       \* the server's stops and starts so far

vars == <<platform, listening, conn, st, armed, q, wq, crashed, flips>>

\* What connect() can return for the server as it is: immediate success only
\* when it listens, immediate refusal (a local server on FreeBSD) only when
\* it does not, and EINPROGRESS either way.
ConnectOutcomes(l) == IF l THEN {"ok", "inprogress"} ELSE {"refused", "inprogress"}

\* open_skt_w with S in state stIn.  A refused connect closes the socket and
\* the loop ends with p == NULL; getsockopt(SO_ERROR) is then asked about
\* the closed d->fd, fails with EBADF, and neither state is set: S keeps
\* stIn.  EINPROGRESS registers the one-shot write event (evt_reg_write).
OpenSktW(stIn, how) ==
    CASE how = "ok"         -> [st |-> "ACTIVE", conn |-> "connected", armed |-> FALSE]
      [] how = "inprogress" -> [st |-> "PENDING", conn |-> "connecting", armed |-> TRUE]
      [] how = "refused"    -> [st |-> stIn, conn |-> "closed", armed |-> FALSE]

\* The tail of open_descriptor after the open: an ACTIVE descriptor is
\* appended to the active list (a write side has no on_activate).
ListAfterOpen(qIn, stOut) == IF stOut = "ACTIVE" THEN TQ!InsertTail(qIn, S) ELSE qIn

\* reset_descriptor: close(d->fd) (which also drops its event
\* registration), TAILQ_REMOVE if ACTIVE, state INIT.
ResetDescriptor ==
    [q |-> IF st = "ACTIVE" THEN TQ!TailRemove(q, S) ELSE q,
     crashed |-> st = "ACTIVE" /\ TQ!NullUnlink(q, S)]

\* reset_descriptor, then open_descriptor(origin, d, NULL, DOPEN_KEEP_BUFFERS):
\* the queue is kept and open_skt_w connects again.
ResetAndReopen(how) ==
    LET r == ResetDescriptor
        o == OpenSktW("INIT", how)
    IN  /\ st' = o.st /\ conn' = o.conn /\ armed' = o.armed
        /\ q' = ListAfterOpen(r.q, o.st)
        /\ crashed' = r.crashed

\* main's open of the origins: F first, then open_descriptor on S, whose
\* queue wq_destroy leaves empty.
Init ==
    /\ platform \in Platforms
    /\ listening \in BOOLEAN
    /\ \E how \in ConnectOutcomes(listening) :
          LET o == OpenSktW("INIT", how)
          IN  /\ st = o.st /\ conn = o.conn /\ armed = o.armed
              /\ q = ListAfterOpen(TQ!InsertAll(TQ!TailQInit({F, S}), <<F>>), o.st)
    /\ wq = 0 /\ crashed = FALSE /\ flips = 0

\* wq_write of the queued lines on S's socket: the lines written (-1 for
\* none), the errno it reports (none for EAGAIN), and the socket after.  A connecting socket gives
\* EAGAIN on Linux; on BSD it may give ENOTCONN instead.
WqWrite(c, lines) ==
    CASE c \in {"connected", "fin"} -> {[n |-> lines, err |-> "none",
                                         conn |-> IF c = "fin" THEN "reset" ELSE c]}
      [] c = "connecting" -> {[n |-> -1, err |-> "none", conn |-> c]} \cup
                             (IF platform = "bsd"
                              THEN {[n |-> -1, err |-> "ENOTCONN", conn |-> c]} ELSE {})
      [] c = "failed" -> {[n |-> -1, err |-> "ECONNREFUSED", conn |-> "dead"]}
      [] c = "reset"  -> {[n |-> -1, err |-> "ECONNRESET", conn |-> "dead"]}
      [] c = "dead"   -> {[n |-> -1, err |-> "EPIPE", conn |-> "dead"]}
      [] c = "closed" -> {[n |-> -1, err |-> "EBADF", conn |-> "closed"]}

\* descriptor_write_direct(S, line): wq_add_line (ignored at the
\* watermark); a sink neither PENDING nor ACTIVE keeps the line queued and
\* writes nothing; otherwise wq_write, and post_line_write when it reported
\* an error or wrote: _sktw_post_line_write resets and reopens S when it is
\* PENDING or the error is EPIPE.
Write ==
    /\ ~crashed
    /\ LET queued == IF wq < HWM THEN wq + 1 ELSE wq
       IN  IF st \notin {"PENDING", "ACTIVE"}
           THEN /\ wq' = queued
                /\ UNCHANGED <<conn, st, armed, q, crashed>>
           ELSE \E w \in WqWrite(conn, queued) :
                  /\ wq' = IF w.n >= 0 THEN 0 ELSE queued
                  /\ IF (w.err # "none" \/ w.n >= 0) /\ (st = "PENDING" \/ w.err = "EPIPE")
                     THEN \E how \in ConnectOutcomes(listening) : ResetAndReopen(how)
                     ELSE /\ conn' = w.conn
                          /\ UNCHANGED <<st, armed, q, crashed>>
    /\ UNCHANGED <<platform, listening, flips>>

\* The kernel finishes the handshake S's connect started.
Handshake ==
    /\ conn = "connecting"
    /\ conn' = IF listening THEN "connected" ELSE "failed"
    /\ UNCHANGED <<platform, listening, st, armed, q, wq, crashed, flips>>

\* main_loop receives S's one-shot write event once the connect resolved.
\* epoll reports a refused or reset socket with EPOLLERR, which the loop
\* skips ("Error in event structure").  kqueue reports EV_EOF for a closed
\* or failed socket: getsockopt(SO_ERROR) consumes the error and, for
\* ECONNREFUSED, resets S and sets it PENDING without reopening it.
\* Otherwise a PENDING S becomes ACTIVE.
WriteEvent ==
    /\ ~crashed
    /\ armed
    /\ conn \in {"connected", "fin", "reset", "failed"}
    /\ armed' = FALSE
    /\ LET eof == conn \in {"fin", "reset", "failed"}
       IN  CASE platform = "linux" /\ conn \in {"reset", "failed"} ->
                  UNCHANGED <<conn, st, q, crashed>>
             [] platform = "bsd" /\ eof /\ st = "PENDING" ->
                  IF conn = "failed"
                  THEN LET r == ResetDescriptor
                       IN  /\ st' = "PENDING" /\ conn' = "closed"
                           /\ q' = r.q /\ crashed' = r.crashed
                  ELSE /\ conn' = IF conn = "reset" THEN "dead" ELSE conn
                       /\ UNCHANGED <<st, q, crashed>>
             [] st = "PENDING" ->
                  /\ st' = "ACTIVE"
                  /\ UNCHANGED <<conn, q, crashed>>
             [] OTHER -> UNCHANGED <<conn, st, q, crashed>>
    /\ UNCHANGED <<platform, listening, wq, flips>>

\* The server stops (an established connection gets its FIN) or starts.
ServerStop ==
    /\ listening /\ flips < MaxFlips
    /\ listening' = FALSE /\ flips' = flips + 1
    /\ conn' = IF conn = "connected" THEN "fin" ELSE conn
    /\ UNCHANGED <<platform, st, armed, q, wq, crashed>>

ServerStart ==
    /\ ~listening /\ flips < MaxFlips
    /\ listening' = TRUE /\ flips' = flips + 1
    /\ UNCHANGED <<platform, conn, st, armed, q, wq, crashed>>

Next == Write \/ Handshake \/ WriteEvent \/ ServerStop \/ ServerStart

Spec == Init /\ [][Next]_vars

\* The loop and the kernel run whenever they can, and, as the scenario of
\* SinkConnects, the rules keep routing lines to S.
LiveSpec == Spec /\ WF_vars(Handshake) /\ WF_vars(WriteEvent) /\ WF_vars(Write)

-----------------------------------------------------------------------------
TypeOK ==
    /\ platform \in Platforms /\ listening \in BOOLEAN
    /\ conn \in {"connecting", "connected", "fin", "reset", "failed", "dead", "closed"}
    /\ st \in {"INIT", "PENDING", "ACTIVE"} /\ armed \in BOOLEAN
    /\ wq \in 0 .. HWM /\ crashed \in BOOLEAN /\ flips \in 0 .. MaxFlips

\* Spec.md section 3 ("ACTIVE (ready)") and the list dlog_sig_restart and
\* desc_active_writes_drain walk: a socket sink that is ACTIVE is on the
\* active list, whichever way its connect completed.
ActiveIsListed == st = "ACTIVE" => \E i \in 1 .. Len(TQ!Listed(q, 2)) : TQ!Listed(q, 2)[i] = S

\* Resetting the socket sink after a write error (coredesc.c:427) never
\* makes TAILQ_REMOVE write through the NULL tqe_prev of an unlinked
\* descriptor.
NoNullUnlink == ~crashed

\* Spec.md 4.c, socket-write: "ECONNREFUSED -> PENDING (will retry)": a
\* sink whose connect was refused does not stay in INIT while lines keep
\* coming for it.
RefusedSinkRetried == [](st = "INIT" => <>(st # "INIT"))

\* Spec.md 3 and 9 ("connect refused: promote to PENDING ... retry"): once
\* the server listens for good and lines keep coming, the sink connects.
SinkConnects == <>[]listening => <>(st = "ACTIVE")

=============================================================================
