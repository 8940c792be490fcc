----------------------------- MODULE Connections -----------------------------
(***************************************************************************)
(* Accepted TCP client connections (D_SOCKETR descriptors) and the         *)
(* pending-reads table: the listening socket's accept loop                 *)
(* (_socket_listen_pre_read), open_socket_read, main_loop's dispatch of    *)
(* read readiness and peer EOF, descriptor_read, close_descriptor, and     *)
(* idle_loop's ht_visit of pending_reads_table.                            *)
(*                                                                         *)
(* Bytes are counted, not named.  The readiness backend is fixed at the  *)
(* start (one of the constant set Backends), so one run covers both: with *)
(* epoll (EPOLLIN | EPOLLET, no EPOLLRDHUP requested) a peer's FIN is *)
(* reported as plain EPOLLIN and an RST as EPOLLIN|EPOLLHUP|EPOLLERR; with *)
(* kqueue (EVFILT_READ, EV_CLEAR) both carry EV_EOF.                        *)
(***************************************************************************)
EXTENDS Naturals, Sequences, SequencesExt, HashTable

CONSTANTS
    Clients,      \* client connections (model values)
    FdPool,       \* fd numbers accept() can return, lowest first
    NumBuckets,   \* buckets of pending_reads_table (17)
    MaxData,      \* bound on the bytes one client sends
    Chunk,        \* DLOG_READ_MAX_CHUNK, in the same units
    Backends,     \* the backends the build may use: "epoll", "kqueue"
    Resets        \* whether a client may reset its connection

ASSUME
    /\ FdPool \subseteq Nat \ {0}
    /\ NumBuckets \in Nat \ {0}
    /\ MaxData \in Nat /\ Chunk \in Nat \ {0}
    /\ Backends \subseteq {"epoll", "kqueue"} /\ Backends # {}
    /\ Resets \in BOOLEAN

VARIABLES
    sock,         \* kernel side of each connection: st, unread bytes u, sent
    backlog,      \* connections queued on the listening socket, in order
    d,            \* each client's descriptor: state and fd
    active,       \* desc_active_list, restricted to client descriptors
    table,        \* pending_reads_table
    ready,        \* readiness queued by the kernel, not yet returned
    batch,        \* events returned by the current EVT_LOOP, not yet handled
    phase,        \* "wait" (EVT_LOOP), "events", "accept", "idle"
    cursor,       \* ht_visit: bucket and address of the current element
    uaf,          \* ht_visit went on to an element ht_remove had freed
    backend       \* the event backend compiled in (evt.h)

vars == <<sock, backlog, d, active, table, ready, batch, phase, cursor, uaf,
          backend>>

Listen == "listen"
DStates == {"NONE", "ACTIVE", "DRAIN", "FREED"}
Flags == [eof : BOOLEAN, err : BOOLEAN]

(* How the backend reports new data, a FIN and an RST (src/evt.h).        *)
DataFlags == [eof |-> FALSE, err |-> FALSE]
FinFlags  == [eof |-> backend = "kqueue", err |-> FALSE]
RstFlags  == [eof |-> TRUE, err |-> backend = "epoll"]

(* Queue readiness of w; a source already queued has its flags or'ed in.  *)
AddReady(r, w, f) ==
    LET i == SelectInSeq(r, LAMBDA e : e.who = w)
    IN  IF i = 0 THEN Append(r, [who |-> w, eof |-> f.eof, err |-> f.err])
        ELSE [r EXCEPT ![i].eof = @ \/ f.eof, ![i].err = @ \/ f.err]

(* The state the daemon-side structures are in, as one record.            *)
World == [sock |-> sock, d |-> d, active |-> active, table |-> table,
          ready |-> ready]

SetWorld(w) ==
    /\ sock' = w.sock /\ d' = w.d /\ active' = w.active
    /\ table' = w.table /\ ready' = w.ready

Registered(w, c) == w.d[c].state = "ACTIVE"

FreeFds(w) == FdPool \ {w.d[c].fd : c \in {x \in Clients : w.d[x].state \in {"ACTIVE", "DRAIN"}}}

-----------------------------------------------------------------------------
(* close_descriptor for a SOCKETR: deregister, close the fd, unlink from  *)
(* the active list only when ACTIVE, mark DEAD and free the descriptor.   *)
CloseDescriptor(w, c) ==
    [w EXCEPT !.d[c].state = "FREED",
              !.active = IF w.d[c].state = "ACTIVE" THEN Remove(@, c) ELSE @,
              !.ready = SelectSeq(@, LAMBDA e : e.who # c)]

(* Mutant of DescriptorRead: a read stopped at the chunk cap is not put   *)
(* in pending reads.                                                       *)
DescriptorReadNoRequeue(w, c) ==
    LET s == w.sock[c]
        capped == s.u >= Chunk
        r == IF capped THEN "data"
             ELSE CASE s.st \in {"fin", "reset_read"} -> "eof"
                    [] s.st = "reset" -> "error"
                    [] OTHER -> "again"
        w2 == [w EXCEPT !.sock[c].u = IF capped THEN @ - Chunk ELSE 0,
                        !.sock[c].st = IF r = "error" THEN "reset_read" ELSE @,
                        !.table = IF r = "eof"
                                  THEN HtRemove(@, NumBuckets, w.d[c].fd)
                                  ELSE @]
    IN  IF r = "eof" /\ w.d[c].state = "DRAIN" THEN CloseDescriptor(w2, c) ELSE w2

(* Mutant of DescriptorRead: EOF does not remove d from pending reads.     *)
DescriptorReadKeepsPending(w, c) ==
    LET s == w.sock[c]
        capped == s.u >= Chunk
        r == IF capped THEN "data"
             ELSE CASE s.st \in {"fin", "reset_read"} -> "eof"
                    [] s.st = "reset" -> "error"
                    [] OTHER -> "again"
        w2 == [w EXCEPT !.sock[c].u = IF capped THEN @ - Chunk ELSE 0,
                        !.sock[c].st = IF r = "error" THEN "reset_read" ELSE @,
                        !.table = IF capped
                                  THEN HtUpsert(@, NumBuckets, w.d[c].fd, c)
                                  ELSE @]
    IN  IF r = "eof" /\ w.d[c].state = "DRAIN" THEN CloseDescriptor(w2, c) ELSE w2

(* descriptor_read: read() until EAGAIN, EOF, an error or the chunk cap.  *)
(* At the cap d goes into pending reads; at EOF (read() = 0) it leaves    *)
(* pending reads and, if DRAIN, is closed.  An RST's error is returned    *)
(* once, after the unread bytes; later reads return 0.                     *)
DescriptorRead(w, c) ==
    LET s == w.sock[c]
        capped == s.u >= Chunk
        r == IF capped THEN "data"
             ELSE CASE s.st \in {"fin", "reset_read"} -> "eof"
                    [] s.st = "reset" -> "error"
                    [] OTHER -> "again"
        w2 == [w EXCEPT !.sock[c].u = IF capped THEN @ - Chunk ELSE 0,
                        !.sock[c].st = IF r = "error" THEN "reset_read" ELSE @,
                        !.table = IF capped
                                  THEN HtUpsert(@, NumBuckets, w.d[c].fd, c)
                                  ELSE IF r = "eof"
                                  THEN HtRemove(@, NumBuckets, w.d[c].fd)
                                  ELSE @]
    IN  IF r = "eof" /\ w.d[c].state = "DRAIN" THEN CloseDescriptor(w2, c) ELSE w2

(* Mutant of OpenSocketRead: origin->inherited.fd is cleared before it is *)
(* copied into d->fd.                                                      *)
OpenSocketReadSwapped(w, c, fd) ==
    [w EXCEPT !.d[c] = [state |-> "ACTIVE", fd |-> 0], !.active = Append(@, c)]

(* open_descriptor(&socket_read_origin, NULL, NULL, 0) for an accepted fd: *)
(* open_socket_read registers the fd (readiness already there is          *)
(* reported at once), state ACTIVE, linked at the tail of the active list.*)
OpenSocketRead(w, c, fd) ==
    LET s == w.sock[c]
        f == CASE s.st = "fin" -> FinFlags
               [] s.st = "reset" -> RstFlags
               [] OTHER -> DataFlags
    IN  [w EXCEPT !.d[c] = [state |-> "ACTIVE", fd |-> fd],
                  !.active = Append(@, c),
                  !.ready = IF s.u > 0 \/ s.st # "open" THEN AddReady(@, c, f)
                            ELSE @]

(* Mutant of HandleRead: peer EOF is handled as plain readiness.          *)
HandleReadNoDrain(w, e) == DescriptorRead(w, e.who)

(* main_loop on a client's read event: on EOF the descriptor goes DRAIN,   *)
(* into pending reads and out of the event set; then descriptor_read.     *)
HandleRead(w, e) ==
    LET c == e.who
        w2 == IF e.eof
              THEN [w EXCEPT !.d[c].state = "DRAIN",
                             !.table = HtUpsert(@, NumBuckets, w.d[c].fd, c),
                             !.ready = SelectSeq(@, LAMBDA x : x.who # c)]
              ELSE w
    IN  DescriptorRead(w2, c)
-----------------------------------------------------------------------------
Init ==
    /\ sock = [c \in Clients |-> [st |-> "none", u |-> 0, sent |-> 0]]
    /\ backlog = <<>>
    /\ d = [c \in Clients |-> [state |-> "NONE", fd |-> 0]]
    /\ active = <<>>
    /\ table = EmptyTable(NumBuckets, FdPool)
    /\ ready = <<>>
    /\ batch = <<>>
    /\ phase = "wait"
    /\ cursor = [b |-> 0, el |-> HeadAddr]
    /\ uaf = FALSE
    /\ backend \in Backends

daemonVars == <<d, active, table, batch, phase, cursor, uaf>>

(* A client connects: the kernel queues it on the listening socket.       *)
Connect(c) ==
    /\ sock[c].st = "none"
    /\ sock' = [sock EXCEPT ![c].st = "open"]
    /\ backlog' = Append(backlog, c)
    /\ ready' = AddReady(ready, Listen, DataFlags)
    /\ UNCHANGED daemonVars

(* A client sends a byte.                                                  *)
Send(c) ==
    /\ sock[c].st = "open" /\ sock[c].sent < MaxData
    /\ sock' = [sock EXCEPT ![c].u = @ + 1, ![c].sent = @ + 1]
    /\ ready' = IF Registered(World, c) THEN AddReady(ready, c, DataFlags) ELSE ready
    /\ UNCHANGED <<backlog>> /\ UNCHANGED daemonVars

(* A client closes (FIN) or resets (RST) its connection.                   *)
Hangup(c, how) ==
    /\ sock[c].st = "open"
    /\ how = "reset" => Resets
    /\ sock' = [sock EXCEPT ![c].st = how]
    /\ ready' = IF Registered(World, c)
                THEN AddReady(ready, c, IF how = "fin" THEN FinFlags ELSE RstFlags)
                ELSE ready
    /\ UNCHANGED <<backlog>> /\ UNCHANGED daemonVars

(* EVT_LOOP returns the queued readiness.                                  *)
Wakeup ==
    /\ phase = "wait" /\ ready # <<>>
    /\ batch' = ready /\ ready' = <<>> /\ phase' = "events"
    /\ UNCHANGED <<sock, backlog, d, active, table, cursor, uaf>>

(* The next event of the batch: an error event is skipped                 *)
(* (EVT_IS_ERROR), the listening socket's runs the accept loop, a         *)
(* client's is handled by HandleRead.                                      *)
HandleEvent ==
    /\ phase = "events" /\ batch # <<>>
    /\ LET e == Head(batch) IN
       /\ batch' = Tail(batch)
       /\ \/ /\ e.err
             /\ phase' = IF Tail(batch) = <<>> THEN "wait" ELSE "events"
             /\ UNCHANGED <<sock, d, active, table, ready>>
          \/ /\ ~e.err /\ e.who = Listen
             /\ phase' = "accept"
             /\ UNCHANGED <<sock, d, active, table, ready>>
          \/ /\ ~e.err /\ e.who \in Clients
             /\ SetWorld(HandleRead(World, e))
             /\ phase' = IF Tail(batch) = <<>> THEN "wait" ELSE "events"
    /\ UNCHANGED <<backlog, cursor, uaf>>

(* One round of the accept loop: accept() the next queued connection on   *)
(* the lowest free fd and open its descriptor; with no connection queued  *)
(* (EWOULDBLOCK) or no fd left (EMFILE) the loop breaks.                   *)
Accept ==
    /\ phase = "accept"
    /\ IF backlog # <<>> /\ FreeFds(World) # {}
       THEN /\ SetWorld(OpenSocketRead(World, Head(backlog), Min(FreeFds(World))))
            /\ backlog' = Tail(backlog)
            /\ UNCHANGED phase
       ELSE /\ phase' = IF batch = <<>> THEN "wait" ELSE "events"
            /\ UNCHANGED <<sock, backlog, d, active, table, ready>>
    /\ UNCHANGED <<batch, cursor, uaf>>

(* EVT_LOOP times out: idle_loop starts ht_visit at the first bucket      *)
(* whose embedded element holds a value.                                   *)
Timeout ==
    /\ phase = "wait" /\ ready = <<>>
    /\ \E b \in DOMAIN table : table[b] # <<>>
    /\ phase' = "idle"
    /\ cursor' = [b |-> Min({b \in DOMAIN table : table[b] # <<>>}), el |-> HeadAddr]
    /\ UNCHANGED <<sock, backlog, d, active, table, ready, batch, uaf>>

(* One iteration of ht_visit: save el->next, call _read_pending (which    *)
(* reads d if ACTIVE or DRAIN), then go on to the saved element, or to    *)
(* the next bucket with a value.  If the visit freed the saved element     *)
(* the iteration would go on inside freed memory: uaf is set and the visit *)
(* ends, the rest being undefined.                                         *)
IdleStep ==
    /\ phase = "idle"
    /\ LET ch == table[cursor.b]
           e == ch[PosOf(ch, cursor.el)]
           more == HasNext(ch, cursor.el)
           nxt == NextAddr(ch, cursor.el)
           w == IF d[e.val].state \in {"ACTIVE", "DRAIN"}
                THEN DescriptorRead(World, e.val) ELSE World
           later == {b \in DOMAIN w.table : b > cursor.b /\ w.table[b] # <<>>}
       IN  /\ SetWorld(w)
           /\ IF more
              THEN IF nxt \in Addrs(w.table[cursor.b])
                   THEN cursor' = [cursor EXCEPT !.el = nxt] /\ UNCHANGED <<phase, uaf>>
                   ELSE uaf' = TRUE /\ phase' = "wait" /\ UNCHANGED cursor
              ELSE IF later = {}
                   THEN phase' = "wait" /\ UNCHANGED <<cursor, uaf>>
                   ELSE cursor' = [b |-> Min(later), el |-> HeadAddr] /\ UNCHANGED <<phase, uaf>>
    /\ UNCHANGED <<backlog, batch>>

(* EVT_LOOP times out with nothing pending.                                *)
Idle ==
    /\ phase = "wait" /\ ready = <<>>
    /\ \A b \in DOMAIN table : table[b] = <<>>
    /\ UNCHANGED vars

(* The daemon thread's steps; at most one phase's step is possible at a   *)
(* time.                                                                   *)
Daemon ==
    /\ Wakeup \/ HandleEvent \/ Accept \/ Timeout \/ IdleStep
    /\ UNCHANGED backend

Next ==
    \/ /\ \E c \in Clients :
             Connect(c) \/ Send(c) \/ \E how \in {"fin", "reset"} : Hangup(c, how)
       /\ UNCHANGED backend
    \/ Daemon \/ Idle

(* The daemon is one thread; EVT_LOOP returns when readiness is queued and *)
(* times out after DLOG_EVENTLOOP_TIMEOUT otherwise.  Clients are not      *)
(* obliged to do anything.                                                 *)
Spec == Init /\ [][Next]_vars /\ WF_vars(Daemon)

-----------------------------------------------------------------------------
TypeOK ==
    /\ sock \in [Clients -> [st : {"none", "open", "fin", "reset", "reset_read"},
                             u : 0..MaxData, sent : 0..MaxData]]
    /\ backlog \in Seq(Clients)
    /\ d \in [Clients -> [state : DStates, fd : FdPool \cup {0}]]
    /\ \A c \in Clients : d[c].state \in {"ACTIVE", "DRAIN"} => d[c].fd \in FdPool
    /\ active \in Seq(Clients)
    /\ ready \in Seq([who : Clients \cup {Listen}, eof : BOOLEAN, err : BOOLEAN])
    /\ batch \in Seq([who : Clients \cup {Listen}, eof : BOOLEAN, err : BOOLEAN])
    /\ phase \in {"wait", "events", "accept", "idle"}
    /\ uaf \in BOOLEAN
    /\ backend \in Backends

(* The pending-reads table only holds live descriptors under the fd they  *)
(* read: descriptor_read takes d out of the table at EOF before           *)
(* close_descriptor frees it, and every upsert uses d's current fd, so    *)
(* idle_loop never reads through a freed descriptor or a reused fd.       *)
PendingHoldsLive ==
    \A p \in HtPairs(table) :
        d[p[2]].state \in {"ACTIVE", "DRAIN"} /\ d[p[2]].fd = p[1]

(* spec.md 5 (close_descriptor "removes from every auxiliary table") and   *)
(* section 8: no descriptor on the active list has been closed and freed. *)
NoFreedListed ==
    \A c \in Clients : d[c].state = "FREED" => c \notin ToSet(active)

(* ht_visit only follows pointers to elements of the table: a visitor     *)
(* that removes the element being visited must not leave the iteration    *)
(* holding the address of a freed one.                                     *)
VisitsLiveElements == ~uaf

(* spec.md 5, "ACTIVE -> DRAIN on peer EOF; still drained by idle loop     *)
(* until reader yields no more lines, then closed": a connection the peer  *)
(* closed or reset is eventually closed and its descriptor released (both *)
(* conditions are stable, so this is the leads-to of the spec).            *)
PeerCloseReleased ==
    \A c \in Clients :
        <>[](sock[c].st \in {"fin", "reset", "reset_read"} => d[c].state = "FREED")

(* The same with kqueue, whose EV_EOF reports both a FIN and an RST: on   *)
(* this backend main_loop's EOF branch takes every peer-closed connection *)
(* through DRAIN to close_descriptor.                                      *)
KqueuePeerCloseReleased == backend = "kqueue" => PeerCloseReleased

(* Bytes a client sends on a connection it does not reset are all read in *)
(* the end: edge-triggered readiness reports each arrival once, so a read *)
(* stopped at the chunk cap must be finished from pending reads.          *)
DataEventuallyRead ==
    \A c \in Clients :
        <>[](sock[c].st \in {"open", "fin"} /\ d[c].state # "NONE" => sock[c].u = 0)

(* Every connection queued on the listening socket is eventually accepted  *)
(* (a queued connection leaves the backlog only by accept()).             *)
AcceptEventually ==
    \A c \in Clients : <>[](c \in ToSet(backlog) => d[c].state # "NONE")

=============================================================================
