------------------------------ MODULE Signals ------------------------------
(***************************************************************************)
(* Signal intake of src/proc.c and src/dlog.c: the handler _sig_handler    *)
(* that publishes a signal through its sig->flag and                       *)
(* dlogenv->sig_delivered, and process_signals, which main_loop calls at   *)
(* the top of every iteration and which walks the signals[] table,         *)
(* dispatches every set flag and clears it, then clears sig_delivered.     *)
(*                                                                         *)
(* The handler runs asynchronously between any two steps of the main      *)
(* loop (sigaction without SA_RESTART, empty sa_mask).  Dispatching        *)
(* RESTART or SHUTDOWN ends the process (dlog_sig_shutdown blocks all      *)
(* signals and calls exit); dispatching ROTLOG_ROT runs dlog_sig_rotlog,   *)
(* a walk of the active list that renames and reopens files, during which *)
(* further signals may arrive.  What the loop does between two calls of   *)
(* process_signals (events, idle work) is left out: EVT_LOOP returns on   *)
(* its fixed timeout, on readiness or with EINTR.                          *)
(***************************************************************************)
EXTENDS Naturals, Sequences

CONSTANTS
    MaxSignals    \* bound on the signals sent to the daemon

ASSUME MaxSignals \in Nat \ {0}

(* The signals[] table in its order: SIGHUP, SIGUSR1, SIGQUIT.            *)
SigTable == <<"RESTART", "ROTLOG_ROT", "SHUTDOWN">>
Sigs == {SigTable[k] : k \in DOMAIN SigTable}

VARIABLES
    flag,         \* sig->flag of every entry of signals[]
    delivered,    \* dlogenv->sig_delivered
    pc,           \* where the main loop is
    idx,          \* the entry process_signals' walk is at
    sent          \* signals sent so far

vars == <<flag, delivered, pc, idx, sent>>

Locations == {"loop", "walk", "rotlog", "wait", "exited"}

TypeOK ==
    /\ flag \in [Sigs -> {0, 1}]
    /\ delivered \in {0, 1}
    /\ pc \in Locations
    /\ idx \in 1..Len(SigTable) + 1
    /\ sent \in 0..MaxSignals

(* After sig_init: handlers installed, every flag clear, and main_loop    *)
(* about to call process_signals.                                         *)
Init ==
    /\ flag = [s \in Sigs |-> 0]
    /\ delivered = 0
    /\ pc = "loop"
    /\ idx = 1
    /\ sent = 0

-----------------------------------------------------------------------------
(* _sig_handler: find the entry of signo, set its flag, then              *)
(* sig_delivered.  Once dlog_sig_shutdown has run every signal is blocked. *)
SigHandler(s) ==
    /\ pc # "exited"
    /\ sent < MaxSignals
    /\ flag' = [flag EXCEPT ![s] = 1]
    /\ delivered' = 1
    /\ sent' = sent + 1
    /\ UNCHANGED <<pc, idx>>

(* process_signals entry: nothing to do unless sig_delivered is set;      *)
(* otherwise main_loop goes on to EVT_LOOP.                                *)
ProcessSignals ==
    /\ pc = "loop"
    /\ pc' = IF delivered = 1 THEN "walk" ELSE "wait"
    /\ idx' = 1
    /\ UNCHANGED <<flag, delivered, sent>>

(* One entry of the walk.  A clear flag moves on; RESTART and SHUTDOWN end *)
(* the process; ROTLOG_ROT starts dlog_sig_rotlog.                         *)
WalkEntry ==
    /\ pc = "walk"
    /\ idx <= Len(SigTable)
    /\ LET s == SigTable[idx]
       IN  CASE flag[s] = 0 -> pc' = "walk" /\ idx' = idx + 1
             [] s = "ROTLOG_ROT" -> pc' = "rotlog" /\ idx' = idx
             [] OTHER -> pc' = "exited" /\ idx' = idx
    /\ UNCHANGED <<flag, delivered, sent>>

(* dlog_sig_rotlog has rotated every rotlog of the active list; the walk  *)
(* then clears the entry's flag (sig->flag = false) and moves on.          *)
RotlogDone ==
    /\ pc = "rotlog"
    /\ flag' = [flag EXCEPT ![SigTable[idx]] = 0]
    /\ pc' = "walk"
    /\ idx' = idx + 1
    /\ UNCHANGED <<delivered, sent>>

(* End of the walk: sig_delivered = 0, and main_loop calls EVT_LOOP.       *)
WalkEnd ==
    /\ pc = "walk"
    /\ idx = Len(SigTable) + 1
    /\ delivered' = 0
    /\ pc' = "wait"
    /\ UNCHANGED <<flag, idx, sent>>

(* EVT_LOOP returns (timeout, readiness, or -1 with EINTR and continue),  *)
(* and the next iteration of main_loop begins.                             *)
EvtLoopReturn ==
    /\ pc = "wait"
    /\ pc' = "loop"
    /\ UNCHANGED <<flag, delivered, idx, sent>>

(* The process has exited: nothing changes any more.                      *)
Exited ==
    /\ pc = "exited"
    /\ UNCHANGED vars

MainLoop == ProcessSignals \/ WalkEntry \/ RotlogDone \/ WalkEnd \/ EvtLoopReturn

Next == MainLoop \/ Exited \/ \E s \in Sigs : SigHandler(s)

(* The main loop is the daemon's only thread and EVT_LOOP has a fixed     *)
(* timeout, so it always takes its next step; signals come from outside   *)
(* and are not assumed.                                                    *)
Spec == Init /\ [][Next]_vars /\ WF_vars(MainLoop)

-----------------------------------------------------------------------------
(* spec.md 4.j and 5: the handlers set flags that the main loop polls at  *)
(* the top of each iteration, so a SIGHUP or SIGQUIT whose flag            *)
(* _sig_handler has set ends the process: the restart or shutdown it asks  *)
(* for is eventually carried out.                                          *)
ExitSignalServed ==
    \A s \in {"RESTART", "SHUTDOWN"} : (flag[s] = 1) ~> (pc = "exited")

=============================================================================
