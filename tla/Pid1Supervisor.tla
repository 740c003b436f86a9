----------------------------- MODULE Pid1Supervisor -----------------------------
(***************************************************************************)
(* run_pid1_supervisor: the first process of the PID namespace.  It forks  *)
(* the application, forwards the signals it receives to the application's  *)
(* process group, enforces the policy's timeout, reaps every process that  *)
(* becomes its child, and returns when it has none left.                   *)
(*                                                                         *)
(* A deadline is "off" (None), "armed" or "expired"; time is the step from *)
(* armed to expired.  The loop's body is cut where another process or a    *)
(* signal can act: "forward", "deadline", "waitpid", and "blocked" inside  *)
(* a waitpid without WNOHANG.                                              *)
(***************************************************************************)
EXTENDS AppTree, Naturals

CONSTANTS
    Signals,     \* the signals PID1 installs a handler for: HUP, INT, TERM
    MaxSignals   \* bound: signals PID1 is sent in a run

ASSUME SupervisorAssumption ==
    /\ "none" \notin Signals
    /\ "KILL" \notin Signals
    /\ MaxSignals \in Nat

VARIABLES
    spc,                 \* where the supervisor is
    received,            \* RECEIVED_SIGNAL, "none" for 0
    sent,                \* signals PID1 has been sent so far
    execution_deadline,
    shutdown_deadline,
    timeout_triggered,
    main_status,
    sigkill_sent,
    result               \* ApplicationResult, "none" until it returns

local == <<execution_deadline, shutdown_deadline, timeout_triggered, main_status,
           sigkill_sent, result>>
vars == <<tree, spc, received, sent, local>>

Init ==
    /\ TreeInit
    /\ spc = "install"
    /\ received = "none"
    /\ sent = 0
    /\ execution_deadline \in {"off", "armed"}
    /\ shutdown_deadline = "off"
    /\ timeout_triggered = FALSE
    /\ main_status = "none"
    /\ sigkill_sent = FALSE
    /\ result = "none"

-----------------------------------------------------------------------------
(* Around the supervisor: time and signals.                                *)

\* The shortest timeout is a second; the child reaches setpgid before that.
ExecutionExpires ==
    /\ execution_deadline = "armed"
    /\ pstate[Main] # "unplaced"
    /\ spc # "install"
    /\ execution_deadline' = "expired"
    /\ UNCHANGED <<tree, spc, received, sent, shutdown_deadline, timeout_triggered,
                   main_status, sigkill_sent, result>>

ShutdownExpires ==
    /\ shutdown_deadline = "armed"
    /\ shutdown_deadline' = "expired"
    /\ UNCHANGED <<tree, spc, received, sent, execution_deadline, timeout_triggered,
                   main_status, sigkill_sent, result>>

\* A signal reaches PID1: handle_signal stores the number, over one that is still
\* there, and interrupts a blocked waitpid.  Without a handler the kernel drops it.
Deliver(signal) ==
    /\ received' = IF spc = "install" THEN received ELSE signal
    /\ spc' = IF spc = "blocked" THEN "forward" ELSE spc

Signal(signal) ==
    /\ sent < MaxSignals
    /\ spc # "returned"
    /\ sent' = sent + 1
    /\ Deliver(signal)
    /\ UNCHANGED <<tree, local>>

-----------------------------------------------------------------------------
(* The supervisor.                                                         *)

InstallSignalHandlers ==
    /\ spc = "install"
    /\ spc' = "forward"
    /\ UNCHANGED <<tree, received, sent, local>>

\* forward_recived_signal
ForwardSignal ==
    /\ spc = "forward"
    /\ received' = "none"
    /\ IF received = "none" THEN UNCHANGED tree ELSE Killpg(received)
    /\ spc' = "deadline"
    /\ UNCHANGED <<sent, local>>

\* Mutant: the deadline counts although the main process has been reaped.
TimeoutAfterEnd == ~timeout_triggered /\ execution_deadline = "expired"

TimeIsUp == ~timeout_triggered /\ main_status = "none" /\ execution_deadline = "expired"

\* Mutant: the timeout sends SIGTERM and arms nothing.
NoGrace == shutdown_deadline

\* shutdown_deadline = Some(Instant::now() + 3 s), with the timeout's SIGTERM.
GraceAfterTimeout == "armed"

CheckDeadline ==
    /\ spc = "deadline"
    /\ spc' = "waitpid"
    /\ IF TimeIsUp
       THEN /\ timeout_triggered' = TRUE
            /\ shutdown_deadline' = GraceAfterTimeout
            /\ Killpg("TERM")
       ELSE UNCHANGED <<tree, timeout_triggered, shutdown_deadline>>
    /\ UNCHANGED <<received, sent, execution_deadline, main_status, sigkill_sent, result>>

\* Mutant: only the grace period makes the loop poll.
PollInGrace == shutdown_deadline # "off"

Nonblocking == shutdown_deadline # "off" \/ execution_deadline # "off"

\* Mutant: StillAlive is taken for a status.
AnyChild == ChildrenOf(Reaper)

\* What waitpid(-1) can return the status of.
Reapable == {p \in ChildrenOf(Reaper) : pstate[p] = "zombie"}

\* pid == main_child
IsMain(p) == p = Main

\* Mutant: the main process's end arms nothing.
NoShutdown == shutdown_deadline

GraceAfterExit == "armed"

\* Exited or Signaled: the main process's status is kept, what is left of its
\* group is asked to stop, and the grace period starts (again, after a timeout).
ReapChild ==
    /\ spc = "waitpid"
    /\ spc' = "forward"
    /\ \E p \in Reapable :
        IF IsMain(p)
        THEN /\ main_status' = exit_status
             /\ shutdown_deadline' = GraceAfterExit
             /\ \E dead \in SUBSET Members : Ends(dead, {p})
             /\ UNCHANGED exit_status
        ELSE Reap(p) /\ UNCHANGED <<main_status, shutdown_deadline>>
    /\ UNCHANGED <<received, sent, execution_deadline, timeout_triggered, sigkill_sent, result>>

\* StillAlive: past the grace period SIGKILL is sent, once; then the poll interval.
StillAlive ==
    /\ spc = "waitpid"
    /\ ChildrenOf(Reaper) # {} /\ Reapable = {}
    /\ Nonblocking
    /\ spc' = "forward"
    /\ IF shutdown_deadline = "expired" /\ ~sigkill_sent
       THEN sigkill_sent' = TRUE /\ Killpg("KILL")
       ELSE UNCHANGED <<tree, sigkill_sent>>
    /\ UNCHANGED <<received, sent, execution_deadline, shutdown_deadline, timeout_triggered,
                   main_status, result>>

Block ==
    /\ spc = "waitpid"
    /\ ChildrenOf(Reaper) # {} /\ Reapable = {}
    /\ ~Nonblocking
    /\ spc' = "blocked"
    /\ UNCHANGED <<tree, received, sent, local>>

ChildEnds ==
    /\ spc = "blocked"
    /\ Reapable # {}
    /\ spc' = "waitpid"
    /\ UNCHANGED <<tree, received, sent, local>>

\* Mutant: the loop ends with the main process.
MainReaped == main_status # "none"

\* ECHILD
NoChildren == ChildrenOf(Reaper) = {}

ReturnResult ==
    /\ spc = "waitpid"
    /\ NoChildren
    /\ spc' = "returned"
    /\ result' = IF timeout_triggered THEN "TimedOut"
                 ELSE IF main_status # "none" THEN "Exited" ELSE "disappeared"
    /\ UNCHANGED <<tree, received, sent, execution_deadline, shutdown_deadline,
                   timeout_triggered, main_status, sigkill_sent>>

\* A call fails with another error than ESRCH, EINTR or ECHILD, a println! panics, the
\* timeout is past the end of the clock, or the OOM killer takes PID1.
Fails ==
    /\ spc # "returned"
    /\ spc' = "returned"
    /\ result' = "error"
    /\ NamespaceEnds
    /\ UNCHANGED <<received, sent, execution_deadline, shutdown_deadline,
                   timeout_triggered, main_status, sigkill_sent>>

Supervisor ==
    \/ InstallSignalHandlers \/ ForwardSignal \/ CheckDeadline
    \/ ReapChild \/ StillAlive \/ Block \/ ChildEnds \/ ReturnResult

Environment ==
    \/ Application /\ UNCHANGED <<spc, received, sent, local>>
    \/ \E signal \in Signals : Signal(signal)

Time == ExecutionExpires \/ ShutdownExpires

Next == Supervisor \/ Environment \/ Time \/ Fails

Spec == Init /\ [][Next]_vars

\* The supervisor is scheduled and time passes; the application owes nothing,
\* but its first call, setpgid.
FairSpec ==
    /\ Spec
    /\ WF_vars(Supervisor)
    /\ WF_vars(ExecutionExpires) /\ WF_vars(ShutdownExpires)
    /\ WF_vars(Setpgid /\ UNCHANGED <<spc, received, sent, local>>)

-----------------------------------------------------------------------------
(* Properties.                                                             *)

Statuses == AppStatuses \cup Signals \cup {"TERM", "KILL"}

\* The variables have their types, and the process tree is one: see TreeTypeOK.
TypeOK ==
    /\ TreeTypeOK
    /\ exit_status \in Statuses \cup {"none"}
    /\ spc \in {"install", "forward", "deadline", "waitpid", "blocked", "returned"}
    /\ received \in Signals \cup {"none"}
    /\ sent \in 0 .. MaxSignals
    /\ execution_deadline \in {"off", "armed", "expired"}
    /\ shutdown_deadline \in {"off", "armed", "expired"}
    /\ timeout_triggered \in BOOLEAN
    /\ main_status \in Statuses \cup {"none"}
    /\ sigkill_sent \in BOOLEAN
    /\ result \in {"none", "TimedOut", "Exited", "disappeared", "error"}

\* PID1 returns a result only when every process of the application has been reaped,
\* whoever started it and whatever group it is in, and takes the rest with it when it
\* fails; the error "The main application disappeared without a final status" cannot
\* happen.
ReturnsOnlyWhenEmpty ==
    spc = "returned" => Unreaped = {} /\ result # "disappeared"

\* The status the loop keeps, unless PID1 fails, and the result it makes of it.
StatusKept ==
    /\ result # "error" =>
        main_status = (IF pstate[Main] = "reaped" THEN exit_status ELSE "none")
    /\ result = "Exited" => main_status # "none" /\ ~timeout_triggered
    /\ result = "TimedOut" => timeout_triggered

\* A timeout is triggered only after the deadline, by a step that finds the main
\* process not yet reaped.
TimeoutOfUnreaped ==
    timeout_triggered' # timeout_triggered =>
        execution_deadline = "expired" /\ pstate[Main] # "reaped"

\* The status PID1 keeps is the one the main process ended with, although every orphan
\* of the namespace is reaped by the same loop; and the result TimedOut means that the
\* main process had not been reaped when the deadline was found expired: one that is
\* reaped in time keeps its status, however long its group takes to end.
StatusIsMains == []StatusKept /\ [][TimeoutOfUnreaped]_vars

\* The SIGKILL empties the group, and the first process that is in it again was not
\* started there but had left it and came back.
KilledOnce ==
    /\ ~sigkill_sent /\ sigkill_sent' => Alive' \cap group' = {}
    /\ sigkill_sent /\ Alive \cap group = {} => Alive' \cap group' \subseteq Departed

\* One SIGKILL is enough for everybody who stays in the group, although sigkill_sent is
\* never reset when the main process's end starts the grace period again.
SigkillEmptiesGroup == [][KilledOnce]_vars

\* After the deadline the supervisor returns, whatever the application ignores, unless
\* a process is outside the group when SIGKILL is sent: one that comes back later is
\* never signalled again.
TimeoutTerminates ==
    (execution_deadline = "expired" /\ ~sigkill_sent)
        ~> (spc = "returned" \/ Departed # {})

\* When the main process has ended, the supervisor returns even though other
\* processes of its group ignore SIGTERM and never end, with the same exception.
MainExitTerminates ==
    (pstate[Main] \in {"zombie", "reaped"} /\ ~sigkill_sent)
        ~> (spc = "returned" \/ Departed # {})

\* README.md, "Wall-clock execution timeout": "When the timeout expires, the runtime
\* performs controlled termination: SIGTERM, grace period, SIGKILL if the
\* application does not exit voluntarily."
TimeoutEnforced == (execution_deadline = "expired") ~> (spc = "returned")

\* With a deadline the loop polls, and a recorded signal is forwarded.
SignalForwardedWhenPolling ==
    (received # "none" /\ execution_deadline # "off")
        ~> (received = "none" \/ spc = "returned")

\* README.md, "Signals received by the supervisor are forwarded to the sandboxed
\* application process group."
SignalForwarded == (received # "none") ~> (received = "none" \/ spc = "returned")
=============================================================================
