------------------------------- MODULE PidRuntime -------------------------------
(***************************************************************************)
(* A run with a PID namespace: the launcher's wait_for_pid1 composed with  *)
(* the supervisor and the application of Pid1Supervisor.  The launcher     *)
(* reads the host's notice, asks PID1 to stop with SIGTERM, and after the  *)
(* grace period ends the namespace with SIGKILL; otherwise it waits.       *)
(***************************************************************************)
EXTENDS Naturals

CONSTANTS Procs, Main, Reaper, AppStatuses, Signals, MaxSignals

\* What AppTree and Pid1Supervisor assume, and that PID1 handles SIGTERM.
ASSUME RuntimeAssumption ==
    /\ Main \in Procs
    /\ Reaper \notin Procs
    /\ "none" \notin AppStatuses \cup Signals
    /\ "TERM" \in Signals /\ "KILL" \notin Signals
    /\ MaxSignals \in Nat

VARIABLES
    pstate, parent, group, exit_status,
    spc, received, sent, execution_deadline, shutdown_deadline, timeout_triggered,
    main_status, sigkill_sent, result,
    lpc,              \* the launcher: "control", "waitpid", "grace", "returned"
    notice,           \* the host's notice: "unsent", "sent", "read"
    pid1,             \* "running" (its end is spc = "returned") or "killed"
    grace_deadline,   \* the launcher's shutdown_deadline
    pid1_sigkill,     \* the launcher's sigkill_sent
    outcome           \* ApplicationResult of wait_for_pid1, "none" until it returns

Pid1 == INSTANCE Pid1Supervisor

application == <<pstate, parent, group, exit_status>>
flags == <<execution_deadline, shutdown_deadline, timeout_triggered, main_status,
           sigkill_sent, result>>
supervisor == <<spc, received, sent, flags>>
launcher == <<lpc, notice, grace_deadline, pid1_sigkill, outcome>>
vars == <<application, supervisor, pid1, launcher>>

Init ==
    /\ Pid1!Init
    /\ lpc = "control"
    /\ notice = "unsent"
    /\ pid1 = "running"
    /\ grace_deadline = "off"
    /\ pid1_sigkill = FALSE
    /\ outcome = "none"

\* PID1 and the application go on while PID1 lives, outside signals included.
Inside(step) == pid1 = "running" /\ step /\ UNCHANGED <<pid1, launcher>>

\* The host writes at most one notice (HostMonitor!OneNotice), and only after output
\* of the application, whose pipes are connected after setpgid.
HostNotifies ==
    /\ notice = "unsent"
    /\ pstate[Main] # "unplaced"
    /\ lpc # "returned"
    /\ notice' = "sent"
    /\ UNCHANGED <<application, supervisor, pid1, lpc, grace_deadline, pid1_sigkill, outcome>>

GraceExpires ==
    /\ grace_deadline = "armed"
    /\ grace_deadline' = "expired"
    /\ UNCHANGED <<application, supervisor, pid1, lpc, notice, pid1_sigkill, outcome>>

\* PID1 has ended and is the launcher's zombie.
Pid1Ended == pid1 = "killed" \/ spc = "returned"

\* output_limit_requested, then kill(pid1, SIGTERM); a zombie does not notice.
CheckControl ==
    /\ lpc = "control"
    /\ lpc' = "waitpid"
    /\ IF notice = "sent"
       THEN /\ notice' = "read"
            /\ grace_deadline' = "armed"
            /\ IF Pid1Ended THEN UNCHANGED <<spc, received>> ELSE Pid1!Deliver("TERM")
       ELSE UNCHANGED <<notice, grace_deadline, spc, received>>
    /\ UNCHANGED <<application, sent, flags, pid1, pid1_sigkill, outcome>>

\* Mutants: the cause is forgotten; PID1's verdict is taken for a status of its own.
StatusOnly == "Exited"
Passed == IF notice = "read" THEN "OutputLimitExceeded" ELSE result

\* What the launcher reports of PID1's end.
Outcome == IF notice = "read" THEN "OutputLimitExceeded" ELSE "Exited"

\* Mutant: StillAlive is taken for a status.
AnyStatus == TRUE

Waitable == Pid1Ended

ReapPid1 ==
    /\ lpc = "waitpid"
    /\ Waitable
    /\ lpc' = "returned"
    /\ outcome' = Outcome
    /\ UNCHANGED <<application, supervisor, pid1, notice, grace_deadline, pid1_sigkill>>

StillAlive ==
    /\ lpc = "waitpid"
    /\ ~Waitable
    /\ lpc' = "grace"
    /\ UNCHANGED <<application, supervisor, pid1, notice, grace_deadline, pid1_sigkill, outcome>>

\* SIGKILL to PID1: with it the kernel ends the whole namespace.
KillNamespace == pid1' = "killed" /\ Pid1!NamespaceEnds

\* Mutant: the second signal is sent only to a PID1 that has a timeout.
GraceWithTimeout == notice = "read" /\ ~pid1_sigkill /\ grace_deadline = "expired"
                    /\ execution_deadline # "off"

GraceIsOver == notice = "read" /\ ~pid1_sigkill /\ grace_deadline = "expired"

\* The test after StillAlive; PID1 may have returned since.
CheckGrace ==
    /\ lpc = "grace"
    /\ lpc' = "control"
    /\ IF GraceIsOver
       THEN /\ pid1_sigkill' = TRUE
            /\ IF Pid1Ended THEN UNCHANGED <<pid1, application>> ELSE KillNamespace
       ELSE UNCHANGED <<pid1_sigkill, pid1, application>>
    /\ UNCHANGED <<supervisor, notice, grace_deadline, outcome>>

\* A call fails, an eprintln! panics, or the OOM killer takes the launcher: PID1 goes
\* on without it.
Fails ==
    /\ lpc # "returned"
    /\ lpc' = "returned"
    /\ outcome' = "error"
    /\ UNCHANGED <<application, supervisor, pid1, notice, grace_deadline, pid1_sigkill>>

Launcher == CheckControl \/ ReapPid1 \/ StillAlive \/ CheckGrace

Next ==
    \/ Inside(Pid1!Supervisor) \/ Inside(Pid1!Environment) \/ Inside(Pid1!Time)
    \/ Inside(Pid1!Fails)
    \/ HostNotifies \/ GraceExpires
    \/ Launcher \/ Fails

Spec == Init /\ [][Next]_vars

\* Both supervisors are scheduled and time passes.
FairSpec ==
    /\ Spec
    /\ WF_vars(Launcher) /\ WF_vars(GraceExpires)
    /\ WF_vars(Inside(Pid1!Supervisor))
    /\ WF_vars(Inside(Pid1!ExecutionExpires)) /\ WF_vars(Inside(Pid1!ShutdownExpires))

-----------------------------------------------------------------------------
(* Properties.                                                             *)

\* PID1 and the process tree keep their types (TypeOK of Pid1Supervisor), killed or
\* not, and the launcher's variables have theirs: it reports an end and a cause, and
\* never a timeout, which is PID1's.
TypeOK ==
    /\ Pid1!TypeOK
    /\ lpc \in {"control", "waitpid", "grace", "returned"}
    /\ notice \in {"unsent", "sent", "read"}
    /\ pid1 \in {"running", "killed"}
    /\ grace_deadline \in {"off", "armed", "expired"}
    /\ pid1_sigkill \in BOOLEAN
    /\ outcome \in {"none", "Exited", "OutputLimitExceeded", "error"}

\* Unless it fails, the launcher ends only after the last process of the application,
\* so the run's exit status is final and nothing of the sandbox outlives it.
NothingOutlivesLauncher ==
    lpc = "returned" /\ outcome # "error" => Pid1!Unreaped = {}

\* What the host is told by way of the launcher's exit code: PID1's exit code is the
\* main process's status, or 124, and anything else is PID1's own failure.
Told ==
    IF outcome # "Exited" THEN outcome
    ELSE IF result = "TimedOut" THEN "TimedOut"
    ELSE IF result = "Exited" THEN main_status ELSE "error"

Contract == INSTANCE RunContract WITH
    Statuses <- Pid1!Statuses,
    notified <- notice # "unsent",
    expired <- execution_deadline = "expired",
    asked <- {cause \in {"limit", "timeout"} :
                 IF cause = "limit" THEN notice = "read" ELSE timeout_triggered},
    status <- exit_status,
    verdict <- Told

\* Launcher and PID1, each with its own view of why the application ends, keep the
\* contract together: the notice they have acted on wins over PID1's timeout, that over
\* the status, the status is the main process's, and a PID1 that failed or was killed
\* is never taken for the application.
KeepsContract == Contract!Spec

\* README.md, "Output Size Limits": "The launcher initiates controlled sandbox
\* termination."  It ends, although PID1 may lose the SIGTERM (before its handlers,
\* before a blocking waitpid, or under another signal), the application may ignore
\* it, and its daemons are in other groups.
OutputLimitEnforced == (notice = "sent") ~> (lpc = "returned")
=============================================================================
