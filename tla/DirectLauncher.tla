----------------------------- MODULE DirectLauncher -----------------------------
(***************************************************************************)
(* wait_with_timeout: the launcher of a run without a PID namespace.  It   *)
(* waits for the application's main process, which it forked itself,       *)
(* enforces the timeout, and ends the application when the host says that  *)
(* its output exceeds the limit.  What the main process leaves behind is   *)
(* not the launcher's child: the kernel gives it to a reaper outside.      *)
(*                                                                         *)
(* The loop is cut where another process can act: "flags" (WNOHANG or      *)
(* not), "control" (the pipe from the host), "waitpid", and the two tests  *)
(* after StillAlive, "timeout" and "grace".                                *)
(***************************************************************************)
EXTENDS AppTree

VARIABLES
    lpc,                     \* where the launcher is
    notice,                  \* the host's notice: "unsent", "sent", "read"
    use_nonblocking,
    execution_deadline,      \* "off", "armed" or "expired"
    shutdown_deadline,
    timeout_triggered,
    output_limit_triggered,
    sigkill_sent,
    result                   \* ApplicationResult, "none" until it returns

deadlines == <<execution_deadline, shutdown_deadline>>
triggers == <<timeout_triggered, output_limit_triggered, sigkill_sent>>
launch == <<lpc, notice, use_nonblocking, deadlines, triggers, result>>
vars == <<tree, launch>>

Init ==
    /\ TreeInit
    /\ lpc = "flags"
    /\ notice = "unsent"
    /\ use_nonblocking = FALSE
    /\ execution_deadline \in {"off", "armed"}
    /\ shutdown_deadline = "off"
    /\ timeout_triggered = FALSE
    /\ output_limit_triggered = FALSE
    /\ sigkill_sent = FALSE
    /\ result = "none"

-----------------------------------------------------------------------------
(* Around the launcher.                                                    *)

\* The shortest timeout is a second; the child reaches setpgid before that.
ExecutionExpires ==
    /\ execution_deadline = "armed"
    /\ pstate[Main] # "unplaced"
    /\ execution_deadline' = "expired"
    /\ UNCHANGED <<tree, lpc, notice, use_nonblocking, shutdown_deadline, triggers, result>>

ShutdownExpires ==
    /\ shutdown_deadline = "armed"
    /\ shutdown_deadline' = "expired"
    /\ UNCHANGED <<tree, lpc, notice, use_nonblocking, execution_deadline, triggers, result>>

\* The host writes at most one notice (HostMonitor!OneNotice), and only after output
\* of the application, whose pipes are connected after setpgid.
HostNotifies ==
    /\ notice = "unsent"
    /\ pstate[Main] # "unplaced"
    /\ lpc # "returned"
    /\ notice' = "sent"
    /\ UNCHANGED <<tree, lpc, use_nonblocking, deadlines, triggers, result>>

-----------------------------------------------------------------------------
(* The launcher.                                                           *)

ChooseFlags ==
    /\ lpc = "flags"
    /\ lpc' = "control"
    /\ use_nonblocking' = (execution_deadline # "off" \/ shutdown_deadline # "off")
    /\ UNCHANGED <<tree, notice, deadlines, triggers, result>>

\* Mutant: the pipe is read although the timeout has fired.
HearAfterTimeout == ~output_limit_triggered /\ notice = "sent"

\* The pipe is read, and holds the notice.
LimitRequested == ~output_limit_triggered /\ ~timeout_triggered /\ notice = "sent"

\* The flags of this iteration were chosen before.
CheckControl ==
    /\ lpc = "control"
    /\ lpc' = "waitpid"
    /\ IF LimitRequested
       THEN /\ notice' = "read"
            /\ output_limit_triggered' = TRUE
            /\ shutdown_deadline' = "armed"
            /\ Killpg("TERM")
       ELSE UNCHANGED <<tree, notice, output_limit_triggered, shutdown_deadline>>
    /\ UNCHANGED <<use_nonblocking, execution_deadline, timeout_triggered, sigkill_sent, result>>

\* Mutant: a timeout is reported first.
TimeoutFirst ==
    IF execution_deadline = "expired" THEN "TimedOut"
    ELSE IF output_limit_triggered THEN "OutputLimitExceeded" ELSE "Exited"

Verdict ==
    IF output_limit_triggered THEN "OutputLimitExceeded"
    ELSE IF timeout_triggered THEN "TimedOut" ELSE "Exited"

\* Mutant: StillAlive is taken for a status.
AnyStatus == pstate[Main] # "reaped"

MainEnded == pstate[Main] = "zombie"

\* Exited or Signaled: the loop ends with the main process, whoever is left.
ReapMain ==
    /\ lpc = "waitpid"
    /\ MainEnded
    /\ Reap(Main)
    /\ lpc' = "returned"
    /\ result' = Verdict
    /\ UNCHANGED <<notice, use_nonblocking, deadlines, triggers>>

\* Without WNOHANG, waitpid stays here until the main process has ended.
StillAlive ==
    /\ lpc = "waitpid"
    /\ ~MainEnded
    /\ use_nonblocking
    /\ lpc' = "timeout"
    /\ UNCHANGED <<tree, notice, use_nonblocking, deadlines, triggers, result>>

\* Mutant: the deadline is tested only once the limit has been requested.
TimeoutWithLimit == output_limit_triggered /\ execution_deadline = "expired"

TimeIsUp == ~timeout_triggered /\ ~output_limit_triggered /\ execution_deadline = "expired"

CheckTimeout ==
    /\ lpc = "timeout"
    /\ lpc' = "grace"
    /\ IF TimeIsUp
       THEN /\ timeout_triggered' = TRUE
            /\ shutdown_deadline' = "armed"
            /\ Killpg("TERM")
       ELSE UNCHANGED <<tree, timeout_triggered, shutdown_deadline>>
    /\ UNCHANGED <<notice, use_nonblocking, execution_deadline, output_limit_triggered,
                   sigkill_sent, result>>

CheckGrace ==
    /\ lpc = "grace"
    /\ lpc' = "flags"
    /\ IF /\ timeout_triggered \/ output_limit_triggered
          /\ ~sigkill_sent
          /\ shutdown_deadline = "expired"
       THEN sigkill_sent' = TRUE /\ Killpg("KILL")
       ELSE UNCHANGED <<tree, sigkill_sent>>
    /\ UNCHANGED <<notice, use_nonblocking, deadlines, timeout_triggered,
                   output_limit_triggered, result>>

\* A call fails with another error than ESRCH and EINTR, an eprintln! panics, the
\* timeout is past the end of the clock, or the OOM killer takes the launcher: the
\* application is on its own.
Fails ==
    /\ lpc # "returned"
    /\ lpc' = "returned"
    /\ result' = "error"
    /\ UNCHANGED <<tree, notice, use_nonblocking, deadlines, triggers>>

Launcher ==
    ChooseFlags \/ CheckControl \/ ReapMain \/ StillAlive \/ CheckTimeout \/ CheckGrace

Next ==
    \/ Launcher \/ Fails
    \/ Application /\ UNCHANGED launch
    \/ HostNotifies \/ ExecutionExpires \/ ShutdownExpires

Spec == Init /\ [][Next]_vars

\* The launcher is scheduled and time passes; the application owes nothing, but
\* its first call.
FairSpec ==
    /\ Spec
    /\ WF_vars(Launcher)
    /\ WF_vars(ExecutionExpires) /\ WF_vars(ShutdownExpires)
    /\ WF_vars(Setpgid /\ UNCHANGED launch)

-----------------------------------------------------------------------------
(* Properties.                                                             *)

\* The variables have their types, and the process tree is one: see TreeTypeOK.
TypeOK ==
    /\ TreeTypeOK
    /\ lpc \in {"flags", "control", "waitpid", "timeout", "grace", "returned"}
    /\ notice \in {"unsent", "sent", "read"}
    /\ use_nonblocking \in BOOLEAN
    /\ execution_deadline \in {"off", "armed", "expired"}
    /\ shutdown_deadline \in {"off", "armed", "expired"}
    /\ timeout_triggered \in BOOLEAN
    /\ output_limit_triggered \in BOOLEAN
    /\ sigkill_sent \in BOOLEAN
    /\ result \in {"none", "Exited", "TimedOut", "OutputLimitExceeded", "error"}

\* A deadline, a notice and the end of the main process may coincide in any order:
\* the launcher acts on one cause and reports that one, a notice it has read always,
\* and a normal end only if it has not itself asked the application to stop.
VerdictMatchesCause ==
    /\ ~(timeout_triggered /\ output_limit_triggered)
    /\ result = "OutputLimitExceeded" => notice = "read"
    /\ result = "TimedOut" => execution_deadline = "expired" /\ notice # "read"
    /\ result = "Exited" => ~timeout_triggered /\ notice # "read"

Contract == INSTANCE RunContract WITH
    Statuses <- AppStatuses \cup {"TERM", "KILL"},
    notified <- notice # "unsent",
    expired <- execution_deadline = "expired",
    asked <- {cause \in {"limit", "timeout"} :
                 IF cause = "limit" THEN output_limit_triggered ELSE timeout_triggered},
    status <- exit_status,
    verdict <- IF result = "Exited" THEN exit_status ELSE result

\* The launcher keeps the contract: what it reports is the cause for which it asked the
\* application to stop, and the main process's status only if it has not asked.
KeepsContract == Contract!Spec

\* The SIGKILL empties the group, and the first process that is in it again was not
\* started there but had left it and came back.
KilledOnce ==
    /\ ~sigkill_sent /\ sigkill_sent' => Alive' \cap group' = {}
    /\ sigkill_sent /\ Alive \cap group = {} => Alive' \cap group' \subseteq Departed

\* One SIGKILL is enough for everybody who stays in the group, whichever of the two
\* causes made the launcher send it.
SigkillEmptiesGroup == [][KilledOnce]_vars

\* A second cause never grants a second grace period: once three seconds after the
\* first SIGTERM are over, they are over.
GraceNotRestarted == [][shutdown_deadline = "expired" => UNCHANGED shutdown_deadline]_vars

\* After the deadline the launcher returns, whatever the application ignores, unless
\* the main process is outside its group when SIGKILL is sent.
TimeoutTerminates ==
    (execution_deadline = "expired" /\ ~sigkill_sent)
        ~> (lpc = "returned" \/ Main \in Departed)

\* README.md, "Output Size Limits": "When the limit is exceeded: ... 3. The host sends
\* a notification through an internal control pipe.  4. The launcher initiates
\* controlled sandbox termination."
OutputLimitEnforced == (notice = "sent") ~> (notice = "read" \/ lpc = "returned")
=============================================================================
