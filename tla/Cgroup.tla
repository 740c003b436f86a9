--------------------------------- MODULE Cgroup ---------------------------------
(***************************************************************************)
(* cgroup.rs and its callers in run_app: every run of secure-runtime makes *)
(* a directory "sandbox-<PID of the host>" under one delegated parent,     *)
(* writes the limits, lets the launcher move itself in before it forks the *)
(* application, and after the run kills what is left and removes it.       *)
(*                                                                         *)
(* Several runs share the parent directory.  Their host PIDs are unique    *)
(* only among living processes, so a directory that was left behind can    *)
(* meet a later run with the same PID.                                     *)
(*                                                                         *)
(* What this amounts to is DirectoryLease, which this module implements.   *)
(***************************************************************************)
EXTENDS Naturals

CONSTANTS
    Runs,      \* bound: the invocations of secure-runtime
    Pids,      \* the PIDs a host may get; each names one directory
    Limits     \* how many of memory.max, pids.max, cpu.max the policy sets

ASSUME CgroupAssumption ==
    /\ Limits \in Nat
    /\ "none" \notin Pids

VARIABLES
    hpc,        \* run -> where the host is in run_app
    pid,        \* run -> the host's PID, "none" before it starts
    dirs,       \* the directories that exist
    limits,     \* directory -> how many limits have been written to it, in order
    launcher,   \* run -> "none", "forked", "inside" (moved into the cgroup), "ended"
    procs,      \* run -> where its launcher and application live: "none", "outside", "inside"
    deadline,   \* run -> the 3 s of wait_until_cgroup_empty: "off", "armed", "expired"
    result      \* run -> "none" yet, "ok", "error", or "killed" (the host was)

sandbox == <<launcher, procs>>
vars == <<hpc, pid, dirs, limits, sandbox, deadline, result>>

Live(r) == hpc[r] \notin {"idle", "returned"}

\* What cgroup.procs of p lists, by run.
Inhabitants(p) == {r \in Runs : procs[r] = "inside" /\ pid[r] = p}

Init ==
    /\ hpc = [r \in Runs |-> "idle"]
    /\ pid = [r \in Runs |-> "none"]
    /\ dirs = {}
    /\ limits = [p \in Pids |-> 0]
    /\ launcher = [r \in Runs |-> "none"]
    /\ procs = [r \in Runs |-> "none"]
    /\ deadline = [r \in Runs |-> "off"]
    /\ result = [r \in Runs |-> "none"]

Go(r, to) == hpc' = [hpc EXCEPT ![r] = to] /\ UNCHANGED result
Return(r, outcome) ==
    /\ hpc' = [hpc EXCEPT ![r] = "returned"]
    /\ result' = [result EXCEPT ![r] = outcome]

-----------------------------------------------------------------------------
(* prepare_cgroup.                                                         *)

Start(r, p) ==
    /\ hpc[r] = "idle"
    /\ \A other \in Runs : Live(other) => pid[other] # p
    /\ pid' = [pid EXCEPT ![r] = p]
    /\ Go(r, "create")
    /\ UNCHANGED <<dirs, limits, sandbox, deadline>>

\* Mutant: create_dir_all, which accepts a directory that exists.
AnyDirectory(p) == TRUE

\* create_dir succeeds only on a new name.
Creatable(p) == p \notin dirs

CreateSandbox(r) ==
    /\ hpc[r] = "create"
    /\ \/ /\ Creatable(pid[r])
          /\ dirs' = dirs \cup {pid[r]}
          /\ limits' = IF pid[r] \in dirs THEN limits ELSE [limits EXCEPT ![pid[r]] = 0]
          /\ Go(r, "limits")
       \/ Return(r, "error") /\ UNCHANGED <<dirs, limits>>
    /\ UNCHANGED <<pid, sandbox, deadline>>

\* Mutant: a limit that cannot be written is passed over.
PassOver(r) == Go(r, "fork")

\* The ? operator: the directory stays.
GiveUp(r) == Return(r, "error")

\* Mutant: one limit more than there are.
OneMore(p) == limits[p] <= Limits

LimitsLeft(p) == limits[p] < Limits

\* apply_memory_limit, apply_process_limit, apply_cpu_limit.
ApplyLimit(r) ==
    /\ hpc[r] = "limits"
    /\ LimitsLeft(pid[r])
    /\ \/ limits' = [limits EXCEPT ![pid[r]] = @ + 1] /\ UNCHANGED <<hpc, result>>
       \/ GiveUp(r) /\ UNCHANGED limits
    /\ UNCHANGED <<pid, dirs, sandbox, deadline>>

LimitsApplied(r) ==
    /\ hpc[r] = "limits"
    /\ ~LimitsLeft(pid[r])
    /\ Go(r, "fork")
    /\ UNCHANGED <<pid, dirs, limits, sandbox, deadline>>

-----------------------------------------------------------------------------
(* The run.                                                                *)

\* create_output_pipes, create_control_pipe and the first fork.
ForkLauncher(r) ==
    /\ hpc[r] = "fork"
    /\ \/ /\ Go(r, "loop")
          /\ launcher' = [launcher EXCEPT ![r] = "forked"]
          /\ procs' = [procs EXCEPT ![r] = "outside"]
       \/ Return(r, "error") /\ UNCHANGED sandbox
    /\ UNCHANGED <<pid, dirs, limits, deadline>>

\* The launcher returns its error, and is gone.
Abort(r) ==
    /\ launcher' = [launcher EXCEPT ![r] = "ended"]
    /\ procs' = [procs EXCEPT ![r] = "none"]

\* move_process_to_cgroup, before the application is forked.
MoveLauncher(r) ==
    /\ launcher[r] = "forked"
    /\ \/ /\ pid[r] \in dirs
          /\ launcher' = [launcher EXCEPT ![r] = "inside"]
          /\ procs' = [procs EXCEPT ![r] = "inside"]
       \/ Abort(r)
    /\ UNCHANGED <<hpc, pid, dirs, limits, deadline, result>>

\* The launcher ends; without a PID namespace processes may live on where they are.
LauncherEnds(r) ==
    /\ launcher[r] = "inside"
    /\ launcher' = [launcher EXCEPT ![r] = "ended"]
    /\ procs' \in {procs, [procs EXCEPT ![r] = "none"]}
    /\ UNCHANGED <<hpc, pid, dirs, limits, deadline, result>>

LastProcessEnds(r) ==
    /\ launcher[r] = "ended"
    /\ procs[r] # "none"
    /\ procs' = [procs EXCEPT ![r] = "none"]
    /\ UNCHANGED <<hpc, pid, dirs, limits, launcher, deadline, result>>

\* Mutant: the loop does not wait for the launcher.
NotYet(r) == launcher[r] # "none"

\* launcher_status.is_some()
LauncherReaped(r) == launcher[r] = "ended"

\* The loop of run_app, HostMonitor's subject: it fails, or ends after the launcher.
FinishLoop(r) ==
    /\ hpc[r] = "loop"
    /\ \/ LauncherReaped(r) /\ Go(r, "stats")
       \/ Return(r, "error")
    /\ UNCHANGED <<pid, dirs, limits, sandbox, deadline>>

ReadStats(r) ==
    /\ hpc[r] = "stats"
    /\ Go(r, "cleanup") \/ Return(r, "error")
    /\ UNCHANGED <<pid, dirs, limits, sandbox, deadline>>

\* SIGKILL from outside; nothing ties the launcher's life to the host's.
HostKilled(r) ==
    /\ Live(r)
    /\ Return(r, "killed")
    /\ UNCHANGED <<pid, dirs, limits, sandbox, deadline>>

-----------------------------------------------------------------------------
(* cleanup_cgroup.                                                         *)

Populated(p) == Inhabitants(p) # {}

\* The directory exists, so the early return of cleanup_cgroup is never taken.
TestPopulated(r) ==
    /\ hpc[r] = "cleanup"
    /\ \/ Go(r, IF Populated(pid[r]) THEN "kill" ELSE "remove")
       \/ Return(r, "error")
    /\ UNCHANGED <<pid, dirs, limits, sandbox, deadline>>

\* Mutant: the wait has no limit.
WaitForEver == "off"

WaitLimit == "armed"

\* cgroup.kill ends every inhabitant; one in an uninterruptible sleep ends later.
KillCgroup(r) ==
    /\ hpc[r] = "kill"
    /\ \/ /\ \E slow \in SUBSET Inhabitants(pid[r]) :
                procs' = [q \in Runs |-> IF q \in Inhabitants(pid[r]) \ slow
                                         THEN "none" ELSE procs[q]]
          /\ deadline' = [deadline EXCEPT ![r] = WaitLimit]
          /\ Go(r, "wait")
       \/ Return(r, "error") /\ UNCHANGED <<procs, deadline>>
    /\ UNCHANGED <<pid, dirs, limits, launcher>>

DeadlineExpires(r) ==
    /\ deadline[r] = "armed"
    /\ deadline' = [deadline EXCEPT ![r] = "expired"]
    /\ UNCHANGED <<hpc, pid, dirs, limits, sandbox, result>>

\* wait_until_cgroup_empty polls; the deadline is looked at only while populated.
WaitUntilEmpty(r) ==
    /\ hpc[r] = "wait"
    /\ \/ ~Populated(pid[r]) /\ Go(r, "remove")
       \/ Populated(pid[r]) /\ deadline[r] = "expired" /\ Return(r, "error")
    /\ UNCHANGED <<pid, dirs, limits, sandbox, deadline>>

\* remove_dir, which the kernel refuses while the cgroup is populated.
RemoveSandbox(r) ==
    /\ hpc[r] = "remove"
    /\ \/ /\ ~Populated(pid[r])
          /\ dirs' = dirs \ {pid[r]}
          /\ Return(r, "ok")
       \/ Return(r, "error") /\ UNCHANGED dirs
    /\ UNCHANGED <<pid, limits, sandbox, deadline>>

-----------------------------------------------------------------------------
Host(r) ==
    \/ \E p \in Pids : Start(r, p)
    \/ CreateSandbox(r) \/ ApplyLimit(r) \/ LimitsApplied(r)
    \/ ForkLauncher(r) \/ FinishLoop(r) \/ ReadStats(r)
    \/ TestPopulated(r) \/ KillCgroup(r) \/ WaitUntilEmpty(r) \/ RemoveSandbox(r)

Launcher(r) == MoveLauncher(r) \/ LauncherEnds(r) \/ LastProcessEnds(r)

Next == \E r \in Runs : Host(r) \/ Launcher(r) \/ HostKilled(r) \/ DeadlineExpires(r)

Spec == Init /\ [][Next]_vars

\* Hosts are scheduled and time passes; nothing is assumed of the sandbox.
FairSpec ==
    /\ Spec
    /\ \A r \in Runs : WF_vars(Host(r)) /\ WF_vars(DeadlineExpires(r))

-----------------------------------------------------------------------------
(* Properties.                                                             *)

\* The variables have their types.
TypeOK ==
    /\ hpc \in [Runs -> {"idle", "create", "limits", "fork", "loop", "stats", "cleanup",
                         "kill", "wait", "remove", "returned"}]
    /\ pid \in [Runs -> Pids \cup {"none"}]
    /\ dirs \subseteq Pids
    /\ limits \in [Pids -> 0 .. Limits]
    /\ launcher \in [Runs -> {"none", "forked", "inside", "ended"}]
    /\ procs \in [Runs -> {"none", "outside", "inside"}]
    /\ deadline \in [Runs -> {"off", "armed", "expired"}]
    /\ result \in [Runs -> {"none", "ok", "error", "killed"}]

\* A run never shares its cgroup: whatever was left behind by runs that failed or
\* were killed, and whatever PID is used again, the processes that a run limits,
\* counts in its statistics and kills at the end are its own.
OwnProcessesOnly ==
    \A r \in Runs :
        Live(r) /\ hpc[r] # "create" => Inhabitants(pid[r]) \subseteq {r}

\* The application is forked by a launcher that is in the cgroup: whatever the run
\* starts is in the run's directory, with every limit written and the directory still
\* there, also after the host has failed or been killed.
ApplicationLimited ==
    \A r \in Runs : launcher[r] \in {"inside", "ended"} /\ procs[r] # "none" =>
        procs[r] = "inside" /\ pid[r] \in dirs /\ limits[pid[r]] = Limits

\* README.md, "Cgroup v2 controls": "The sandbox cgroup is cleaned up after execution."
\* When run_app succeeds, no process of the run is left, whatever process group
\* or session it is in.
SuccessLeavesNothing == \A r \in Runs : result[r] = "ok" => procs[r] = "none"

\* The cleanup comes to an end, even with processes that survive cgroup.kill for
\* longer than the 3 s.
CleanupEnds ==
    \A r \in Runs : (hpc[r] = "cleanup") ~> (hpc[r] = "returned")

\* The host is past the loop, and the launcher has been waited for.
Closing == {"stats", "cleanup", "kill", "wait", "remove"}

\* A run's directory is still its own while the host is between create_dir and its
\* return, while the launcher may yet move in, or while processes are inside.
Holder(r) ==
    \/ hpc[r] \in {"limits", "fork", "loop"} \cup Closing
    \/ launcher[r] = "forked"
    \/ procs[r] = "inside"

Lease == INSTANCE DirectoryLease WITH
    Names <- Pids,
    lease <- [r \in Runs |-> IF Holder(r) THEN pid[r] ELSE "none"],
    taken <- dirs,
    inside <- {r \in Runs : procs[r] = "inside"}

\* The runs lease their directories' names: a name is held by the one run that made the
\* directory, is free again only after that run removed it empty, and is never taken
\* over from a run that failed or whose host was killed.
ImplementsLease == Lease!Spec
=============================================================================
