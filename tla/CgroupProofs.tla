------------------------------ MODULE CgroupProofs ------------------------------
(***************************************************************************)
(* Proofs about Cgroup.  The invariant speaks of holders, the runs whose   *)
(* directory must still be theirs; the refinement of DirectoryLease takes  *)
(* it to the steps at which a run becomes a holder or stops being one.     *)
(***************************************************************************)
EXTENDS Cgroup, TLAPS

Setup == {"idle", "create", "limits", "fork"}
\* Every host that has started has a PID.
Named == \A r \in Runs : hpc[r] # "idle" => pid[r] \in Pids

\* A holder's directory exists and has no other holder.
HoldersApart ==
    /\ \A r \in Runs : Holder(r) => pid[r] \in dirs
    /\ \A r, s \in Runs : Holder(r) /\ Holder(s) /\ pid[r] = pid[s] => r = s

\* From the first fork on, all limits of a holder's directory are written.
HoldersLimited ==
    \A r \in Runs : Holder(r) /\ (hpc[r] = "fork" \/ launcher[r] # "none")
                        => limits[pid[r]] = Limits

\* The launcher exists only after the setup, and has ended before the cleanup.
LauncherInOrder ==
    \A r \in Runs :
        /\ hpc[r] \in Setup => launcher[r] = "none"
        /\ hpc[r] \in Closing => launcher[r] = "ended"
        /\ launcher[r] = "none" => procs[r] = "none"
        /\ procs[r] = "outside" => launcher[r] = "forked"
        /\ procs[r] = "inside" => launcher[r] # "forked"

SuccessIsFinal ==
    \A r \in Runs : result[r] = "ok" =>
        hpc[r] = "returned" /\ launcher[r] = "ended" /\ procs[r] = "none"

IInv ==
    TypeOK /\ Named /\ HoldersApart /\ HoldersLimited /\ LauncherInOrder /\ SuccessIsFinal

USE CgroupAssumption

-----------------------------------------------------------------------------
LEMMA Initially == Init => IInv
BY DEF Init, IInv, TypeOK, Named, HoldersApart, HoldersLimited, LauncherInOrder, SuccessIsFinal,
       Holder, Setup, Closing

\* The steps that leave pid, dirs, and limits alone and make nobody a holder.
LEMMA StartKeeps ==
    ASSUME IInv, NEW r \in Runs, NEW p \in Pids, Start(r, p) PROVE IInv'
BY DEF IInv, TypeOK, Named, HoldersApart, HoldersLimited, LauncherInOrder, SuccessIsFinal,
       Holder, Setup, Closing, Start, Go, sandbox

\* create_dir: the new name is nobody's, since every holder's directory exists.
LEMMA CreateKeeps ==
    ASSUME IInv, NEW r \in Runs, CreateSandbox(r) PROVE IInv'
BY DEF IInv, TypeOK, Named, HoldersApart, HoldersLimited, LauncherInOrder, SuccessIsFinal,
       Holder, Setup, Closing, CreateSandbox, Creatable, Go, Return, sandbox

LEMMA LimitKeeps ==
    ASSUME IInv, NEW r \in Runs, ApplyLimit(r) \/ LimitsApplied(r) PROVE IInv'
BY DEF IInv, TypeOK, Named, HoldersApart, HoldersLimited, LauncherInOrder, SuccessIsFinal,
       Holder, Setup, Closing, ApplyLimit, LimitsApplied, LimitsLeft, GiveUp, Go, Return, sandbox

LEMMA RunKeeps ==
    ASSUME IInv, NEW r \in Runs,
           \/ ForkLauncher(r) \/ FinishLoop(r) \/ ReadStats(r) \/ HostKilled(r)
           \/ MoveLauncher(r) \/ LauncherEnds(r) \/ LastProcessEnds(r)
    PROVE  IInv'
<1>1. CASE ForkLauncher(r)
  BY <1>1 DEF IInv, TypeOK, Named, HoldersApart, HoldersLimited, LauncherInOrder, SuccessIsFinal,
       Holder, Setup, Closing, ForkLauncher, Go, Return, sandbox
<1>2. CASE FinishLoop(r) \/ ReadStats(r)
  BY <1>2 DEF IInv, TypeOK, Named, HoldersApart, HoldersLimited, LauncherInOrder, SuccessIsFinal,
       Holder, Setup, Closing, FinishLoop, LauncherReaped, ReadStats, Go, Return, sandbox
<1>3. CASE HostKilled(r)
  BY <1>3 DEF IInv, TypeOK, Named, HoldersApart, HoldersLimited, LauncherInOrder, SuccessIsFinal,
       Holder, Setup, Closing, HostKilled, Live, Return, sandbox
<1>4. CASE MoveLauncher(r)
  BY <1>4 DEF IInv, TypeOK, Named, HoldersApart, HoldersLimited, LauncherInOrder, SuccessIsFinal,
       Holder, Setup, Closing, MoveLauncher, Abort, sandbox
<1>5. CASE LauncherEnds(r) \/ LastProcessEnds(r)
  BY <1>5 DEF IInv, TypeOK, Named, HoldersApart, HoldersLimited, LauncherInOrder, SuccessIsFinal,
       Holder, Setup, Closing, LauncherEnds, LastProcessEnds, sandbox
<1> QED BY <1>1, <1>2, <1>3, <1>4, <1>5

LEMMA CleanupKeeps ==
    ASSUME IInv, NEW r \in Runs,
           \/ TestPopulated(r) \/ KillCgroup(r) \/ WaitUntilEmpty(r) \/ RemoveSandbox(r)
           \/ DeadlineExpires(r)
    PROVE  IInv'
<1>1. CASE TestPopulated(r) \/ WaitUntilEmpty(r) \/ DeadlineExpires(r)
  BY <1>1 DEF IInv, TypeOK, Named, HoldersApart, HoldersLimited, LauncherInOrder, SuccessIsFinal,
       Holder, Setup, Closing, TestPopulated, WaitUntilEmpty, DeadlineExpires, Go, Return, sandbox
<1>2. CASE KillCgroup(r)
  BY <1>2 DEF IInv, TypeOK, Named, HoldersApart, HoldersLimited, LauncherInOrder, SuccessIsFinal,
       Holder, Setup, Closing, KillCgroup, WaitLimit, Inhabitants, Go, Return, sandbox
<1>3. CASE RemoveSandbox(r)
  BY <1>3 DEF IInv, TypeOK, Named, HoldersApart, HoldersLimited, LauncherInOrder, SuccessIsFinal,
       Holder, Setup, Closing, RemoveSandbox, Populated, Inhabitants, Return, sandbox
<1> QED BY <1>1, <1>2, <1>3

LEMMA Stuttering == IInv /\ UNCHANGED vars => IInv'
BY DEF IInv, TypeOK, Named, HoldersApart, HoldersLimited, LauncherInOrder, SuccessIsFinal,
       Holder, vars, sandbox

\* The runs, however many and however their PIDs are used again, keep the invariant.
THEOREM Invariance == Spec => []IInv
<1>1. IInv /\ [Next]_vars => IInv'
  BY StartKeeps, CreateKeeps, LimitKeeps, RunKeeps, CleanupKeeps, Stuttering
     DEF Next, Host, Launcher
<1> QED BY Initially, <1>1, PTL DEF Spec

\* The variables have their types.
THEOREM TypeCorrect == Spec => []TypeOK
<1>1. IInv => TypeOK BY DEF IInv
<1> QED BY Invariance, <1>1, PTL

\* Any number of runs, failing or killed at any point, with any reuse of host PIDs:
\* the processes a run's cleanup kills are its own.
THEOREM NeverAnothersProcesses == Spec => []OwnProcessesOnly
<1>1. IInv => OwnProcessesOnly
  BY DEF IInv, TypeOK, HoldersApart, Holder, OwnProcessesOnly, Live, Inhabitants, Closing
<1> QED BY Invariance, <1>1, PTL

\* Whatever the application starts is in a directory that exists and has all its limits.
THEOREM AlwaysLimited == Spec => []ApplicationLimited
<1>1. IInv => ApplicationLimited
  BY DEF IInv, TypeOK, HoldersApart, HoldersLimited, LauncherInOrder, Holder, ApplicationLimited
<1> QED BY Invariance, <1>1, PTL

\* A run that succeeds leaves no process behind.
THEOREM SuccessIsClean == Spec => []SuccessLeavesNothing
<1>1. IInv => SuccessLeavesNothing
  BY DEF IInv, SuccessIsFinal, SuccessLeavesNothing
<1> QED BY Invariance, <1>1, PTL
-----------------------------------------------------------------------------
(* The refinement of DirectoryLease.                                       *)

\* How a step of run r looks to the lease; the other runs are Unmoved by it.
Unmoved(r) ==
    \A q \in Runs \ {r} :
        /\ Holder(q)' <=> Holder(q)
        /\ pid'[q] = pid[q]
        /\ procs'[q] = procs[q]

Quiet(r) ==
    /\ Holder(r)' <=> Holder(r)
    /\ Holder(r) => pid'[r] = pid[r]
    /\ procs'[r] = "inside" <=> procs[r] = "inside"
    /\ UNCHANGED dirs

Takes(r) ==
    /\ ~Holder(r) /\ Holder(r)'
    /\ pid'[r] \in Pids \ dirs
    /\ procs[r] # "inside" /\ procs'[r] # "inside"
    /\ dirs' = dirs \cup {pid'[r]}

Enters(r) ==
    /\ Holder(r) /\ Holder(r)'
    /\ pid'[r] = pid[r] /\ pid[r] # "none"
    /\ procs[r] # "inside" /\ procs'[r] = "inside"
    /\ UNCHANGED dirs

Leaves(r) ==
    /\ Holder(r)
    /\ pid'[r] = pid[r]
    /\ procs[r] = "inside" /\ procs'[r] # "inside"
    /\ UNCHANGED dirs

Drops(r) ==
    /\ Holder(r) /\ ~Holder(r)'
    /\ pid[r] # "none"
    /\ procs[r] # "inside" /\ procs'[r] # "inside"
    /\ dirs' \in {dirs, dirs \ {pid[r]}}

\* Each of them is a step of DirectoryLease, or none.
LEMMA LeaseStep ==
    ASSUME NEW r \in Runs, Unmoved(r),
           Quiet(r) \/ Takes(r) \/ Enters(r) \/ Leaves(r) \/ Drops(r)
    PROVE  Lease!Next \/ UNCHANGED Lease!leasing
<1> DEFINE lease == [q \in Runs |-> IF Holder(q) THEN pid[q] ELSE "none"]
           inside == {q \in Runs : procs[q] = "inside"}
<1>1. CASE Quiet(r)
  BY <1>1 DEF Quiet, Unmoved, Lease!leasing
<1>2. CASE Takes(r)
  <2>1. PICK p \in Pids \ dirs : pid'[r] = p
    BY <1>2 DEF Takes
  <2>2. lease' = [lease EXCEPT ![r] = p] /\ lease[r] = "none"
    BY <1>2, <2>1 DEF Takes, Unmoved
  <2>3. inside' = inside
    BY <1>2 DEF Takes, Unmoved
  <2>4. Lease!Take(r, p)
    BY <1>2, <2>1, <2>2, <2>3 DEF Takes, Lease!Take
  <2> QED BY <2>4 DEF Lease!Next
<1>3. CASE Enters(r)
  <2>1. lease' = lease /\ lease[r] # "none"
    BY <1>3 DEF Enters, Unmoved
  <2>2. inside' = inside \cup {r} /\ r \notin inside
    BY <1>3 DEF Enters, Unmoved
  <2> QED BY <1>3, <2>1, <2>2 DEF Enters, Lease!Enter, Lease!Next
<1>4. CASE Leaves(r)
  <2>1. lease' \in {lease, [lease EXCEPT ![r] = "none"]}
    BY <1>4 DEF Leaves, Unmoved
  <2>2. inside' = inside \ {r} /\ r \in inside
    BY <1>4 DEF Leaves, Unmoved
  <2> QED BY <1>4, <2>1, <2>2 DEF Leaves, Lease!Leave, Lease!Next
<1>5. CASE Drops(r)
  <2>1. lease' = [lease EXCEPT ![r] = "none"] /\ lease[r] # "none" /\ lease[r] = pid[r]
    BY <1>5 DEF Drops, Unmoved
  <2>2. inside' = inside /\ r \notin inside
    BY <1>5 DEF Drops, Unmoved
  <2>3. Lease!Abandon(r) \/ Lease!Release(r)
    BY <1>5, <2>1, <2>2 DEF Drops, Lease!Abandon, Lease!Release
  <2> QED BY <2>3 DEF Lease!Next
<1> QED BY <1>1, <1>2, <1>3, <1>4, <1>5

LEMMA LeaseInit == Init => Lease!Init
BY DEF Init, Lease!Init, Holder, Closing

\* create_dir takes the lease; until then the run holds nothing.
LEMMA LeaseOfSetup ==
    ASSUME IInv, NEW r \in Runs,
           \/ \E p \in Pids : Start(r, p)
           \/ CreateSandbox(r) \/ ApplyLimit(r) \/ LimitsApplied(r)
    PROVE  Lease!Next \/ UNCHANGED Lease!leasing
<1>1. CASE \E p \in Pids : Start(r, p)
  <2>1. Unmoved(r) /\ Quiet(r)
    BY <1>1 DEF IInv, TypeOK, LauncherInOrder, Setup, Closing, Holder, Start, Go, sandbox,
                Unmoved, Quiet
  <2> QED BY <2>1, LeaseStep
<1>2. CASE CreateSandbox(r)
  <2>1. Unmoved(r) /\ (Quiet(r) \/ Takes(r))
    BY <1>2 DEF IInv, TypeOK, Named, LauncherInOrder, Setup, Closing, Holder, CreateSandbox,
                Creatable, Go, Return, sandbox, Unmoved, Quiet, Takes
  <2> QED BY <2>1, LeaseStep
<1>3. CASE ApplyLimit(r) \/ LimitsApplied(r)
  <2>1. Unmoved(r) /\ (Quiet(r) \/ Drops(r))
    BY <1>3 DEF IInv, TypeOK, Named, LauncherInOrder, Setup, Closing, Holder, ApplyLimit,
                LimitsApplied, GiveUp, Go, Return, sandbox, Unmoved, Quiet, Drops
  <2> QED BY <2>1, LeaseStep
<1> QED BY <1>1, <1>2, <1>3

\* The launcher enters under the lease, and keeps it when the host is gone.
LEMMA LeaseOfRun ==
    ASSUME IInv, NEW r \in Runs,
           \/ ForkLauncher(r) \/ FinishLoop(r) \/ ReadStats(r) \/ HostKilled(r)
           \/ MoveLauncher(r) \/ LauncherEnds(r) \/ LastProcessEnds(r)
    PROVE  Lease!Next \/ UNCHANGED Lease!leasing
<1>1. CASE ForkLauncher(r)
  <2>1. Unmoved(r) /\ (Quiet(r) \/ Drops(r))
    BY <1>1 DEF IInv, TypeOK, Named, LauncherInOrder, Setup, Closing, Holder, ForkLauncher,
                Go, Return, sandbox, Unmoved, Quiet, Drops
  <2> QED BY <2>1, LeaseStep
<1>2. CASE FinishLoop(r) \/ ReadStats(r)
  <2>1. Unmoved(r) /\ (Quiet(r) \/ Drops(r))
    BY <1>2 DEF IInv, TypeOK, Named, LauncherInOrder, Setup, Closing, Holder, FinishLoop,
                LauncherReaped, ReadStats, Go, Return, sandbox, Unmoved, Quiet, Drops
  <2> QED BY <2>1, LeaseStep
<1>3. CASE HostKilled(r)
  <2>1. Unmoved(r) /\ (Quiet(r) \/ Drops(r))
    BY <1>3 DEF IInv, TypeOK, Named, LauncherInOrder, Setup, Closing, Holder, HostKilled,
                Live, Return, sandbox, Unmoved, Quiet, Drops
  <2> QED BY <2>1, LeaseStep
<1>4. CASE MoveLauncher(r)
  <2>1. Unmoved(r) /\ (Quiet(r) \/ Enters(r) \/ Drops(r))
    BY <1>4 DEF IInv, TypeOK, Named, LauncherInOrder, Setup, Closing, Holder, MoveLauncher,
                Abort, sandbox, Unmoved, Quiet, Enters, Drops
  <2> QED BY <2>1, LeaseStep
<1>5. CASE LauncherEnds(r) \/ LastProcessEnds(r)
  <2>1. Unmoved(r) /\ (Quiet(r) \/ Leaves(r))
    BY <1>5 DEF IInv, TypeOK, Named, LauncherInOrder, Setup, Closing, Holder, LauncherEnds,
                LastProcessEnds, sandbox, Unmoved, Quiet, Leaves
  <2> QED BY <2>1, LeaseStep
<1> QED BY <1>1, <1>2, <1>3, <1>4, <1>5

\* cgroup.kill reaches the run's own processes only, since its directory has no other
\* holder; the directory is removed by its holder, with nobody inside.
LEMMA LeaseOfCleanup ==
    ASSUME IInv, NEW r \in Runs,
           \/ TestPopulated(r) \/ KillCgroup(r) \/ WaitUntilEmpty(r) \/ RemoveSandbox(r)
           \/ DeadlineExpires(r)
    PROVE  Lease!Next \/ UNCHANGED Lease!leasing
<1>1. CASE TestPopulated(r) \/ WaitUntilEmpty(r) \/ DeadlineExpires(r)
  <2>1. Unmoved(r) /\ (Quiet(r) \/ Drops(r))
    BY <1>1 DEF IInv, TypeOK, Named, LauncherInOrder, Setup, Closing, Holder, TestPopulated,
                WaitUntilEmpty, DeadlineExpires, Go, Return, sandbox, Unmoved, Quiet, Drops
  <2> QED BY <2>1, LeaseStep
<1>2. CASE KillCgroup(r)
  <2>1. Inhabitants(pid[r]) \subseteq {r}
    BY <1>2 DEF IInv, TypeOK, HoldersApart, Holder, Closing, KillCgroup, Inhabitants
  <2>2. Unmoved(r) /\ (Quiet(r) \/ Leaves(r) \/ Drops(r))
    BY <1>2, <2>1 DEF IInv, TypeOK, Named, LauncherInOrder, Setup, Closing, Holder, KillCgroup,
                Go, Return, sandbox, Unmoved, Quiet, Leaves, Drops
  <2> QED BY <2>2, LeaseStep
<1>3. CASE RemoveSandbox(r)
  <2>1. Unmoved(r) /\ (Quiet(r) \/ Drops(r))
    BY <1>3 DEF IInv, TypeOK, Named, LauncherInOrder, Setup, Closing, Holder, RemoveSandbox,
                Populated, Inhabitants, Return, sandbox, Unmoved, Quiet, Drops
  <2> QED BY <2>1, LeaseStep
<1> QED BY <1>1, <1>2, <1>3

LEMMA ExclusiveStep == Lease!Exclusive /\ Lease!Next => Lease!Exclusive'
<1> SUFFICES ASSUME Lease!Exclusive, Lease!Next PROVE Lease!Exclusive' OBVIOUS
<1>1. PICK r \in Runs :
        \/ \E n \in Pids : Lease!Take(r, n)
        \/ Lease!Enter(r) \/ Lease!Leave(r) \/ Lease!Abandon(r) \/ Lease!Release(r)
  BY DEF Lease!Next
<1>2. CASE \E n \in Pids : Lease!Take(r, n)
  <2> DEFINE lease == [q \in Runs |-> IF Holder(q) THEN pid[q] ELSE "none"]
  <2>1. PICK n \in Pids \ dirs : lease' = [lease EXCEPT ![r] = n] /\ dirs' = dirs \cup {n}
    BY <1>2 DEF Lease!Take
  <2>2. \A q \in Runs \ {r} : lease'[q] = lease[q]
    BY <2>1
  <2>3. lease'[r] = n
    BY <2>1
  <2>4. \A q \in Runs \ {r} : lease[q] # "none" => lease[q] # n
    BY <2>1 DEF Lease!Exclusive
  <2> QED BY <1>2, <2>1, <2>2, <2>3, <2>4 DEF Lease!Exclusive, Lease!Take
<1>3. CASE Lease!Enter(r)
  BY <1>3 DEF Lease!Exclusive, Lease!Enter
<1>4. CASE Lease!Leave(r)
  BY <1>4 DEF Lease!Exclusive, Lease!Leave
<1>5. CASE Lease!Abandon(r) \/ Lease!Release(r)
  BY <1>5 DEF Lease!Exclusive, Lease!Abandon, Lease!Release
<1> QED BY <1>1, <1>2, <1>3, <1>4, <1>5

LEMMA LeaseStutters == UNCHANGED vars => UNCHANGED Lease!leasing
BY DEF vars, sandbox, Lease!leasing, Holder

\* The runs, however many, failing or killed at any point, with any reuse of PIDs, lease
\* their directories' names: every step is a step of DirectoryLease or none.
THEOREM CgroupKeepsLease == Spec => ImplementsLease
<1>1. IInv /\ [Next]_vars => [Lease!Next]_(Lease!leasing)
  BY LeaseOfSetup, LeaseOfRun, LeaseOfCleanup, LeaseStutters DEF Next, Host, Launcher
<1> QED BY LeaseInit, Invariance, <1>1, PTL DEF Spec, ImplementsLease, Lease!Spec

\* What the lease is good for follows from its own steps, whatever implements it: no
\* directory has two holders, and nobody is inside without holding it.
THEOREM LeaseIsExclusive == ImplementsLease => []Lease!Exclusive
<1>1. Lease!Init => Lease!Exclusive
  BY DEF Lease!Init, Lease!Exclusive
<1>2. Lease!Exclusive /\ [Lease!Next]_(Lease!leasing) => Lease!Exclusive'
  BY ExclusiveStep DEF Lease!Exclusive, Lease!leasing
<1> QED BY <1>1, <1>2, PTL DEF ImplementsLease, Lease!Spec
=============================================================================
