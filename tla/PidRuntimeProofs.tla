---------------------------- MODULE PidRuntimeProofs ----------------------------
(***************************************************************************)
(* Safety of a run with a PID namespace, for any processes, signals and    *)
(* failures: the launcher outlives the application, and the launcher and   *)
(* PID1 together implement RunContract.                                    *)
(*                                                                         *)
(* Supervised is the supervisor with what Pid1SupervisorProofs proves of   *)
(* it.  Its definitions are those of PidRuntime's Pid1; the first lemmas   *)
(* say so, and carry the results over.                                     *)
(***************************************************************************)
EXTENDS PidRuntime, TLAPS

Supervised == INSTANCE Pid1SupervisorProofs

USE RuntimeAssumption

LEMMA SameTree ==
    /\ Pid1!TypeOK <=> Supervised!TypeOK
    /\ Pid1!Unreaped = Supervised!Unreaped
    /\ Pid1!Alive = Supervised!Alive
    /\ Pid1!Statuses = Supervised!Statuses
BY DEF Pid1!TypeOK, Pid1!TreeTypeOK, Pid1!Statuses, Pid1!Unreaped, Pid1!Alive,
       Supervised!TypeOK, Supervised!TreeTypeOK, Supervised!Statuses, Supervised!Unreaped,
       Supervised!Alive

LEMMA SameKillpg == ASSUME NEW signal, Pid1!Killpg(signal) PROVE Supervised!Killpg(signal)
BY DEF Pid1!Killpg, Pid1!Die, Pid1!Ends, Pid1!Members,
       Supervised!Killpg, Supervised!Die, Supervised!Ends, Supervised!Members

LEMMA SameApplication == Pid1!Application => Supervised!Application
<1>1. Pid1!Setpgid => Supervised!Setpgid
  BY DEF Pid1!Setpgid, Supervised!Setpgid
<1>2. ASSUME NEW p \in Procs, NEW q \in Procs
      PROVE  /\ Pid1!Spawn(p, q) => Supervised!Spawn(p, q)
             /\ Pid1!ReapOwnChild(p, q) => Supervised!ReapOwnChild(p, q)
             /\ Pid1!LeaveGroup(p) => Supervised!LeaveGroup(p)
             /\ Pid1!Rejoin(p) => Supervised!Rejoin(p)
             /\ Pid1!Exit(p) => Supervised!Exit(p)
  BY DEF Pid1!Spawn, Pid1!ReapOwnChild, Pid1!LeaveGroup, Pid1!Rejoin, Pid1!Exit, Pid1!Reap,
         Pid1!Die, Pid1!Ends, Pid1!Members, Pid1!Departed, Pid1!Alive, Pid1!Unreaped,
         Supervised!Spawn, Supervised!ReapOwnChild, Supervised!LeaveGroup, Supervised!Rejoin,
         Supervised!Exit, Supervised!Reap, Supervised!Die, Supervised!Ends,
         Supervised!Members, Supervised!Departed, Supervised!Alive, Supervised!Unreaped
<1>3. QED
  BY <1>1, <1>2 DEF Pid1!Application, Supervised!Application

LEMMA SameNamespaceEnds == Pid1!NamespaceEnds => Supervised!NamespaceEnds
BY DEF Pid1!NamespaceEnds, Pid1!Unreaped, Pid1!Alive,
       Supervised!NamespaceEnds, Supervised!Unreaped, Supervised!Alive

LEMMA SameInit == Pid1!Init => Supervised!Init
BY DEF Pid1!Init, Pid1!TreeInit, Supervised!Init, Supervised!TreeInit

LEMMA SameSupervisor == Pid1!Supervisor => Supervised!Supervisor
<1> USE DEF Pid1!tree, Pid1!local, Supervised!tree, Supervised!local
<1>1. Pid1!InstallSignalHandlers => Supervised!InstallSignalHandlers
  BY DEF Pid1!InstallSignalHandlers, Supervised!InstallSignalHandlers
<1>2. Pid1!ForwardSignal => Supervised!ForwardSignal
  BY SameKillpg DEF Pid1!ForwardSignal, Supervised!ForwardSignal
<1>3. Pid1!CheckDeadline => Supervised!CheckDeadline
  BY SameKillpg DEF Pid1!CheckDeadline, Pid1!TimeIsUp, Pid1!GraceAfterTimeout,
         Supervised!CheckDeadline, Supervised!TimeIsUp, Supervised!GraceAfterTimeout
<1>4. Pid1!ChildrenOf(Reaper) = Supervised!ChildrenOf(Reaper) /\ Pid1!Reapable = Supervised!Reapable
      /\ (Pid1!Nonblocking <=> Supervised!Nonblocking)
  BY DEF Pid1!ChildrenOf, Pid1!Reapable, Pid1!Nonblocking, Pid1!Unreaped,
         Supervised!ChildrenOf, Supervised!Reapable, Supervised!Nonblocking, Supervised!Unreaped
<1>5. Pid1!ReapChild => Supervised!ReapChild
  BY <1>4 DEF Pid1!ReapChild, Pid1!IsMain, Pid1!GraceAfterExit, Pid1!Members, Pid1!Ends, Pid1!Reap,
         Supervised!ReapChild, Supervised!IsMain, Supervised!GraceAfterExit,
         Supervised!Members, Supervised!Ends, Supervised!Reap
<1>6. Pid1!StillAlive => Supervised!StillAlive
  BY <1>4, SameKillpg DEF Pid1!StillAlive, Supervised!StillAlive
<1>7. /\ Pid1!Block => Supervised!Block
      /\ Pid1!ChildEnds => Supervised!ChildEnds
      /\ Pid1!ReturnResult => Supervised!ReturnResult
  BY <1>4 DEF Pid1!Block, Pid1!ChildEnds, Pid1!ReturnResult, Pid1!NoChildren,
         Supervised!Block, Supervised!ChildEnds, Supervised!ReturnResult,
         Supervised!NoChildren
<1>8. QED
  BY <1>1, <1>2, <1>3, <1>5, <1>6, <1>7 DEF Pid1!Supervisor, Supervised!Supervisor

LEMMA SameNext ==
    Pid1!Supervisor \/ Pid1!Environment \/ Pid1!Time \/ Pid1!Fails => Supervised!Next
<1> USE DEF Pid1!tree, Pid1!local, Supervised!tree, Supervised!local
<1>1. Pid1!Environment => Supervised!Environment
  BY SameApplication DEF Pid1!Environment, Pid1!Signal, Pid1!Deliver,
         Supervised!Environment, Supervised!Signal, Supervised!Deliver
<1>2. Pid1!Time => Supervised!Time
  BY DEF Pid1!Time, Pid1!ExecutionExpires, Pid1!ShutdownExpires,
         Supervised!Time, Supervised!ExecutionExpires, Supervised!ShutdownExpires
<1>3. Pid1!Fails => Supervised!Fails
  BY SameNamespaceEnds DEF Pid1!Fails, Supervised!Fails
<1>4. QED
  BY <1>1, <1>2, <1>3, SameSupervisor DEF Supervised!Next

-----------------------------------------------------------------------------
(* The inductive invariant.                                                *)

\* A PID1 that was killed keeps its supervisor's last state, in which StatusKept
\* fails; what remains true is that nobody is left.
PidOneInv ==
    /\ pid1 = "running" => Supervised!Inv
    /\ pid1 = "killed" =>
        /\ Supervised!TreeInv
        /\ Supervised!Unreaped = {}
        /\ notice = "read"
        /\ spc # "returned"

\* The launcher has an outcome when it has returned; Exited means that PID1 returned
\* by itself, and no notice was read.
OutcomeInv ==
    /\ outcome # "none" <=> lpc = "returned"
    /\ outcome = "Exited" => spc = "returned" /\ notice # "read"
    /\ outcome = "OutputLimitExceeded" => Pid1Ended /\ notice = "read"

Inv == TypeOK /\ PidOneInv /\ OutcomeInv

\* When PID1 has ended, nobody is left and the main process has a status.
LEMMA EndedMeansEmpty ==
    ASSUME Inv, Pid1Ended
    PROVE  Pid1!Unreaped = {} /\ exit_status # "none"
<1>1. Supervised!TreeInv /\ Supervised!Unreaped = {}
  BY DEF Inv, TypeOK, PidOneInv, Pid1Ended, Supervised!Inv, Supervised!ReturnsOnlyWhenEmpty
<1>2. exit_status # "none"
  BY <1>1 DEF Supervised!TreeInv, Supervised!TreeTypeOK, Supervised!Alive, Supervised!Unreaped
<1>3. QED
  BY <1>1, <1>2, SameTree

LEMMA InvInit == Init => Inv
<1> SUFFICES ASSUME Init PROVE Inv
  OBVIOUS
<1>1. Supervised!Inv
  BY SameInit, Supervised!InvInit DEF Init
<1>2. Pid1!TypeOK
  BY <1>1, SameTree DEF Supervised!Inv
<1>3. QED
  BY <1>1, <1>2 DEF Init, Inv, TypeOK, PidOneInv, OutcomeInv

\* PID1, the application, signals and PID1's clock.
LEMMA InvInside ==
    ASSUME Inv,
           Pid1!Supervisor \/ Pid1!Environment \/ Pid1!Time \/ Pid1!Fails,
           pid1 = "running", UNCHANGED <<pid1, launcher>>
    PROVE  Inv'
<1>1. Supervised!Next
  BY SameNext
<1>2. Supervised!Inv /\ Supervised!Inv'
  <2>1. Supervised!Inv
    BY <1>1 DEF Inv, PidOneInv
  <2>2. QED
    BY <1>1, <2>1, Supervised!InvNext
<1>3. Pid1!TypeOK'
  <2>1. (Pid1!TypeOK <=> Supervised!TypeOK)'
    BY SameTree, PTL
  <2>2. QED
    BY <1>2, <2>1 DEF Supervised!Inv
<1>4. TypeOK' /\ PidOneInv'
  BY <1>1, <1>2, <1>3 DEF Inv, TypeOK, PidOneInv, launcher
<1>5. spc = "returned" => spc' = "returned"
  BY DEF Pid1!Supervisor, Pid1!InstallSignalHandlers, Pid1!ForwardSignal,
         Pid1!CheckDeadline, Pid1!ReapChild, Pid1!StillAlive, Pid1!Block, Pid1!ChildEnds,
         Pid1!ReturnResult, Pid1!Environment, Pid1!Signal, Pid1!Time,
         Pid1!ExecutionExpires, Pid1!ShutdownExpires, Pid1!Fails
<1>6. QED
  BY <1>4, <1>5 DEF Inv, OutcomeInv, Pid1Ended, launcher

\* What is true of PID1 and the application stays true while they rest.
LEMMA Undisturbed ==
    ASSUME Inv, UNCHANGED <<application, supervisor, pid1>>
    PROVE  /\ Pid1!TypeOK'
           /\ Supervised!Inv => Supervised!Inv'
           /\ Supervised!TreeInv => Supervised!TreeInv'
           /\ Supervised!Unreaped' = Supervised!Unreaped
<1> USE DEF application, supervisor, flags
<1>1. UNCHANGED Supervised!vars
  BY DEF Supervised!vars, Supervised!tree, Supervised!local
<1>2. Supervised!Inv => Supervised!Inv'
  BY <1>1, Supervised!InvNext
<1>3. Pid1!TypeOK'
  BY DEF Inv, TypeOK, Pid1!TypeOK, Pid1!TreeTypeOK, Pid1!Unreaped, Pid1!Alive
<1>4. /\ Supervised!TreeInv => Supervised!TreeInv'
      /\ Supervised!Unreaped' = Supervised!Unreaped
  BY DEF Supervised!TreeInv, Supervised!TreeTypeOK, Supervised!MainFirst,
         Supervised!WellFounded, Supervised!Unreaped, Supervised!Alive
<1>5. QED
  BY <1>2, <1>3, <1>4

\* The steps of host, clock and launcher that leave PID1 and the application alone.
LEMMA InvOutside ==
    ASSUME Inv, HostNotifies \/ GraceExpires \/ ReapPid1 \/ StillAlive \/ Fails
    PROVE  Inv'
<1>1. UNCHANGED <<application, supervisor, pid1>>
  BY DEF HostNotifies, GraceExpires, ReapPid1, StillAlive, Fails
<1>2. /\ Pid1!TypeOK'
      /\ Supervised!Inv => Supervised!Inv'
      /\ Supervised!TreeInv => Supervised!TreeInv'
      /\ Supervised!Unreaped' = Supervised!Unreaped
  BY <1>1, Undisturbed
<1>3. notice' = notice \/ (notice = "unsent" /\ notice' = "sent")
  BY DEF HostNotifies, GraceExpires, ReapPid1, StillAlive, Fails
<1>4. TypeOK'
  BY <1>1, <1>2 DEF Inv, TypeOK, HostNotifies, GraceExpires, ReapPid1, Outcome, StillAlive, Fails
<1>5. PidOneInv'
  BY <1>1, <1>2, <1>3 DEF Inv, PidOneInv, supervisor
<1>6. OutcomeInv'
  BY <1>1 DEF Inv, PidOneInv, OutcomeInv, Pid1Ended, supervisor, Waitable, HostNotifies, GraceExpires,
              ReapPid1, Outcome, StillAlive, Fails
<1>7. QED
  BY <1>4, <1>5, <1>6 DEF Inv

\* The launcher reads the notice, and its SIGTERM may reach PID1.
LEMMA InvCheckControl == ASSUME Inv, CheckControl PROVE Inv'
<1>1. /\ lpc = "control" /\ lpc' = "waitpid"
      /\ notice' \in {notice, "read"} /\ (notice = "read" => notice' = "read")
      /\ grace_deadline' \in {grace_deadline, "armed"}
      /\ UNCHANGED <<application, sent, flags, pid1, pid1_sigkill, outcome>>
  BY DEF CheckControl
<1>2. \/ UNCHANGED <<spc, received>>
      \/ ~Pid1Ended /\ Pid1!Deliver("TERM")
  BY DEF CheckControl
<1>3. /\ spc' = "returned" <=> spc = "returned"
      /\ spc' \in {spc, "forward"} /\ received' \in {received, "TERM"}
  BY <1>2 DEF Pid1!Deliver, Pid1Ended
<1>4. Pid1!TypeOK'
  BY <1>1, <1>3 DEF Inv, TypeOK, Pid1!TypeOK, Pid1!TreeTypeOK, Pid1!Unreaped, Pid1!Alive,
                    application, flags
<1>5. /\ Supervised!TreeInv => Supervised!TreeInv'
      /\ Supervised!Unreaped' = Supervised!Unreaped
  BY <1>1 DEF application, Supervised!TreeInv, Supervised!TreeTypeOK, Supervised!MainFirst,
              Supervised!WellFounded, Supervised!Unreaped, Supervised!Alive
<1>6. ASSUME Supervised!Inv PROVE Supervised!Inv'
  <2> USE <1>6 DEF Supervised!Inv, application, flags
  <2>1. Supervised!TypeOK'
    <3>1. (Pid1!TypeOK <=> Supervised!TypeOK)'
      BY SameTree, PTL
    <3>2. QED
      BY <1>4, <3>1
  <2>2. Supervised!ReturnsOnlyWhenEmpty' /\ Supervised!StatusKept'
    BY <1>1, <1>3, <1>5 DEF Supervised!ReturnsOnlyWhenEmpty, Supervised!StatusKept
  <2>3. Supervised!Causes'
    BY <1>1, <1>3 DEF Supervised!Causes
  <2>4. QED
    BY <1>5, <2>1, <2>2, <2>3
<1>7. TypeOK' /\ PidOneInv' /\ OutcomeInv'
  BY <1>1, <1>3, <1>4, <1>5, <1>6 DEF Inv, TypeOK, PidOneInv, OutcomeInv, Pid1Ended
<1>8. QED
  BY <1>7 DEF Inv

\* The grace period is over: SIGKILL ends PID1, and the kernel the rest.
LEMMA InvCheckGrace == ASSUME Inv, CheckGrace PROVE Inv'
<1>1. /\ lpc = "grace" /\ lpc' = "control" /\ pid1_sigkill' \in BOOLEAN
      /\ UNCHANGED <<supervisor, notice, grace_deadline, outcome>>
  BY DEF CheckGrace, Inv, TypeOK
<1>2. CASE UNCHANGED <<application, pid1>>
  <2>1. /\ Pid1!TypeOK'
        /\ Supervised!Inv => Supervised!Inv'
        /\ Supervised!TreeInv => Supervised!TreeInv'
        /\ Supervised!Unreaped' = Supervised!Unreaped
    BY <1>1, <1>2, Undisturbed
  <2>2. QED
    BY <1>1, <1>2, <2>1 DEF Inv, TypeOK, PidOneInv, OutcomeInv, Pid1Ended, supervisor
<1>3. CASE GraceIsOver /\ ~Pid1Ended /\ KillNamespace
  <2>1. pid1 = "running" /\ pid1' = "killed" /\ spc # "returned" /\ notice = "read"
    BY <1>3 DEF GraceIsOver, Pid1Ended, KillNamespace, Inv, TypeOK
  <2>2. Supervised!Inv
    BY <2>1 DEF Inv, PidOneInv
  <2>3. /\ Supervised!TreeInv' /\ Supervised!Unreaped' = {}
        /\ exit_status' \in {exit_status, "KILL"}
    BY <1>3, <2>2, SameNamespaceEnds, Supervised!NamespaceEndsKeepsTree
       DEF KillNamespace, Supervised!Inv
  <2>4. Pid1!TypeOK'
    <3>1. Supervised!TypeOK'
      BY <1>1, <2>2, <2>3 DEF Supervised!Inv, Supervised!TypeOK, Supervised!TreeInv,
             Supervised!Statuses, supervisor, flags
    <3>2. (Pid1!TypeOK <=> Supervised!TypeOK)'
      BY SameTree, PTL
    <3>3. QED
      BY <3>1, <3>2
  <2>5. QED
    BY <1>1, <2>1, <2>3, <2>4 DEF Inv, TypeOK, PidOneInv, OutcomeInv, Pid1Ended, supervisor
<1>4. QED
  BY <1>2, <1>3 DEF CheckGrace

LEMMA InvNext == Inv /\ [Next]_vars => Inv'
<1> SUFFICES ASSUME Inv, [Next]_vars PROVE Inv'
  OBVIOUS
<1>1. CASE \/ Inside(Pid1!Supervisor) \/ Inside(Pid1!Environment) \/ Inside(Pid1!Time)
           \/ Inside(Pid1!Fails)
  BY <1>1, InvInside DEF Inside
<1>2. CASE HostNotifies \/ GraceExpires \/ Launcher \/ Fails
  BY <1>2, InvOutside, InvCheckControl, InvCheckGrace DEF Launcher
<1>3. CASE UNCHANGED vars
  <2>1. UNCHANGED <<application, supervisor, pid1>> /\ UNCHANGED launcher
    BY <1>3 DEF vars
  <2>2. QED
    BY <2>1, Undisturbed DEF Inv, TypeOK, PidOneInv, OutcomeInv, Pid1Ended, supervisor,
                             launcher
<1>4. QED
  BY <1>1, <1>2, <1>3 DEF Next

\* The launcher, PID1 and the application keep the invariant, whoever of them fails.
THEOREM Invariance == Spec => []Inv
BY InvInit, InvNext, PTL DEF Spec

\* The variables keep their types, PID1's and the process tree's too when PID1 is killed.
THEOREM TypeCorrect == Spec => []TypeOK
<1>1. Inv => TypeOK
  BY DEF Inv
<1>2. QED
  BY <1>1, Invariance, PTL

\* A launcher that reports an end of the application is the last to go: nothing of
\* the namespace is left, whoever ended it.
THEOREM LauncherIsLast == Spec => []NothingOutlivesLauncher
<1>1. Inv => NothingOutlivesLauncher
  <2> SUFFICES ASSUME Inv, lpc = "returned", outcome # "error" PROVE Pid1!Unreaped = {}
    BY DEF NothingOutlivesLauncher
  <2>1. outcome \in {"Exited", "OutputLimitExceeded"}
    BY DEF Inv, TypeOK, OutcomeInv
  <2>2. Pid1Ended
    BY <2>1 DEF Inv, OutcomeInv, Pid1Ended
  <2>3. QED
    BY <2>2, EndedMeansEmpty
<1>2. QED
  BY <1>1, Invariance, PTL

-----------------------------------------------------------------------------
(* Launcher and PID1 implement the contract.                               *)

LEMMA ContractInit == Init => Contract!Init
BY DEF Init, Pid1!Init, Pid1!TreeInit, Contract!Init, Told

\* While PID1 is at work the launcher has reported nothing but, perhaps, its own end.
LEMMA AtWork ==
    ASSUME Inv, pid1 = "running", spc # "returned"
    PROVE  outcome \in {"none", "error"}
BY DEF Inv, TypeOK, OutcomeInv, Pid1Ended

\* The main process's status is set once, whoever ends it.
LEMMA StatusIsFinal ==
    ASSUME Inv, pid1 = "running",
           Pid1!Supervisor \/ Pid1!Environment \/ Pid1!Time \/ Pid1!Fails
    PROVE  /\ exit_status' \in Pid1!Statuses \cup {"none"}
           /\ exit_status # "none" => exit_status' = exit_status
<1>1. Supervised!Inv /\ Supervised!TreeInv
  BY DEF Inv, PidOneInv, Supervised!Inv
<1>2. exit_status \in Pid1!Statuses \cup {"none"}
  BY <1>1, SameTree DEF Supervised!Inv, Supervised!TypeOK
<1>3. ASSUME NEW signal \in Signals \cup {"TERM", "KILL"}, Pid1!Killpg(signal)
      PROVE  /\ exit_status' \in Pid1!Statuses \cup {"none"}
             /\ exit_status # "none" => exit_status' = exit_status
  <2>1. signal # "none"
    OBVIOUS
  <2>2. Supervised!Killpg(signal)
    BY <1>3, SameKillpg
  <2>3. /\ exit_status' \in {exit_status, signal}
        /\ exit_status # "none" => exit_status' = exit_status
    BY ONLY <1>1, <2>1, <2>2, Supervised!KillpgKeepsTree, RuntimeAssumption
  <2>4. QED
    BY <1>2, <2>3 DEF Pid1!Statuses
<1>4. CASE Pid1!Application
  BY <1>1, <1>2, <1>4, SameApplication, Supervised!ApplicationKeepsTree DEF Pid1!Statuses
<1>5. CASE Pid1!NamespaceEnds
  BY <1>1, <1>2, <1>5, SameNamespaceEnds, Supervised!NamespaceEndsKeepsTree DEF Pid1!Statuses
<1>6. CASE exit_status' = exit_status
  BY <1>2, <1>6
<1>7. received # "none" => received \in Signals
  BY <1>1 DEF Supervised!Inv, Supervised!TypeOK
<1>8. CASE Pid1!Supervisor
  <2>1. \/ exit_status' = exit_status
        \/ Pid1!Killpg("TERM") \/ Pid1!Killpg("KILL")
        \/ received # "none" /\ Pid1!Killpg(received)
    BY <1>8 DEF Pid1!Supervisor, Pid1!InstallSignalHandlers, Pid1!ForwardSignal,
         Pid1!CheckDeadline, Pid1!ReapChild, Pid1!Reap, Pid1!StillAlive, Pid1!Block,
         Pid1!ChildEnds, Pid1!ReturnResult, Pid1!tree
  <2>2. QED
    BY <1>3, <1>6, <1>7, <2>1
<1>9. CASE Pid1!Environment \/ Pid1!Time
  BY <1>4, <1>6, <1>9 DEF Pid1!Environment, Pid1!Signal, Pid1!Time, Pid1!ExecutionExpires,
         Pid1!ShutdownExpires, Pid1!tree
<1>10. QED
  BY <1>5, <1>8, <1>9 DEF Pid1!Fails

\* What PID1 and the application do is the end of the main process, the deadline, or
\* PID1's request to stop; what PID1 returns is told only later.
LEMMA ContractInside ==
    ASSUME Inv, pid1 = "running", UNCHANGED <<pid1, launcher>>,
           Pid1!Supervisor \/ Pid1!Environment \/ Pid1!Time \/ Pid1!Fails
    PROVE  Contract!Next \/ UNCHANGED Contract!contract
<1>1. /\ exit_status' \in Pid1!Statuses \cup {"none"}
      /\ exit_status # "none" => exit_status' = exit_status
  BY StatusIsFinal
<1>2. notice' = notice /\ outcome' = outcome
  BY DEF launcher
<1>3. Told' = Told
  <2>1. CASE spc # "returned"
    BY <1>2, <2>1, AtWork DEF Told
  <2>2. CASE spc = "returned"
    BY <1>2, <2>2 DEF Told, Pid1!Supervisor, Pid1!InstallSignalHandlers, Pid1!ForwardSignal,
         Pid1!CheckDeadline, Pid1!ReapChild, Pid1!StillAlive, Pid1!Block, Pid1!ChildEnds,
         Pid1!ReturnResult, Pid1!Environment, Pid1!Signal, Pid1!Time,
         Pid1!ExecutionExpires, Pid1!ShutdownExpires, Pid1!Fails, Pid1!local
  <2>3. QED
    BY <2>1, <2>2
<1>4. CASE UNCHANGED <<execution_deadline, timeout_triggered>>
  <2>1. CASE exit_status' = exit_status
    BY <1>2, <1>3, <1>4, <2>1 DEF Contract!contract
  <2>2. CASE exit_status' # exit_status
    <3>1. exit_status = "none" /\ exit_status' \in Pid1!Statuses
      BY <1>1, <2>2
    <3>2. Contract!MainEnds
      BY <1>2, <1>3, <1>4, <3>1 DEF Contract!MainEnds
    <3>3. QED
      BY <3>2 DEF Contract!Next
  <2>3. QED
    BY <2>1, <2>2
<1>5. CASE Pid1!ExecutionExpires
  <2>1. /\ execution_deadline = "armed" /\ execution_deadline' = "expired"
        /\ UNCHANGED <<exit_status, timeout_triggered>>
    BY <1>5 DEF Pid1!ExecutionExpires, Pid1!tree
  <2>2. Contract!DeadlinePasses
    BY <1>2, <1>3, <2>1 DEF Contract!DeadlinePasses
  <2>3. QED
    BY <2>2 DEF Contract!Next
<1>6. CASE Pid1!CheckDeadline /\ Pid1!TimeIsUp
  <2>1. /\ execution_deadline = "expired" /\ execution_deadline' = execution_deadline
        /\ ~timeout_triggered /\ timeout_triggered' = TRUE
        /\ spc # "returned"
    BY <1>6 DEF Pid1!CheckDeadline, Pid1!TimeIsUp
  <2>2. Told \in {"none", "error"}
    BY <2>1, AtWork DEF Told
  <2>3. Contract!Ask("timeout")
    BY <1>1, <1>2, <1>3, <2>1, <2>2 DEF Contract!Ask, Contract!Exists, Contract!MayEnd
  <2>4. QED
    BY <2>3 DEF Contract!Next
<1>7. \/ Pid1!ExecutionExpires
      \/ Pid1!CheckDeadline /\ Pid1!TimeIsUp
      \/ UNCHANGED <<execution_deadline, timeout_triggered>>
  BY DEF Pid1!Supervisor, Pid1!InstallSignalHandlers, Pid1!ForwardSignal,
         Pid1!CheckDeadline, Pid1!ReapChild, Pid1!StillAlive, Pid1!Block, Pid1!ChildEnds,
         Pid1!ReturnResult, Pid1!Environment, Pid1!Signal, Pid1!Time,
         Pid1!ShutdownExpires, Pid1!Fails, Pid1!local
<1>8. QED
  BY <1>4, <1>5, <1>6, <1>7

\* The launcher reports what PID1's end tells it: the cause it has acted on, or what
\* PID1 reports, which is a timeout, the main process's status or a failure.
LEMMA ContractReap == ASSUME Inv, ReapPid1 PROVE Contract!Next
<1>1. /\ outcome = "none" /\ Pid1Ended /\ outcome' = Outcome
      /\ UNCHANGED <<application, supervisor, pid1, notice>>
  BY DEF ReapPid1, Waitable, Inv, OutcomeInv
<1>2. exit_status # "none"
  BY <1>1, EndedMeansEmpty
<1>3. Told = "none"
  BY <1>1 DEF Told
<1>4. UNCHANGED <<exit_status, execution_deadline, timeout_triggered, result, main_status>>
  BY <1>1 DEF application, supervisor, flags
<1>5. CASE notice = "read"
  <2>1. Told' = "OutputLimitExceeded"
    BY <1>1, <1>5 DEF Told, Outcome
  <2>2. Contract!Report
    BY <1>1, <1>2, <1>3, <1>4, <1>5, <2>1 DEF Contract!Report, Contract!Cause
  <2>3. QED
    BY <2>2 DEF Contract!Next
<1>6. CASE notice # "read"
  <2>1. pid1 = "running" /\ Supervised!Inv
    BY <1>6 DEF Inv, TypeOK, PidOneInv
  <2>2. Told' = IF result = "TimedOut" THEN "TimedOut"
                ELSE IF result = "Exited" THEN main_status ELSE "error"
    BY <1>1, <1>4, <1>6 DEF Told, Outcome
  <2>3. CASE result = "TimedOut"
    <3>1. timeout_triggered
      BY <2>1, <2>3 DEF Supervised!Inv, Supervised!StatusKept
    <3>2. Contract!Report
      BY <1>1, <1>2, <1>3, <1>4, <1>6, <2>2, <2>3, <3>1 DEF Contract!Report, Contract!Cause
    <3>3. QED
      BY <3>2 DEF Contract!Next
  <2>4. CASE result = "Exited"
    <3>1. ~timeout_triggered
      BY <2>1, <2>4 DEF Supervised!Inv, Supervised!StatusKept
    <3>2. main_status = exit_status
      BY <2>1, <2>4, <1>2 DEF Supervised!Inv, Supervised!StatusKept
    <3>3. Contract!Report
      BY <1>1, <1>2, <1>3, <1>4, <1>6, <2>2, <2>4, <3>1, <3>2
         DEF Contract!Report, Contract!Cause
    <3>4. QED
      BY <3>3 DEF Contract!Next
  <2>5. CASE result \notin {"TimedOut", "Exited"}
    <3>1. Contract!Fails
      BY <1>1, <1>3, <1>4, <2>2, <2>5 DEF Contract!Fails
    <3>2. QED
      BY <3>1 DEF Contract!Next
  <2>6. QED
    BY <2>3, <2>4, <2>5
<1>7. QED
  BY <1>5, <1>6

\* Reading the notice is the request to stop, whether PID1 hears it or not.
LEMMA ContractCheckControl ==
    ASSUME Inv, CheckControl PROVE Contract!Next \/ UNCHANGED Contract!contract
<1>1. /\ outcome = "none" /\ outcome' = "none"
      /\ UNCHANGED <<exit_status, execution_deadline, timeout_triggered>>
  BY DEF CheckControl, Inv, OutcomeInv, application, flags
<1>2. Told = "none" /\ Told' = "none"
  BY <1>1 DEF Told
<1>3. CASE notice = "sent"
  <2>1. notice' = "read"
    BY <1>3 DEF CheckControl
  <2>2. Contract!Ask("limit")
    BY <1>1, <1>2, <1>3, <2>1 DEF Contract!Ask, Contract!Exists, Contract!MayEnd
  <2>3. QED
    BY <2>2 DEF Contract!Next
<1>4. CASE notice # "sent"
  BY <1>1, <1>2, <1>4 DEF CheckControl, Contract!contract
<1>5. QED
  BY <1>3, <1>4

\* SIGKILL to the namespace may end the main process, and reports nothing.
LEMMA ContractCheckGrace ==
    ASSUME Inv, CheckGrace PROVE Contract!Next \/ UNCHANGED Contract!contract
<1>1. /\ outcome = "none" /\ outcome' = "none"
      /\ UNCHANGED <<notice, execution_deadline, timeout_triggered>>
  BY DEF CheckGrace, Inv, OutcomeInv, supervisor, flags
<1>2. Told = "none" /\ Told' = "none"
  BY <1>1 DEF Told
<1>3. \/ exit_status' = exit_status
      \/ exit_status = "none" /\ exit_status' = "KILL"
  <2>1. CASE UNCHANGED application
    BY <2>1 DEF application
  <2>2. CASE ~Pid1Ended /\ KillNamespace
    <3>1. Supervised!TreeInv
      BY <2>2 DEF Inv, TypeOK, PidOneInv, Pid1Ended, Supervised!Inv
    <3>2. Supervised!NamespaceEnds
      BY <2>2, SameNamespaceEnds DEF KillNamespace
    <3>3. QED
      BY <3>1, <3>2, Supervised!NamespaceEndsKeepsTree
  <2>3. QED
    BY <2>1, <2>2 DEF CheckGrace
<1>4. CASE exit_status' = exit_status
  BY <1>1, <1>2, <1>4 DEF Contract!contract
<1>5. CASE exit_status = "none" /\ exit_status' = "KILL"
  <2>1. Contract!MainEnds
    BY <1>1, <1>2, <1>5 DEF Contract!MainEnds, Pid1!Statuses
  <2>2. QED
    BY <2>1 DEF Contract!Next
<1>6. QED
  BY <1>3, <1>4, <1>5

LEMMA ContractStep == Inv /\ [Next]_vars => [Contract!Next]_(Contract!contract)
<1> SUFFICES ASSUME Inv, [Next]_vars PROVE Contract!Next \/ UNCHANGED Contract!contract
  OBVIOUS
<1>1. CASE \/ Inside(Pid1!Supervisor) \/ Inside(Pid1!Environment) \/ Inside(Pid1!Time)
           \/ Inside(Pid1!Fails)
  BY <1>1, ContractInside DEF Inside
<1>2. CASE HostNotifies
  <2>1. /\ notice = "unsent" /\ notice' = "sent"
        /\ UNCHANGED <<exit_status, execution_deadline, timeout_triggered, outcome, result,
                       main_status>>
    BY <1>2 DEF HostNotifies, application, supervisor, flags
  <2>2. Contract!HostNotifies
    BY <2>1 DEF Contract!HostNotifies, Told
  <2>3. QED
    BY <2>2 DEF Contract!Next
<1>3. CASE GraceExpires \/ StillAlive \/ UNCHANGED vars
  <2>1. UNCHANGED <<exit_status, execution_deadline, timeout_triggered, outcome, result,
                   main_status, notice>>
    BY <1>3 DEF GraceExpires, StillAlive, vars, launcher, application, supervisor, flags
  <2>2. QED
    BY <2>1 DEF Contract!contract, Told
<1>4. CASE Launcher
  BY <1>3, <1>4, ContractCheckControl, ContractReap, ContractCheckGrace DEF Launcher
<1>5. CASE Fails
  <2>1. /\ outcome = "none" /\ outcome' = "error"
        /\ UNCHANGED <<exit_status, execution_deadline, timeout_triggered, notice>>
    BY <1>5 DEF Fails, Inv, OutcomeInv, application, supervisor, flags
  <2>2. Contract!Fails
    BY <2>1 DEF Contract!Fails, Told
  <2>3. QED
    BY <2>2 DEF Contract!Next
<1>6. QED
  BY <1>1, <1>2, <1>3, <1>4, <1>5 DEF Next

\* Launcher and PID1 together implement the contract of supervision: every run, with
\* any signals, deadlines, failures and a SIGKILL to the namespace at any point, is a
\* run of RunContract under the mapping of PidRuntime's Contract.
THEOREM RuntimeKeepsContract == Spec => KeepsContract
<1>1. Spec => Contract!Init /\ [][Contract!Next]_(Contract!contract)
  BY ContractInit, ContractStep, Invariance, PTL DEF Spec
<1>2. QED
  BY <1>1 DEF KeepsContract, Contract!Spec

\* Honest is inductive for the steps of the contract, whatever implements them.
LEMMA HonestStep == Contract!Honest /\ [Contract!Next]_(Contract!contract) => Contract!Honest'
<1> USE DEF Contract!Honest, Contract!Exists, Contract!Cause
<1>1. Contract!Honest /\ UNCHANGED Contract!contract => Contract!Honest'
  BY DEF Contract!contract
<1>2. Contract!Honest /\ (Contract!HostNotifies \/ Contract!DeadlinePasses) => Contract!Honest'
  BY DEF Contract!HostNotifies, Contract!DeadlinePasses
<1>3. Contract!Honest /\ Contract!MainEnds => Contract!Honest'
  BY DEF Contract!MainEnds
<1>4. ASSUME NEW cause \in {"limit", "timeout"}
      PROVE  Contract!Honest /\ Contract!Ask(cause) => Contract!Honest'
  BY DEF Contract!Ask, Contract!MayEnd
<1>5. Contract!Honest /\ (Contract!Report \/ Contract!Fails) => Contract!Honest'
  BY DEF Contract!Report, Contract!Fails
<1>6. QED
  BY <1>1, <1>2, <1>3, <1>4, <1>5 DEF Contract!Next

\* A cause the host is told of exists, and the application was asked to stop for it; a
\* status it is told of is that of a main process that has ended, and no cause was acted
\* on; what it is told is never taken back.
THEOREM VerdictIsHonest == Spec => []Contract!Honest /\ Contract!OneVerdict
<1>1. Contract!Init => Contract!Honest
  BY DEF Contract!Init, Contract!Honest
<1>2. Contract!Next => (Told # "none" => UNCHANGED Told)
  BY DEF Contract!Next, Contract!HostNotifies, Contract!DeadlinePasses, Contract!MainEnds,
         Contract!Ask, Contract!Report, Contract!Fails
<1>3. QED
  BY <1>1, <1>2, HonestStep, RuntimeKeepsContract, PTL DEF KeepsContract, Contract!Spec, Contract!OneVerdict
=============================================================================
