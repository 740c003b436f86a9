-------------------------- MODULE Pid1SupervisorProofs --------------------------
(***************************************************************************)
(* Safety of the PID 1 supervisor, for any set of processes, any set of    *)
(* forwarded signals and any number of them.                               *)
(***************************************************************************)
EXTENDS Pid1Supervisor, AppTreeProofs

\* How the supervisor's bookkeeping hangs together: the grace period has a cause,
\* and SIGKILL a grace period.
Causes ==
    /\ timeout_triggered => execution_deadline = "expired"
    /\ execution_deadline = "expired" => pstate[Main] # "unplaced"
    /\ main_status # "none" => pstate[Main] = "reaped"
    /\ shutdown_deadline # "off" => timeout_triggered \/ main_status # "none"
    /\ sigkill_sent => shutdown_deadline # "off"
    /\ result # "none" => spc = "returned"

Inv ==
    /\ TreeInv
    /\ TypeOK
    /\ ReturnsOnlyWhenEmpty
    /\ StatusKept
    /\ Causes

USE TreeAssumption, SupervisorAssumption

\* waitpid fails with ECHILD only when every process has been reaped: a process
\* that is left descends from the Reaper, so one is its child.
LEMMA NoChildrenMeansEmpty == ASSUME TreeInv, NoChildren PROVE Unreaped = {}
<1> SUFFICES ASSUME Unreaped # {} PROVE FALSE
  OBVIOUS
<1>1. PICK p \in Unreaped : parent[p] \notin Unreaped
  BY DEF TreeInv, WellFounded
<1>2. parent[p] = Reaper
  BY <1>1 DEF TreeInv, TreeTypeOK, Unreaped
<1>3. QED
  BY <1>1, <1>2 DEF NoChildren, ChildrenOf

\* Without a process left the application can do nothing.
LEMMA EmptyIsDead == ASSUME TreeInv, Unreaped = {} PROVE ~Application
<1>1. \A p \in Procs : pstate[p] \notin {"unplaced", "running", "zombie"}
  BY DEF Unreaped
<1>2. ~Setpgid
  BY <1>1 DEF Setpgid
<1>3. ASSUME NEW p \in Procs, NEW q \in Procs PROVE ~Spawn(p, q) /\ ~ReapOwnChild(p, q)
  BY <1>1 DEF Spawn, ReapOwnChild
<1>4. ASSUME NEW p \in Procs PROVE ~LeaveGroup(p) /\ ~Rejoin(p) /\ ~Exit(p)
  BY <1>1 DEF LeaveGroup, Rejoin, Exit, Members, Departed, Alive
<1>5. QED
  BY <1>2, <1>3, <1>4 DEF Application

\* Once SIGKILL has been sent the main process is placed: it cannot enter the group
\* any more.
LEMMA KilledMeansPlaced == ASSUME Inv, sigkill_sent PROVE pstate[Main] # "unplaced"
BY DEF Inv, Causes

LEMMA InvInit == Init => Inv
<1> SUFFICES ASSUME Init PROVE Inv
  OBVIOUS
<1>1. TreeInv
  BY TreeInitially DEF Init
<1>2. pstate[Main] = "unplaced" /\ exit_status = "none"
  BY DEF Init, TreeInit
<1>3. TypeOK
  <2>1. sent \in 0 .. MaxSignals /\ execution_deadline \in {"off", "armed", "expired"}
    BY DEF Init
  <2>2. QED
    BY <1>1, <1>2, <2>1 DEF Init, TypeOK, TreeInv
<1>4. ReturnsOnlyWhenEmpty /\ StatusKept /\ Causes
  BY <1>2 DEF Init, ReturnsOnlyWhenEmpty, StatusKept, Causes
<1>5. QED
  BY <1>1, <1>3, <1>4 DEF Inv

\* The application's steps.
LEMMA InvApplication ==
    ASSUME Inv, Application, UNCHANGED <<spc, received, sent, local>> PROVE Inv'
<1> USE DEF Inv, local
<1>1. /\ TreeInv'
      /\ pstate'[Main] = "reaped" <=> pstate[Main] = "reaped"
      /\ exit_status' \in AppStatuses \cup {exit_status}
      /\ pstate[Main] = "reaped" => exit_status' = exit_status
      /\ pstate[Main] # "unplaced" => pstate'[Main] # "unplaced"
  BY ApplicationKeepsTree
<1>2. TypeOK'
  BY <1>1 DEF TypeOK, TreeInv, Statuses
<1>3. ReturnsOnlyWhenEmpty'
  BY EmptyIsDead DEF ReturnsOnlyWhenEmpty
<1>4. StatusKept'
  BY <1>1 DEF StatusKept
<1>5. Causes'
  BY <1>1 DEF Causes
<1>6. QED
  BY <1>1, <1>2, <1>3, <1>4, <1>5

\* Steps that leave the process tree alone: time, signals, and the supervisor's own.
LEMMA InvQuiet ==
    ASSUME Inv,
           \/ ExecutionExpires \/ ShutdownExpires
           \/ \E signal \in Signals : Signal(signal)
           \/ InstallSignalHandlers \/ Block \/ ChildEnds \/ ReturnResult
    PROVE  Inv'
<1> USE DEF Inv, local
<1>1. UNCHANGED tree
  BY DEF ExecutionExpires, ShutdownExpires, Signal, InstallSignalHandlers, Block, ChildEnds,
         ReturnResult
<1>2. /\ TreeInv' /\ Unreaped' = Unreaped /\ Alive' = Alive /\ group' = group
      /\ pstate' = pstate /\ exit_status' = exit_status
  BY <1>1 DEF tree, TreeInv, TreeTypeOK, MainFirst, WellFounded, Unreaped, Alive
<1>3. CASE ExecutionExpires
  BY <1>2, <1>3 DEF ExecutionExpires, TypeOK, TreeInv, ReturnsOnlyWhenEmpty, StatusKept, Causes
<1>4. CASE ShutdownExpires
  BY <1>2, <1>4 DEF ShutdownExpires, TypeOK, TreeInv, ReturnsOnlyWhenEmpty, StatusKept, Causes
<1>5. ASSUME NEW signal \in Signals, Signal(signal) PROVE Inv'
  <2>1. TypeOK'
    BY <1>2, <1>5 DEF Signal, Deliver, TypeOK, TreeInv
  <2>2. QED
    BY <1>2, <1>5, <2>1 DEF Signal, Deliver, ReturnsOnlyWhenEmpty, StatusKept, Causes
<1>6. CASE InstallSignalHandlers \/ Block \/ ChildEnds
  BY <1>2, <1>6 DEF InstallSignalHandlers, Block, ChildEnds, TypeOK, TreeInv,
                    ReturnsOnlyWhenEmpty, StatusKept, Causes
<1>7. CASE ReturnResult
  <2>1. Unreaped = {}
    BY <1>7, NoChildrenMeansEmpty DEF ReturnResult
  <2>2. pstate[Main] = "reaped" /\ exit_status # "none"
    BY <2>1 DEF Unreaped, Alive, TreeInv, TreeTypeOK, MainFirst
  <2>3. main_status # "none"
    BY <1>7, <2>2 DEF ReturnResult, StatusKept, Causes
  <2>4. TypeOK' /\ Causes'
    BY <1>2, <1>7 DEF ReturnResult, TypeOK, TreeInv, Causes
  <2>5. ReturnsOnlyWhenEmpty' /\ StatusKept'
    BY <1>2, <1>7, <2>1, <2>3 DEF ReturnResult, ReturnsOnlyWhenEmpty, StatusKept, Causes
  <2>6. QED
    BY <1>2, <2>4, <2>5
<1>8. QED
  BY <1>3, <1>4, <1>5, <1>6, <1>7

\* Steps that signal the group.
LEMMA InvSignalling ==
    ASSUME Inv, ForwardSignal \/ CheckDeadline \/ StillAlive PROVE Inv'
<1> USE DEF Inv, local
<1>1. ASSUME NEW signal \in Signals \cup {"TERM", "KILL"}, Killpg(signal),
             UNCHANGED <<main_status, execution_deadline, result>>,
             spc # "returned", spc' # "returned"
      PROVE  /\ TreeInv'
             /\ ReturnsOnlyWhenEmpty' /\ StatusKept'
             /\ main_status' # "none" => pstate'[Main] = "reaped"
             /\ exit_status' \in Statuses \cup {"none"}
             /\ pstate[Main] # "unplaced" => pstate'[Main] # "unplaced"
  <2>1. signal # "none"
    OBVIOUS
  <2>2. /\ TreeInv'
        /\ exit_status' \in {exit_status, signal}
        /\ pstate[Main] # "running" => exit_status' = exit_status
        /\ pstate'[Main] = "reaped" <=> pstate[Main] = "reaped"
        /\ pstate[Main] # "unplaced" => pstate'[Main] # "unplaced"
    BY ONLY <1>1, <2>1, TreeInv, KillpgKeepsTree, TreeAssumption
  <2>3. result = "none"
    BY <1>1 DEF Causes
  <2>4. exit_status' \in Statuses \cup {"none"}
    BY <2>2 DEF TypeOK, Statuses
  <2>5. ReturnsOnlyWhenEmpty' /\ StatusKept'
    BY <1>1, <2>2, <2>3 DEF ReturnsOnlyWhenEmpty, StatusKept
  <2>6. main_status' # "none" => pstate'[Main] = "reaped"
    BY <1>1, <2>2 DEF Causes
  <2>7. QED
    BY <2>2, <2>4, <2>5, <2>6
<1>2. ASSUME UNCHANGED tree
      PROVE  /\ TreeInv' /\ Alive' = Alive /\ Unreaped' = Unreaped /\ group' = group
             /\ exit_status' = exit_status /\ pstate' = pstate
  BY <1>2 DEF tree, TreeInv, TreeTypeOK, MainFirst, WellFounded, Unreaped, Alive
<1>3. CASE ForwardSignal
  <2> USE <1>3 DEF ForwardSignal
  <2>1. CASE received = "none"
    BY <1>2, <2>1 DEF TypeOK, TreeInv, ReturnsOnlyWhenEmpty, StatusKept, Causes
  <2>2. CASE received # "none"
    <3>1. received \in Signals /\ Killpg(received)
      BY <2>2 DEF TypeOK
    <3>2. /\ TreeInv' /\ ReturnsOnlyWhenEmpty' /\ StatusKept'
          /\ main_status' # "none" => pstate'[Main] = "reaped"
          /\ exit_status' \in Statuses \cup {"none"}
          /\ pstate[Main] # "unplaced" => pstate'[Main] # "unplaced"
      BY <1>1, <3>1
    <3>3. TypeOK' /\ Causes'
      BY <3>2 DEF TypeOK, TreeInv, Causes
    <3>4. QED
      BY <3>2, <3>3
  <2>3. QED
    BY <2>1, <2>2
<1>4. CASE CheckDeadline
  <2> USE <1>4 DEF CheckDeadline, GraceAfterTimeout
  <2>1. CASE ~TimeIsUp
    BY <1>2, <2>1 DEF TypeOK, TreeInv, ReturnsOnlyWhenEmpty, StatusKept, Causes
  <2>2. CASE TimeIsUp
    <3>1. /\ TreeInv' /\ ReturnsOnlyWhenEmpty' /\ StatusKept'
          /\ main_status' # "none" => pstate'[Main] = "reaped"
          /\ exit_status' \in Statuses \cup {"none"}
          /\ pstate[Main] # "unplaced" => pstate'[Main] # "unplaced"
      BY <1>1, <2>2
    <3>2. TypeOK'
      BY <2>2, <3>1 DEF TypeOK, TreeInv
    <3>3. Causes'
      BY <2>2, <3>1 DEF Causes, TimeIsUp
    <3>4. QED
      BY <3>1, <3>2, <3>3
  <2>3. QED
    BY <2>1, <2>2
<1>5. CASE StillAlive
  <2> USE <1>5 DEF StillAlive
  <2>1. CASE ~(shutdown_deadline = "expired" /\ ~sigkill_sent)
    BY <1>2, <2>1 DEF TypeOK, TreeInv, ReturnsOnlyWhenEmpty, StatusKept, Causes
  <2>2. CASE shutdown_deadline = "expired" /\ ~sigkill_sent
    <3>1. /\ TreeInv' /\ ReturnsOnlyWhenEmpty' /\ StatusKept'
          /\ main_status' # "none" => pstate'[Main] = "reaped"
          /\ exit_status' \in Statuses \cup {"none"}
          /\ pstate[Main] # "unplaced" => pstate'[Main] # "unplaced"
      BY <1>1, <2>2
    <3>2. TypeOK' /\ Causes'
      BY <2>2, <3>1 DEF TypeOK, TreeInv, Causes
    <3>3. QED
      BY <3>1, <3>2
  <2>3. QED
    BY <2>1, <2>2
<1>6. QED
  BY <1>3, <1>4, <1>5

\* The status of a child is collected.
LEMMA InvReapChild == ASSUME Inv, ReapChild PROVE Inv'
<1> USE DEF Inv
<1>1. PICK p \in Reapable :
        IF IsMain(p)
        THEN /\ main_status' = exit_status
             /\ shutdown_deadline' = GraceAfterExit
             /\ \E dead \in SUBSET Members : Ends(dead, {p})
             /\ UNCHANGED exit_status
        ELSE Reap(p) /\ UNCHANGED <<main_status, shutdown_deadline>>
  BY DEF ReapChild
<1>2. /\ spc = "waitpid" /\ spc' = "forward"
      /\ UNCHANGED <<received, sent, execution_deadline, timeout_triggered, sigkill_sent, result>>
  BY DEF ReapChild
<1>3. {p} \in SUBSET {q \in Procs : pstate[q] = "zombie"} /\ pstate[p] = "zombie" /\ p \in Procs
  BY DEF Reapable, ChildrenOf, Unreaped
<1>4. PICK dead \in SUBSET Members : Ends(dead, {p}) /\ (p # Main => dead = {})
  BY <1>1 DEF IsMain, Reap
<1>5. exit_status' = exit_status /\ dead \in SUBSET Alive
  BY <1>1 DEF Reap, Members, Alive, TypeOK, TreeTypeOK
<1>6. exit_status' = "none" <=> exit_status = "none" /\ Main \notin dead
  <2>1. Main \in dead => exit_status # "none"
    <3>1. Main \in dead => p = Main
      BY <1>4
    <3>2. Main \in dead => pstate[Main] = "running"
      BY <1>4 DEF Members
    <3>3. QED
      BY <1>3, <3>1, <3>2
  <2>2. QED
    BY <1>5, <2>1
<1>7. TreeInv' /\ Alive' = Alive \ dead /\ group' = group
  BY <1>3, <1>4, <1>5, <1>6, EndsKeepsTree
<1>8. /\ p = Main => pstate'[Main] = "reaped"
      /\ p # Main => pstate'[Main] = pstate[Main]
      /\ pstate[Main] # "unplaced" => pstate'[Main] # "unplaced"
  BY <1>3, <1>4 DEF Ends, Alive
<1>9. /\ p = Main => main_status' = exit_status /\ shutdown_deadline' = "armed"
      /\ p # Main => UNCHANGED <<main_status, shutdown_deadline>>
  BY <1>1 DEF IsMain, GraceAfterExit
<1>10. p = Main => exit_status # "none"
  BY <1>3 DEF TypeOK, TreeTypeOK, Alive
<1>11. TypeOK'
  BY <1>2, <1>5, <1>7, <1>9 DEF TypeOK, TreeInv
<1>12. StatusKept' /\ ReturnsOnlyWhenEmpty'
  BY <1>2, <1>5, <1>7, <1>8, <1>9 DEF StatusKept, ReturnsOnlyWhenEmpty, Causes
<1>13. Causes'
  BY <1>2, <1>5, <1>8, <1>9, <1>10 DEF Causes
<1>14. QED
  BY <1>7, <1>11, <1>12, <1>13

\* PID1 ends without a result, and takes the application with it.
LEMMA InvFails == ASSUME Inv, Fails PROVE Inv'
<1> USE DEF Inv
<1>1. /\ TreeInv' /\ Unreaped' = {} /\ Alive' = {} /\ pstate'[Main] = "reaped"
      /\ exit_status' \in {exit_status, "KILL"}
  BY NamespaceEndsKeepsTree DEF Fails
<1>2. /\ spc' = "returned" /\ result' = "error"
      /\ UNCHANGED <<received, sent, execution_deadline, shutdown_deadline,
                     timeout_triggered, main_status, sigkill_sent>>
  BY DEF Fails
<1>3. TypeOK'
  BY <1>1, <1>2 DEF TypeOK, TreeInv, Statuses
<1>4. ReturnsOnlyWhenEmpty' /\ StatusKept' /\ Causes'
  BY <1>1, <1>2 DEF ReturnsOnlyWhenEmpty, StatusKept, Causes
<1>5. QED
  BY <1>1, <1>3, <1>4

LEMMA InvNext == Inv /\ [Next]_vars => Inv'
<1> SUFFICES ASSUME Inv, [Next]_vars PROVE Inv'
  OBVIOUS
<1>1. CASE Supervisor
  BY <1>1, InvQuiet, InvSignalling, InvReapChild DEF Supervisor
<1>2. CASE Environment \/ Time
  BY <1>2, InvQuiet, InvApplication DEF Environment, Time
<1>3. CASE UNCHANGED vars
  BY <1>3 DEF vars, tree, local, Inv, TreeInv, TreeTypeOK, MainFirst, WellFounded, Unreaped,
              Alive, TypeOK, ReturnsOnlyWhenEmpty, StatusKept, Causes
<1>4. CASE Fails
  BY <1>4, InvFails
<1>5. QED
  BY <1>1, <1>2, <1>3, <1>4 DEF Next

\* PID1's causes, deadlines and the process tree agree until it returns or fails.
THEOREM Invariance == Spec => []Inv
BY InvInit, InvNext, PTL DEF Spec

\* The variables keep their types and the processes a tree, however many processes
\* the application starts and signals arrive.
THEOREM TypeCorrect == Spec => []TypeOK
<1>1. Inv => TypeOK
  BY DEF Inv
<1>2. QED
  BY <1>1, Invariance, PTL

\* PID1 never ends while a process of the application is left, and always has the
\* main process's status when it ends.
THEOREM NobodyLeftBehind == Spec => []ReturnsOnlyWhenEmpty
<1>1. Inv => ReturnsOnlyWhenEmpty
  BY DEF Inv
<1>2. QED
  BY <1>1, Invariance, PTL

-----------------------------------------------------------------------------
(* What a step may not do.                                                 *)

LEMMA TimeoutStep == Inv /\ [Next]_vars => [TimeoutOfUnreaped]_vars
<1> SUFFICES ASSUME Inv, Next, timeout_triggered' # timeout_triggered
             PROVE  execution_deadline = "expired" /\ pstate[Main] # "reaped"
  BY DEF TimeoutOfUnreaped
<1>1. CheckDeadline /\ TimeIsUp
  BY DEF Next, Supervisor, Environment, Time, Signal, InstallSignalHandlers, ForwardSignal,
         CheckDeadline, ReapChild, StillAlive, Block, ChildEnds, ReturnResult, Fails,
         ExecutionExpires, ShutdownExpires, local
<1>2. execution_deadline = "expired" /\ main_status = "none" /\ spc = "deadline"
  BY <1>1 DEF CheckDeadline, TimeIsUp
<1>3. result # "error"
  BY <1>2 DEF Inv, Causes
<1>4. pstate[Main] = "reaped" => exit_status = "none"
  BY <1>2, <1>3 DEF Inv, StatusKept
<1>5. exit_status = "none" => pstate[Main] # "reaped"
  BY DEF Inv, TreeInv, TreeTypeOK, Alive
<1>6. QED
  BY <1>2, <1>4, <1>5

\* A step of anybody but the application brings nobody into the group.
LEMMA KillStep == Inv /\ [Next]_vars => [KilledOnce]_vars
<1> SUFFICES ASSUME Inv, Next PROVE KilledOnce
  OBVIOUS
<1> USE DEF Inv, local
<1>1. CASE Application /\ UNCHANGED local
  <2>1. sigkill_sent' = sigkill_sent
    BY <1>1
  <2>2. sigkill_sent => pstate[Main] # "unplaced"
    BY KilledMeansPlaced
  <2>3. sigkill_sent /\ Alive \cap group = {} => Alive' \cap group' \subseteq Departed
    BY <1>1, <2>2, ApplicationKeepsTree
  <2>4. QED
    BY <2>1, <2>3 DEF KilledOnce
<1>2. ASSUME Alive' \subseteq Alive, group' = group,
             ~sigkill_sent /\ sigkill_sent' => Alive' \cap group' = {}
      PROVE  KilledOnce
  BY <1>2 DEF KilledOnce
<1>3. ASSUME NEW signal \in Signals \cup {"TERM", "KILL"}, Killpg(signal)
      PROVE  /\ Alive' \subseteq Alive /\ group' = group
             /\ signal = "KILL" => Alive' \cap group' = {}
  <2>1. signal # "none"
    OBVIOUS
  <2>2. QED
    BY ONLY <1>3, <2>1, TreeInv, KillpgKeepsTree, TreeAssumption
<1>4. UNCHANGED tree => Alive' = Alive /\ group' = group
  BY DEF tree, Alive
<1>5. CASE ForwardSignal
  <2>1. received = "none" \/ received \in Signals
    BY DEF TypeOK
  <2>2. QED
    BY <1>2, <1>3, <1>4, <1>5, <2>1 DEF ForwardSignal
<1>6. CASE CheckDeadline
  BY <1>2, <1>3, <1>4, <1>6 DEF CheckDeadline
<1>7. CASE StillAlive
  BY <1>2, <1>3, <1>4, <1>7 DEF StillAlive
<1>8. CASE ReapChild
  <2>1. PICK p \in Reapable, dead \in SUBSET Members : Ends(dead, {p})
    BY <1>8 DEF ReapChild, Reap
  <2>2. group' = group /\ Alive' \subseteq Alive
    BY <2>1 DEF Ends, Reapable, ChildrenOf, Alive, TreeInv, TreeTypeOK
  <2>3. QED
    BY <1>2, <1>8, <2>2 DEF ReapChild
<1>9. CASE Fails
  BY <1>2, <1>9, NamespaceEndsKeepsTree DEF Fails, NamespaceEnds
<1>10. CASE Time \/ (\E signal \in Signals : Signal(signal)) \/ InstallSignalHandlers
            \/ Block \/ ChildEnds \/ ReturnResult
  BY <1>2, <1>4, <1>10 DEF Time, ExecutionExpires, ShutdownExpires, Signal,
     InstallSignalHandlers, Block, ChildEnds, ReturnResult
<1>11. QED
  BY <1>1, <1>5, <1>6, <1>7, <1>8, <1>9, <1>10 DEF Next, Supervisor, Environment

\* The reported status is the main process's, and a reported timeout that of a main
\* process not yet reaped.
THEOREM VerdictCorrect == Spec => StatusIsMains
<1>1. Inv => StatusKept
  BY DEF Inv
<1>2. QED
  BY <1>1, TimeoutStep, Invariance, PTL DEF Spec, StatusIsMains

\* A single SIGKILL empties the application's process group, and the first process that
\* is in it again was not started there but had left it and came back.
THEOREM OneSigkillSuffices == Spec => SigkillEmptiesGroup
BY KillStep, Invariance, PTL DEF Spec, SigkillEmptiesGroup
=============================================================================
