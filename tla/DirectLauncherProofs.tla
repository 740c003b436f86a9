-------------------------- MODULE DirectLauncherProofs --------------------------
(***************************************************************************)
(* Safety of the launcher of a run without a PID namespace, for any set of *)
(* application processes.                                                  *)
(***************************************************************************)
EXTENDS DirectLauncher, AppTreeProofs

\* Why the launcher acts: each trigger has its cause, the grace period a trigger,
\* SIGKILL a trigger; and none of it happens before the main process is placed.
Causes ==
    /\ timeout_triggered => execution_deadline = "expired"
    /\ output_limit_triggered <=> notice = "read"
    /\ execution_deadline = "expired" \/ notice # "unsent" => pstate[Main] # "unplaced"
    /\ shutdown_deadline # "off" => timeout_triggered \/ output_limit_triggered
    /\ sigkill_sent => timeout_triggered \/ output_limit_triggered
    /\ result # "none" <=> lpc = "returned"
    /\ result = "Exited" => pstate[Main] = "reaped"

Inv ==
    /\ TreeInv
    /\ TypeOK
    /\ VerdictMatchesCause
    /\ Causes

USE TreeAssumption

LEMMA InvInit == Init => Inv
<1> SUFFICES ASSUME Init PROVE Inv
  OBVIOUS
<1>1. TreeInv
  BY TreeInitially DEF Init
<1>2. TypeOK
  BY <1>1 DEF Init, TypeOK, TreeInv
<1>3. VerdictMatchesCause /\ Causes
  BY DEF Init, VerdictMatchesCause, Causes
<1>4. QED
  BY <1>1, <1>2, <1>3 DEF Inv

\* The application's steps.
LEMMA InvApplication == ASSUME Inv, Application, UNCHANGED launch PROVE Inv'
<1> USE DEF Inv, launch, deadlines, triggers
<1>1. /\ TreeInv'
      /\ pstate'[Main] = "reaped" <=> pstate[Main] = "reaped"
      /\ pstate[Main] # "unplaced" => pstate'[Main] # "unplaced"
  BY ApplicationKeepsTree
<1>2. TypeOK' /\ VerdictMatchesCause' /\ Causes'
  BY <1>1 DEF TypeOK, TreeInv, VerdictMatchesCause, Causes
<1>3. QED
  BY <1>1, <1>2

\* The steps that send no signal.
LEMMA InvQuiet ==
    ASSUME Inv,
           ExecutionExpires \/ ShutdownExpires \/ HostNotifies \/ ChooseFlags \/ StillAlive
           \/ Fails
    PROVE  Inv'
<1> USE DEF Inv, deadlines, triggers
<1>1. UNCHANGED tree
  BY DEF ExecutionExpires, ShutdownExpires, HostNotifies, ChooseFlags, StillAlive, Fails
<1>2. TreeInv' /\ Alive' = Alive /\ group' = group /\ pstate' = pstate
  BY <1>1 DEF tree, TreeInv, TreeTypeOK, MainFirst, WellFounded, Unreaped, Alive
<1>3. CASE ExecutionExpires \/ ShutdownExpires
  <2>1. TypeOK'
    BY <1>2, <1>3 DEF ExecutionExpires, ShutdownExpires, TypeOK, TreeInv
  <2>2. QED
    BY <1>2, <1>3, <2>1 DEF ExecutionExpires, ShutdownExpires, VerdictMatchesCause, Causes
<1>4. CASE HostNotifies
  <2>1. TypeOK'
    BY <1>2, <1>4 DEF HostNotifies, TypeOK, TreeInv
  <2>2. QED
    BY <1>2, <1>4, <2>1 DEF HostNotifies, VerdictMatchesCause, Causes
<1>5. CASE ChooseFlags \/ StillAlive
  <2>1. TypeOK'
    BY <1>2, <1>5 DEF ChooseFlags, StillAlive, TypeOK, TreeInv
  <2>2. QED
    BY <1>2, <1>5, <2>1 DEF ChooseFlags, StillAlive, VerdictMatchesCause, Causes
<1>6. CASE Fails
  <2>1. TypeOK'
    BY <1>2, <1>6 DEF Fails, TypeOK, TreeInv
  <2>2. QED
    BY <1>2, <1>6, <2>1 DEF Fails, VerdictMatchesCause, Causes
<1>7. QED
  BY <1>3, <1>4, <1>5, <1>6

\* The steps that may signal the group.
LEMMA InvSignalling ==
    ASSUME Inv, CheckControl \/ CheckTimeout \/ CheckGrace PROVE Inv'
<1> USE DEF Inv, deadlines, triggers
<1>1. ASSUME NEW signal \in {"TERM", "KILL"}, Killpg(signal)
      PROVE  /\ TreeInv'
             /\ pstate[Main] # "unplaced" => pstate'[Main] # "unplaced"
  <2>1. signal # "none"
    OBVIOUS
  <2>2. QED
    BY ONLY <1>1, <2>1, TreeInv, KillpgKeepsTree, TreeAssumption
<1>2. ASSUME UNCHANGED tree
      PROVE  TreeInv' /\ Alive' = Alive /\ group' = group /\ pstate' = pstate
  BY <1>2 DEF tree, TreeInv, TreeTypeOK, MainFirst, WellFounded, Unreaped, Alive
<1>3. /\ TreeInv'
      /\ pstate[Main] # "unplaced" => pstate'[Main] # "unplaced"
  BY <1>1, <1>2 DEF CheckControl, CheckTimeout, CheckGrace
<1>4. lpc # "returned" /\ result' = result
  BY DEF CheckControl, CheckTimeout, CheckGrace
<1>5. CASE CheckControl
  BY <1>3, <1>4, <1>5 DEF CheckControl, LimitRequested, TypeOK, TreeInv, VerdictMatchesCause,
                          Causes
<1>6. CASE CheckTimeout
  BY <1>3, <1>4, <1>6 DEF CheckTimeout, TimeIsUp, TypeOK, TreeInv, VerdictMatchesCause, Causes
<1>7. CASE CheckGrace
  BY <1>3, <1>4, <1>7 DEF CheckGrace, TypeOK, TreeInv, VerdictMatchesCause, Causes
<1>8. QED
  BY <1>5, <1>6, <1>7

\* The main process's status is collected.
LEMMA InvReapMain == ASSUME Inv, ReapMain PROVE Inv'
<1> USE DEF Inv, deadlines, triggers
<1>1. /\ {Main} \in SUBSET {p \in Procs : pstate[p] = "zombie"}
      /\ Ends({}, {Main}) /\ exit_status' = exit_status
      /\ lpc' = "returned" /\ result' = Verdict
      /\ UNCHANGED <<notice, use_nonblocking, deadlines, triggers>>
  BY DEF ReapMain, MainEnded, Reap
<1>2. exit_status' = "none" <=> exit_status = "none" /\ Main \notin {}
  BY <1>1
<1>3. TreeInv' /\ Alive' = Alive \ {} /\ group' = group
  BY <1>1, <1>2, EndsKeepsTree
<1>4. pstate'[Main] = "reaped"
  BY <1>1 DEF Ends
<1>5. TypeOK' /\ VerdictMatchesCause' /\ Causes'
  BY <1>1, <1>3, <1>4 DEF TypeOK, TreeInv, Verdict, VerdictMatchesCause, Causes
<1>6. QED
  BY <1>3, <1>5

LEMMA InvNext == Inv /\ [Next]_vars => Inv'
<1> SUFFICES ASSUME Inv, [Next]_vars PROVE Inv'
  OBVIOUS
<1>1. CASE Next
  BY <1>1, InvApplication, InvQuiet, InvSignalling, InvReapMain DEF Next, Launcher
<1>2. CASE UNCHANGED vars
  BY <1>2 DEF vars, tree, launch, deadlines, triggers, Inv, TreeInv, TreeTypeOK, MainFirst,
              WellFounded, Unreaped, Alive, TypeOK, VerdictMatchesCause,
              Causes
<1>3. QED
  BY <1>1, <1>2

\* Verdict, triggers, deadlines and the process tree agree, whoever fails or ends first.
THEOREM Invariance == Spec => []Inv
BY InvInit, InvNext, PTL DEF Spec

\* The variables keep their types and the processes a tree.
THEOREM TypeCorrect == Spec => []TypeOK
<1>1. Inv => TypeOK
  BY DEF Inv
<1>2. QED
  BY <1>1, Invariance, PTL

\* The launcher reports the cause it acted on, in whatever order deadline, notice and
\* the end of the main process come.
THEOREM VerdictCorrect == Spec => []VerdictMatchesCause
<1>1. Inv => VerdictMatchesCause
  BY DEF Inv
<1>2. QED
  BY <1>1, Invariance, PTL

\* A step of anybody but the application brings nobody into the group.
LEMMA KillStep == Inv /\ [Next]_vars => [KilledOnce]_vars
<1> SUFFICES ASSUME Inv, Next PROVE KilledOnce
  OBVIOUS
<1> USE DEF Inv, deadlines, triggers
<1>1. CASE Application /\ UNCHANGED launch
  <2>1. sigkill_sent' = sigkill_sent
    BY <1>1 DEF launch
  <2>2. sigkill_sent => pstate[Main] # "unplaced"
    BY DEF Causes
  <2>3. sigkill_sent /\ Alive \cap group = {} => Alive' \cap group' \subseteq Departed
    BY <1>1, <2>2, ApplicationKeepsTree
  <2>4. QED
    BY <2>1, <2>3 DEF KilledOnce
<1>2. ASSUME Alive' \subseteq Alive, group' = group,
             ~sigkill_sent /\ sigkill_sent' => Alive' \cap group' = {}
      PROVE  KilledOnce
  BY <1>2 DEF KilledOnce
<1>3. ASSUME NEW signal \in {"TERM", "KILL"}, Killpg(signal)
      PROVE  /\ Alive' \subseteq Alive /\ group' = group
             /\ signal = "KILL" => Alive' \cap group' = {}
  <2>1. signal # "none"
    OBVIOUS
  <2>2. QED
    BY ONLY <1>3, <2>1, TreeInv, KillpgKeepsTree, TreeAssumption
<1>4. UNCHANGED tree => Alive' = Alive /\ group' = group
  BY DEF tree, Alive
<1>5. CASE CheckControl \/ CheckTimeout
  BY <1>2, <1>3, <1>4, <1>5 DEF CheckControl, CheckTimeout
<1>6. CASE CheckGrace
  BY <1>2, <1>3, <1>4, <1>6 DEF CheckGrace
<1>7. CASE ReapMain
  <2>1. group' = group /\ Alive' \subseteq Alive
    BY <1>7 DEF ReapMain, Reap, Ends, Alive
  <2>2. QED
    BY <1>2, <1>7, <2>1 DEF ReapMain
<1>8. CASE ChooseFlags \/ StillAlive \/ HostNotifies \/ ExecutionExpires \/ ShutdownExpires
           \/ Fails
  BY <1>2, <1>4, <1>8 DEF ChooseFlags, StillAlive, HostNotifies, ExecutionExpires,
                          ShutdownExpires, Fails
<1>9. QED
  BY <1>1, <1>5, <1>6, <1>7, <1>8 DEF Next, Launcher

\* A single SIGKILL empties the application's process group, and the first process that
\* is in it again was not started there but had left it and came back.
THEOREM OneSigkillSuffices == Spec => SigkillEmptiesGroup
BY KillStep, Invariance, PTL DEF Spec, SigkillEmptiesGroup

\* An expired grace period is never armed again.
THEOREM GraceIsFinal == Spec => GraceNotRestarted
<1>1. Inv /\ [Next]_vars => [shutdown_deadline = "expired" => UNCHANGED shutdown_deadline]_vars
  <2> SUFFICES ASSUME Inv, Next, shutdown_deadline = "expired"
               PROVE  UNCHANGED shutdown_deadline
    OBVIOUS
  <2>1. timeout_triggered \/ output_limit_triggered
    BY DEF Inv, Causes
  <2>2. QED
    BY <2>1 DEF Next, Launcher, CheckControl, CheckTimeout, CheckGrace, ReapMain, StillAlive,
                ChooseFlags, HostNotifies, ExecutionExpires, ShutdownExpires, Fails, LimitRequested,
                TimeIsUp, launch, deadlines, Inv, TypeOK
<1>2. QED
  BY <1>1, Invariance, PTL DEF Spec, GraceNotRestarted

-----------------------------------------------------------------------------
(* The launcher implements the contract.                                   *)

LEMMA ContractInit == Init => Contract!Init
<1> SUFFICES ASSUME Init PROVE Contract!Init
  OBVIOUS
<1>1. exit_status = "none"
  BY DEF Init, TreeInit
<1>2. QED
  BY <1>1 DEF Init, Contract!Init

\* A signal to the group changes the main process's status at most once.
LEMMA SignalledStatus ==
    ASSUME Inv, NEW signal \in {"TERM", "KILL"}, Killpg(signal)
    PROVE  /\ exit_status' \in {exit_status, signal}
           /\ exit_status # "none" => exit_status' = exit_status
<1>1. signal # "none" /\ TreeInv
  BY DEF Inv
<1>2. QED
  BY ONLY <1>1, Killpg(signal), KillpgKeepsTree, TreeAssumption

\* Steps without a counterpart in the contract, or with the end of the main process.
LEMMA ContractStutters ==
    ASSUME Inv,
           \/ Application /\ UNCHANGED launch
           \/ ChooseFlags \/ StillAlive \/ ShutdownExpires \/ CheckGrace
    PROVE  Contract!MainEnds \/ UNCHANGED Contract!contract
<1>1. /\ exit_status' \in AppStatuses \cup {exit_status, "KILL"}
      /\ exit_status # "none" => exit_status' = exit_status
  <2>1. CASE Application
    BY <2>1, ApplicationKeepsTree DEF Inv
  <2>2. CASE UNCHANGED tree
    BY <2>2 DEF tree
  <2>3. CASE Killpg("KILL")
    BY <2>3, SignalledStatus
  <2>4. QED
    BY <2>1, <2>2, <2>3 DEF ChooseFlags, StillAlive, ShutdownExpires, CheckGrace
<1>2. UNCHANGED <<notice, execution_deadline, timeout_triggered, output_limit_triggered, result>>
  BY DEF launch, deadlines, triggers, ChooseFlags, StillAlive, ShutdownExpires, CheckGrace
<1>3. result = "Exited" => exit_status # "none"
  BY DEF Inv, Causes, TreeInv, TreeTypeOK, Alive
<1>4. QED
  BY <1>1, <1>2, <1>3 DEF Contract!MainEnds, Contract!contract

LEMMA ContractStep == Inv /\ [Next]_vars => [Contract!Next]_(Contract!contract)
<1> SUFFICES ASSUME Inv, [Next]_vars
             PROVE  Contract!Next \/ UNCHANGED Contract!contract
  OBVIOUS
<1>1. CASE HostNotifies
  <2>1. /\ notice = "unsent" /\ notice' = "sent"
        /\ UNCHANGED <<execution_deadline, timeout_triggered, output_limit_triggered, result,
                       exit_status>>
    BY <1>1 DEF HostNotifies, tree, deadlines, triggers
  <2>2. Contract!HostNotifies
    BY <2>1 DEF Contract!HostNotifies
  <2>3. QED
    BY <2>2 DEF Contract!Next
<1>2. CASE ExecutionExpires
  <2>1. /\ execution_deadline = "armed" /\ execution_deadline' = "expired"
        /\ UNCHANGED <<notice, timeout_triggered, output_limit_triggered, result, exit_status>>
    BY <1>2 DEF ExecutionExpires, tree, triggers
  <2>2. Contract!DeadlinePasses
    BY <2>1 DEF Contract!DeadlinePasses
  <2>3. QED
    BY <2>2 DEF Contract!Next
<1>3. CASE CheckControl
  <2> USE <1>3 DEF CheckControl, deadlines, triggers
  <2>1. CASE ~LimitRequested
    BY <2>1 DEF Contract!contract, tree
  <2>2. CASE LimitRequested
    <3>1. /\ exit_status' \in {exit_status, "TERM"}
          /\ exit_status # "none" => exit_status' = exit_status
      BY <2>2, SignalledStatus
    <3>2. /\ notice = "sent" /\ notice' = "read" /\ output_limit_triggered' = TRUE
          /\ ~output_limit_triggered /\ result = "none" /\ result' = "none"
          /\ UNCHANGED <<execution_deadline, timeout_triggered>>
      BY <2>2 DEF LimitRequested, Inv, Causes
    <3>3. Contract!Ask("limit")
      BY <3>1, <3>2 DEF Contract!Ask, Contract!Exists, Contract!MayEnd
    <3>4. QED
      BY <3>3 DEF Contract!Next
  <2>3. QED
    BY <2>1, <2>2
<1>4. CASE CheckTimeout
  <2> USE <1>4 DEF CheckTimeout
  <2>1. CASE ~TimeIsUp
    BY <2>1 DEF Contract!contract, tree
  <2>2. CASE TimeIsUp
    <3>1. /\ exit_status' \in {exit_status, "TERM"}
          /\ exit_status # "none" => exit_status' = exit_status
      BY <2>2, SignalledStatus
    <3>2. /\ execution_deadline = "expired" /\ timeout_triggered' = TRUE
          /\ ~timeout_triggered /\ result = "none" /\ result' = "none"
          /\ UNCHANGED <<notice, execution_deadline, output_limit_triggered>>
      BY <2>2 DEF TimeIsUp, Inv, Causes
    <3>3. Contract!Ask("timeout")
      BY <3>1, <3>2 DEF Contract!Ask, Contract!Exists, Contract!MayEnd
    <3>4. QED
      BY <3>3 DEF Contract!Next
  <2>3. QED
    BY <2>1, <2>2
<1>5. CASE ReapMain
  <2>1. /\ result = "none" /\ result' = Verdict /\ exit_status' = exit_status
        /\ UNCHANGED <<notice, execution_deadline, timeout_triggered, output_limit_triggered>>
    BY <1>5 DEF ReapMain, Reap, deadlines, triggers, Inv, Causes
  <2>2. exit_status # "none"
    BY <1>5 DEF ReapMain, MainEnded, Inv, TreeInv, TreeTypeOK, Alive
  <2>3. Contract!Report
    BY <2>1, <2>2 DEF Contract!Report, Contract!Cause, Verdict
  <2>4. QED
    BY <2>3 DEF Contract!Next
<1>6. CASE Fails
  <2>1. /\ result = "none" /\ result' = "error"
        /\ UNCHANGED <<exit_status, notice, execution_deadline, timeout_triggered,
                       output_limit_triggered>>
    BY <1>6 DEF Fails, tree, deadlines, triggers, Inv, Causes
  <2>2. Contract!Fails
    BY <2>1 DEF Contract!Fails
  <2>3. QED
    BY <2>2 DEF Contract!Next
<1>7. CASE \/ Application /\ UNCHANGED launch
           \/ ChooseFlags \/ StillAlive \/ ShutdownExpires \/ CheckGrace
  BY <1>7, ContractStutters DEF Contract!Next
<1>8. CASE UNCHANGED vars
  BY <1>8 DEF vars, tree, launch, deadlines, triggers, Contract!contract
<1>9. QED
  BY <1>1, <1>2, <1>3, <1>4, <1>5, <1>6, <1>7, <1>8 DEF Next, Launcher

\* Every run of the launcher is a run of the contract: the verdict is the cause for
\* which the application was asked to stop, and otherwise the main process's status.
THEOREM LauncherKeepsContract == Spec => KeepsContract
<1>1. Spec => Contract!Spec
  BY ContractInit, ContractStep, Invariance, PTL DEF Spec, Contract!Spec
<1>2. QED
  BY <1>1 DEF KeepsContract

\* Honest is inductive for the steps of the contract, whatever implements them.
LEMMA HonestStep == Contract!Honest /\ [Contract!Next]_(Contract!contract) => Contract!Honest'
<1> USE DEF Contract!Honest, Contract!Exists, Contract!Cause
<1>1. Contract!Honest /\ UNCHANGED Contract!contract => Contract!Honest'
  BY DEF Contract!contract
<1>2. Contract!Honest /\ (Contract!HostNotifies \/ Contract!DeadlinePasses) => Contract!Honest'
  BY DEF Contract!HostNotifies, Contract!DeadlinePasses
<1>3. Contract!Honest /\ Contract!MainEnds => Contract!Honest'
  BY DEF Contract!MainEnds
<1>4. ASSUME NEW cause \in {"limit", "timeout"}
      PROVE  Contract!Honest /\ Contract!Ask(cause) => Contract!Honest'
  BY DEF Contract!Ask, Contract!MayEnd
<1>5. Contract!Honest /\ (Contract!Report \/ Contract!Fails) => Contract!Honest'
  BY DEF Contract!Report, Contract!Fails
<1>6. QED
  BY <1>1, <1>2, <1>3, <1>4, <1>5 DEF Contract!Next

\* A cause the host is told of exists, and the application was asked to stop for it; a
\* status it is told of is that of a main process that has ended, and no cause was acted
\* on; what it is told is never taken back.
THEOREM VerdictIsHonest == Spec => []Contract!Honest /\ Contract!OneVerdict
<1>1. Contract!Init => Contract!Honest
  BY DEF Contract!Init, Contract!Honest
<1>2. Contract!Next => ((IF result = "Exited" THEN exit_status ELSE result) # "none" => UNCHANGED (IF result = "Exited" THEN exit_status ELSE result))
  BY DEF Contract!Next, Contract!HostNotifies, Contract!DeadlinePasses, Contract!MainEnds,
         Contract!Ask, Contract!Report, Contract!Fails
<1>3. QED
  BY <1>1, <1>2, HonestStep, LauncherKeepsContract, PTL DEF KeepsContract, Contract!Spec, Contract!OneVerdict
=============================================================================
