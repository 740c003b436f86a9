-------------------------------- MODULE AppTree --------------------------------
(***************************************************************************)
(* The processes of the sandboxed application, as the kernel keeps them    *)
(* and as the supervisors of runner.rs use them: fork, setpgid, exit, the  *)
(* effect of killpg, reparenting of orphans, and who may reap whom.        *)
(*                                                                         *)
(* The main process is forked by a supervisor and enters a process group   *)
(* of its own with its first call, setpgid(0, 0).  What it starts inherits *)
(* that group, may leave it (setsid, setpgid), and may come back with      *)
(* setpgid as long as the group exists.  SIGKILL ends every member of the  *)
(* group at once; any other signal ends the members that do not handle it, *)
(* which may be any subset.                                                *)
(***************************************************************************)

CONSTANTS
    Procs,         \* the processes the application may consist of
    Main,          \* the process forked by the supervisor
    Reaper,        \* the supervisor, which inherits orphans
    AppStatuses    \* the statuses with which the main process ends by itself

ASSUME TreeAssumption ==
    /\ Main \in Procs
    /\ Reaper \notin Procs
    /\ "none" \notin AppStatuses

VARIABLES
    pstate,      \* process -> "unborn", "unplaced", "running", "zombie", "reaped"
    parent,      \* process -> its parent: a process or the Reaper
    group,       \* the processes in the main process's group
    exit_status  \* how the main process ended, "none" while it has not

tree == <<pstate, parent, group, exit_status>>

Alive == {p \in Procs : pstate[p] \in {"unplaced", "running"}}
Unreaped == {p \in Procs : pstate[p] \in {"unplaced", "running", "zombie"}}

\* Mutant: the signal goes to the main process instead of its group.
LeaderOnly == {p \in group \cap {Main} : pstate[p] = "running"}

\* The processes a signal to the group reaches; without any, killpg fails with
\* ESRCH, which every caller ignores.
Members == {p \in group : pstate[p] = "running"}

\* The processes that left the group, or were started by one that did: daemons.
Departed == {p \in Procs \ group : pstate[p] = "running"}

ChildrenOf(r) == {p \in Unreaped : parent[p] = r}

TreeInit ==
    /\ pstate = [p \in Procs |-> IF p = Main THEN "unplaced" ELSE "unborn"]
    /\ parent = [p \in Procs |-> Reaper]
    /\ group = {}
    /\ exit_status = "none"

\* The processes of dead end and their children become the Reaper's; the zombies
\* of gone are waited for.
Ends(dead, gone) ==
    /\ pstate' = [p \in Procs |-> IF p \in gone THEN "reaped"
                                  ELSE IF p \in dead THEN "zombie" ELSE pstate[p]]
    /\ parent' = [p \in Procs |-> IF parent[p] \in dead THEN Reaper ELSE parent[p]]
    /\ UNCHANGED group

Die(dead, status) ==
    /\ Ends(dead, {})
    /\ exit_status' = IF Main \in dead THEN status ELSE exit_status

\* killpg(main_child, signal): the members that end by it.
Killpg(signal) ==
    \E dead \in SUBSET Members :
        /\ signal = "KILL" => dead = Members
        /\ Die(dead, signal)

Reap(p) == Ends({}, {p}) /\ UNCHANGED exit_status

\* The first process of a PID namespace ends: the kernel kills, and reaps, the rest.
NamespaceEnds ==
    /\ pstate' = [p \in Procs |-> IF p \in Unreaped THEN "reaped" ELSE pstate[p]]
    /\ exit_status' = IF Main \in Alive THEN "KILL" ELSE exit_status
    /\ UNCHANGED <<parent, group>>

-----------------------------------------------------------------------------
(* What the application does by itself.                                    *)

\* The forked child's first call.
Setpgid ==
    /\ pstate[Main] = "unplaced"
    /\ pstate' = [pstate EXCEPT ![Main] = "running"]
    /\ group' = {Main}
    /\ UNCHANGED <<parent, exit_status>>

Spawn(p, q) ==
    /\ pstate[p] = "running"
    /\ pstate[q] = "unborn"
    /\ pstate' = [pstate EXCEPT ![q] = "running"]
    /\ parent' = [parent EXCEPT ![q] = p]
    /\ group' = IF p \in group THEN group \cup {q} ELSE group
    /\ UNCHANGED exit_status

LeaveGroup(p) ==
    /\ p \in Members
    /\ group' = group \ {p}
    /\ UNCHANGED <<pstate, parent, exit_status>>

\* setpgid(0, main): a group exists until its last member has been reaped, so a
\* zombie is enough to come back to.
Rejoin(p) ==
    /\ p \in Departed
    /\ group \cap Unreaped # {}
    /\ group' = group \cup {p}
    /\ UNCHANGED <<pstate, parent, exit_status>>

Exit(p) ==
    /\ p \in Alive
    /\ \E status \in AppStatuses : Die({p}, status)

ReapOwnChild(p, q) ==
    /\ pstate[p] = "running"
    /\ pstate[q] = "zombie"
    /\ parent[q] = p
    /\ Reap(q)

Application ==
    \/ Setpgid
    \/ \E p, q \in Procs : Spawn(p, q) \/ ReapOwnChild(p, q)
    \/ \E p \in Procs : LeaveGroup(p) \/ Rejoin(p) \/ Exit(p)

-----------------------------------------------------------------------------
\* The types, and what the kernel guarantees of a tree: a process that is not
\* reaped has a parent to do it, the Reaper or a running process.
TreeTypeOK ==
    /\ pstate \in [Procs -> {"unborn", "unplaced", "running", "zombie", "reaped"}]
    /\ parent \in [Procs -> Procs \cup {Reaper}]
    /\ group \subseteq Procs
    /\ \A p \in Unreaped : parent[p] # Reaper => pstate[parent[p]] = "running"
    /\ exit_status = "none" <=> Main \in Alive
=============================================================================
