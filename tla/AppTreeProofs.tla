----------------------------- MODULE AppTreeProofs -----------------------------
(***************************************************************************)
(* The process tree stays a tree: no process waits for a parent that       *)
(* cannot reap it, and whoever is not reaped yet descends from the Reaper. *)
(* WellFounded says so without following parents: every set of unreaped    *)
(* processes has one whose parent is outside the set.                      *)
(***************************************************************************)
EXTENDS AppTree, TLAPS

WellFounded == \A S \in SUBSET Unreaped : S # {} => \E p \in S : parent[p] \notin S

\* The main process is the first, and starts the others only once it is placed.
MainFirst ==
    /\ pstate[Main] # "unborn" /\ parent[Main] = Reaper
    /\ \A p \in Procs : pstate[p] = "unplaced" => p = Main
    /\ pstate[Main] = "unplaced" =>
        group = {} /\ \A p \in Procs \ {Main} : pstate[p] = "unborn"
    /\ \A p \in group : pstate[p] # "unborn"

TreeInv == TreeTypeOK /\ MainFirst /\ WellFounded

USE TreeAssumption

LEMMA TreeInitially == TreeInit => TreeInv
<1> SUFFICES ASSUME TreeInit PROVE TreeInv
  OBVIOUS
<1>1. TreeTypeOK
  BY DEF TreeInit, TreeTypeOK, Unreaped, Alive
<1>2. MainFirst
  BY DEF TreeInit, MainFirst
<1>3. WellFounded
  BY DEF TreeInit, WellFounded, Unreaped
<1>4. QED
  BY <1>1, <1>2, <1>3 DEF TreeInv

\* Deaths and reaping keep the tree, and change who is alive and who is unreaped
\* as one expects.
LEMMA EndsKeepsTree ==
    ASSUME TreeInv,
           NEW dead \in SUBSET Alive,
           NEW gone \in SUBSET {p \in Procs : pstate[p] = "zombie"},
           Ends(dead, gone),
           exit_status' = "none" <=> exit_status = "none" /\ Main \notin dead
    PROVE  /\ TreeInv'
           /\ Alive' = Alive \ dead
           /\ Unreaped' = Unreaped \ gone
           /\ group' = group
<1> USE DEF TreeInv
<1>1. /\ pstate' = [p \in Procs |-> IF p \in gone THEN "reaped"
                                    ELSE IF p \in dead THEN "zombie" ELSE pstate[p]]
      /\ parent' = [p \in Procs |-> IF parent[p] \in dead THEN Reaper ELSE parent[p]]
      /\ group' = group
  BY DEF Ends
<1>2. Alive' = Alive \ dead /\ Unreaped' = Unreaped \ gone
  BY <1>1 DEF Alive, Unreaped
<1>3. TreeTypeOK'
  <2>1. pstate' \in [Procs -> {"unborn", "unplaced", "running", "zombie", "reaped"}]
    BY <1>1 DEF TreeTypeOK
  <2>2. parent' \in [Procs -> Procs \cup {Reaper}]
    BY <1>1 DEF TreeTypeOK
  <2>3. ASSUME NEW p \in Unreaped', parent'[p] # Reaper
        PROVE  pstate'[parent'[p]] = "running"
    <3>1. p \in Unreaped /\ parent'[p] = parent[p] /\ parent[p] \notin dead
      BY <1>1, <1>2, <2>3 DEF Unreaped
    <3>2. pstate[parent[p]] = "running" /\ parent[p] \in Procs
      BY <2>3, <3>1 DEF TreeTypeOK, Unreaped
    <3>3. QED
      BY <1>1, <3>1, <3>2
  <2>4. exit_status' = "none" <=> Main \in Alive'
    BY <1>2 DEF TreeTypeOK
  <2>5. QED
    BY <1>1, <2>1, <2>2, <2>3, <2>4 DEF TreeTypeOK
<1>4. MainFirst'
  <2>1. \A p \in Procs : pstate'[p] = "unborn" <=> pstate[p] = "unborn"
    BY <1>1 DEF Alive
  <2>2. \A p \in Procs : pstate'[p] = "unplaced" => pstate[p] = "unplaced"
    BY <1>1
  <2>3. group \subseteq Procs
    BY DEF TreeTypeOK
  <2>4. parent'[Main] = Reaper
    BY <1>1 DEF MainFirst
  <2>5. QED
    BY <1>1, <2>1, <2>2, <2>3, <2>4 DEF MainFirst
<1>5. WellFounded'
  <2> SUFFICES ASSUME NEW S \in SUBSET Unreaped', S # {}
               PROVE  \E p \in S : parent'[p] \notin S
    BY DEF WellFounded
  <2>1. PICK p \in S : parent[p] \notin S
    BY <1>2 DEF WellFounded
  <2>2. parent'[p] = parent[p] \/ parent'[p] = Reaper
    BY <1>1, <1>2, <2>1 DEF Unreaped
  <2>3. Reaper \notin S
    BY <1>2 DEF Unreaped
  <2>4. QED
    BY <2>1, <2>2, <2>3
<1>6. QED
  BY <1>1, <1>2, <1>3, <1>4, <1>5

\* A signal to the group: some members end, all of them by SIGKILL.
LEMMA KillpgKeepsTree ==
    ASSUME TreeInv, NEW signal, signal # "none", Killpg(signal)
    PROVE  /\ TreeInv'
           /\ Alive' \subseteq Alive
           /\ Unreaped' = Unreaped
           /\ group' = group
           /\ signal = "KILL" => Alive' \cap group' = {}
           /\ exit_status' \in {exit_status, signal}
           /\ pstate[Main] # "running" => exit_status' = exit_status
           /\ exit_status # "none" => exit_status' = exit_status
           /\ pstate'[Main] = "reaped" <=> pstate[Main] = "reaped"
           /\ pstate[Main] # "unplaced" => pstate'[Main] # "unplaced"
<1>1. PICK dead \in SUBSET Members : (signal = "KILL" => dead = Members) /\ Die(dead, signal)
  BY DEF Killpg
<1>2. dead \in SUBSET Alive
  BY DEF Members, Alive, TreeInv, TreeTypeOK
<1>3. exit_status' = (IF Main \in dead THEN signal ELSE exit_status) /\ Ends(dead, {})
  BY <1>1 DEF Die
<1>4. exit_status' = "none" <=> exit_status = "none" /\ Main \notin dead
  BY <1>3
<1>5. TreeInv' /\ Alive' = Alive \ dead /\ Unreaped' = Unreaped \ {} /\ group' = group
  BY <1>2, <1>3, <1>4, EndsKeepsTree
<1>6. Main \in dead => pstate[Main] = "running"
  BY DEF Members
<1>7. /\ pstate'[Main] = "reaped" <=> pstate[Main] = "reaped"
      /\ pstate[Main] # "unplaced" => pstate'[Main] # "unplaced"
  BY <1>2, <1>3 DEF Ends, Alive
<1>8. ASSUME signal = "KILL" PROVE Alive' \cap group' = {}
  <2>1. \A p \in Alive \cap group : p \in Members
    BY DEF Alive, Members, TreeInv, MainFirst
  <2>2. QED
    BY <1>1, <1>5, <1>8, <2>1
<1>9. exit_status # "none" => Main \notin dead
  BY <1>2 DEF TreeInv, TreeTypeOK
<1>10. QED
  BY <1>1, <1>3, <1>5, <1>6, <1>7, <1>8, <1>9

\* The end of a namespace leaves nobody.
LEMMA NamespaceEndsKeepsTree ==
    ASSUME TreeInv, NamespaceEnds
    PROVE  /\ TreeInv'
           /\ Unreaped' = {} /\ Alive' = {}
           /\ pstate'[Main] = "reaped"
           /\ exit_status' \in {exit_status, "KILL"}
           /\ exit_status # "none" => exit_status' = exit_status
<1> USE DEF TreeInv
<1>1. /\ pstate' = [p \in Procs |-> IF p \in Unreaped THEN "reaped" ELSE pstate[p]]
      /\ exit_status' = IF Main \in Alive THEN "KILL" ELSE exit_status
      /\ parent' = parent /\ group' = group
  BY DEF NamespaceEnds
<1>2. Unreaped' = {} /\ Alive' = {}
  BY <1>1 DEF Unreaped, Alive
<1>3. pstate'[Main] = "reaped" /\ exit_status' # "none"
  BY <1>1 DEF MainFirst, TreeTypeOK, Unreaped
<1>4. TreeTypeOK'
  <2>1. pstate' \in [Procs -> {"unborn", "unplaced", "running", "zombie", "reaped"}]
    BY <1>1 DEF TreeTypeOK
  <2>2. QED
    BY <1>1, <1>2, <1>3, <2>1 DEF TreeTypeOK
<1>5. MainFirst'
  BY <1>1, <1>3 DEF MainFirst, TreeTypeOK
<1>6. WellFounded'
  BY <1>2 DEF WellFounded
<1>7. QED
  BY <1>1, <1>2, <1>3, <1>4, <1>5, <1>6 DEF TreeTypeOK

\* What the application does by itself keeps the tree; it reaps only processes it
\* started, never the main one; a process is born only to a running parent, into its
\* parent's group; and an empty group is entered only from outside.
LEMMA ApplicationKeepsTree ==
    ASSUME TreeInv, Application
    PROVE  /\ TreeInv'
           /\ pstate'[Main] = "reaped" <=> pstate[Main] = "reaped"
           /\ exit_status' \in AppStatuses \cup {exit_status}
           /\ exit_status # "none" => exit_status' = exit_status
           /\ pstate[Main] = "reaped" => exit_status' = exit_status
           /\ pstate[Main] # "unplaced" => pstate'[Main] # "unplaced"
           /\ pstate[Main] # "unplaced" /\ Alive \cap group = {} =>
                Alive' \cap group' \subseteq Departed
<1> USE DEF TreeInv
<1>1. CASE Setpgid
  <2>1. /\ pstate' = [pstate EXCEPT ![Main] = "running"] /\ group' = {Main}
        /\ pstate[Main] = "unplaced" /\ UNCHANGED <<parent, exit_status>>
    BY <1>1 DEF Setpgid
  <2>2. Unreaped' = Unreaped /\ Alive' = Alive
    BY <2>1 DEF Unreaped, Alive, TreeTypeOK
  <2>3. \A p \in Unreaped : p = Main
    BY <2>1 DEF Unreaped, MainFirst
  <2>4. pstate' \in [Procs -> {"unborn", "unplaced", "running", "zombie", "reaped"}]
    BY <2>1 DEF TreeTypeOK
  <2>5. \A p \in Procs : pstate[p] = "running" => pstate'[p] = "running"
    BY <2>1 DEF TreeTypeOK
  <2>6. \A p \in Unreaped' : parent'[p] # Reaper => pstate'[parent'[p]] = "running"
    BY <2>1, <2>2, <2>5 DEF TreeTypeOK, Unreaped
  <2>7. TreeTypeOK'
    BY <2>1, <2>2, <2>4, <2>6 DEF TreeTypeOK
  <2>8. MainFirst'
    BY <2>1 DEF MainFirst, TreeTypeOK
  <2>9. WellFounded'
    BY <2>1, <2>2 DEF WellFounded
  <2>10. QED
    BY <2>1, <2>7, <2>8, <2>9 DEF TreeTypeOK
<1>2. ASSUME NEW p \in Procs, NEW q \in Procs, Spawn(p, q) PROVE
           /\ TreeInv' /\ pstate'[Main] = pstate[Main] /\ exit_status' = exit_status
           /\ Alive \cap group = {} => Alive' \cap group' = {}
  <2>1. /\ pstate[p] = "running" /\ pstate[q] = "unborn"
        /\ pstate' = [pstate EXCEPT ![q] = "running"]
        /\ parent' = [parent EXCEPT ![q] = p]
        /\ group' = (IF p \in group THEN group \cup {q} ELSE group)
        /\ exit_status' = exit_status /\ q # Main
    BY <1>2 DEF Spawn, MainFirst
  <2>2. Unreaped' = Unreaped \cup {q} /\ Alive' = Alive \cup {q} /\ q \notin Unreaped
    BY <2>1 DEF Unreaped, Alive, TreeTypeOK
  <2>3. \A r \in Unreaped : parent[r] # q
    BY <2>1 DEF TreeTypeOK
  <2>4. \A r \in Unreaped' : parent'[r] # Reaper => pstate'[parent'[r]] = "running"
    BY <2>1, <2>2, <2>3 DEF TreeTypeOK, Unreaped
  <2>5. TreeTypeOK'
    BY <2>1, <2>2, <2>4 DEF TreeTypeOK
  <2>6. MainFirst'
    BY <2>1 DEF MainFirst, TreeTypeOK
  <2>7. WellFounded'
    <3> SUFFICES ASSUME NEW S \in SUBSET Unreaped', S # {}
                 PROVE  \E r \in S : parent'[r] \notin S
      BY DEF WellFounded
    <3>1. CASE S = {q}
      BY <2>1, <3>1 DEF TreeTypeOK
    <3>2. CASE S # {q}
      <4>1. S \ {q} # {} /\ S \ {q} \in SUBSET Unreaped
        BY <2>2, <3>2
      <4>2. PICK r \in S \ {q} : parent[r] \notin S \ {q}
        BY <4>1 DEF WellFounded
      <4>3. parent'[r] = parent[r] /\ parent[r] # q
        BY <2>1, <2>3, <4>1, <4>2 DEF TreeTypeOK, Unreaped
      <4>4. QED
        BY <4>2, <4>3
    <3>3. QED
      BY <3>1, <3>2
  <2>8. Alive \cap group = {} => p \notin group
    BY <2>1 DEF Alive
  <2>9. q \notin group
    BY <2>1 DEF MainFirst
  <2>10. QED
    BY <2>1, <2>2, <2>5, <2>6, <2>7, <2>8, <2>9 DEF TreeTypeOK
<1>3. ASSUME NEW p \in Procs, NEW q \in Procs, ReapOwnChild(p, q) PROVE
           /\ TreeInv' /\ exit_status' = exit_status /\ Alive' = Alive /\ group' = group
           /\ pstate'[Main] = pstate[Main]
  <2>1. /\ pstate[p] = "running" /\ q \in {r \in Procs : pstate[r] = "zombie"}
        /\ parent[q] = p /\ Ends({}, {q}) /\ exit_status' = exit_status
    BY <1>3 DEF ReapOwnChild, Reap
  <2>2. q # Main
    BY <2>1 DEF MainFirst
  <2>3. TreeInv' /\ Alive' = Alive \ {} /\ group' = group
    <3>1. exit_status' = "none" <=> exit_status = "none" /\ Main \notin {}
      BY <2>1
    <3>2. QED
      BY <2>1, <3>1, EndsKeepsTree
  <2>4. QED
    BY <2>1, <2>2, <2>3 DEF Ends
<1>4. ASSUME NEW p \in Procs, LeaveGroup(p) PROVE
           /\ TreeInv' /\ exit_status' = exit_status /\ pstate' = pstate
           /\ Alive \cap group = {} => Alive' \cap group' = {}
  <2>1. /\ UNCHANGED <<pstate, parent, exit_status>> /\ group' = group \ {p}
        /\ Alive' = Alive /\ Unreaped' = Unreaped
    BY <1>4 DEF LeaveGroup, Alive, Unreaped
  <2>2. TreeTypeOK' /\ MainFirst'
    BY <2>1 DEF TreeTypeOK, MainFirst
  <2>3. WellFounded'
    BY <2>1 DEF WellFounded
  <2>4. QED
    BY <2>1, <2>2, <2>3
<1>5. ASSUME NEW p \in Procs, Rejoin(p) PROVE
           /\ TreeInv' /\ exit_status' = exit_status /\ pstate' = pstate
           /\ Alive \cap group = {} => Alive' \cap group' \subseteq Departed
  <2>1. /\ UNCHANGED <<pstate, parent, exit_status>> /\ group' = group \cup {p}
        /\ p \in Departed /\ pstate[p] = "running"
        /\ Alive' = Alive /\ Unreaped' = Unreaped
    BY <1>5 DEF Rejoin, Departed, Alive, Unreaped
  <2>2. TreeTypeOK' /\ MainFirst'
    BY <2>1 DEF TreeTypeOK, MainFirst
  <2>3. WellFounded'
    BY <2>1 DEF WellFounded
  <2>4. QED
    BY <2>1, <2>2, <2>3
<1>6. ASSUME NEW p \in Procs, Exit(p) PROVE
           /\ TreeInv' /\ group' = group /\ Alive' = Alive \ {p}
           /\ exit_status' \in AppStatuses \cup {exit_status}
           /\ pstate'[Main] = "reaped" <=> pstate[Main] = "reaped"
           /\ pstate'[Main] \in {pstate[Main], "zombie"}
           /\ pstate[Main] = "reaped" => exit_status' = exit_status
           /\ exit_status # "none" => exit_status' = exit_status
  <2>1. PICK status \in AppStatuses : Die({p}, status)
    BY <1>6 DEF Exit
  <2>2. /\ {p} \in SUBSET Alive /\ p \in Alive
        /\ Ends({p}, {}) /\ exit_status' = (IF Main \in {p} THEN status ELSE exit_status)
    BY <1>6, <2>1 DEF Exit, Die
  <2>3. exit_status' = "none" <=> exit_status = "none" /\ Main \notin {p}
    BY <2>2
  <2>4. TreeInv' /\ Alive' = Alive \ {p} /\ group' = group
    BY <2>2, <2>3, EndsKeepsTree
  <2>5. /\ pstate'[Main] = "reaped" <=> pstate[Main] = "reaped"
        /\ pstate'[Main] \in {pstate[Main], "zombie"}
        /\ pstate[Main] = "reaped" => p # Main
    BY <2>2 DEF Ends, Alive
  <2>6. exit_status # "none" => p # Main
    BY <2>2 DEF TreeTypeOK
  <2>7. QED
    BY <2>2, <2>4, <2>5, <2>6
<1>7. QED
  BY <1>1, <1>2, <1>3, <1>4, <1>5, <1>6 DEF Application
=============================================================================
