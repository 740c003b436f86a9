----------------------------- MODULE DirectoryLease -----------------------------
(***************************************************************************)
(* What the cgroup directories promise the runs that share a parent: a     *)
(* directory's name is leased by making it, so that nobody has it who did  *)
(* not make it; a run's processes are inside only under its lease; the     *)
(* name can be leased again only if the run removed the directory with     *)
(* nobody inside.  A run that fails or is killed abandons the name, which  *)
(* stays taken for ever.                                                   *)
(*                                                                         *)
(* Cgroup implements this module.                                          *)
(***************************************************************************)
CONSTANTS
    Runs,      \* the invocations of secure-runtime
    Names      \* the names of directories

VARIABLES
    lease,     \* run -> the name it holds, or "none"
    taken,     \* the names whose directories exist
    inside     \* the runs with processes in their directory

leasing == <<lease, taken, inside>>

Init ==
    /\ lease = [r \in Runs |-> "none"]
    /\ taken = {}
    /\ inside = {}

\* create_dir.
Take(r, n) ==
    /\ lease[r] = "none"
    /\ n \in Names \ taken
    /\ lease' = [lease EXCEPT ![r] = n]
    /\ taken' = taken \cup {n}
    /\ UNCHANGED inside

\* A write to cgroup.procs.
Enter(r) ==
    /\ lease[r] # "none"
    /\ r \notin inside
    /\ inside' = inside \cup {r}
    /\ UNCHANGED <<lease, taken>>

\* The run's last process ends; its host may have ended before.
Leave(r) ==
    /\ r \in inside
    /\ inside' = inside \ {r}
    /\ lease' \in {lease, [lease EXCEPT ![r] = "none"]}
    /\ UNCHANGED taken

\* The host ends without removing the directory.
Abandon(r) ==
    /\ lease[r] # "none"
    /\ r \notin inside
    /\ lease' = [lease EXCEPT ![r] = "none"]
    /\ UNCHANGED <<taken, inside>>

\* remove_dir.
Release(r) ==
    /\ lease[r] # "none"
    /\ r \notin inside
    /\ lease' = [lease EXCEPT ![r] = "none"]
    /\ taken' = taken \ {lease[r]}
    /\ UNCHANGED inside

Next ==
    \E r \in Runs :
        \/ \E n \in Names : Take(r, n)
        \/ Enter(r) \/ Leave(r) \/ Abandon(r) \/ Release(r)

Spec == Init /\ [][Next]_leasing

\* What a run may rely on: its name exists, nobody else holds it, and processes are in a
\* directory only under a lease.
Exclusive ==
    /\ \A r \in Runs : lease[r] # "none" => lease[r] \in taken
    /\ \A r, s \in Runs : lease[r] # "none" /\ lease[r] = lease[s] => r = s
    /\ \A r \in inside : lease[r] # "none"
=============================================================================
