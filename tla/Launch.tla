--------------------------------- MODULE Launch ---------------------------------
(***************************************************************************)
(* From run_app to execveat: the host forks the launcher, the launcher     *)
(* enters the namespaces and forks PID1 (or the application itself), PID1  *)
(* mounts /proc and forks the application, which restricts itself and      *)
(* becomes the application's program.  Every call on the way may fail, and *)
(* a failure ends its process.                                             *)
(*                                                                         *)
(* A process is what it has still to do (its script, in the order of the   *)
(* code), the calls it and its ancestors have made, which it inherits, and *)
(* the descriptors it holds.  stdout and stderr are one pipe here.         *)
(***************************************************************************)
EXTENDS Naturals, Sequences

CONSTANTS
    Kinds,     \* the namespaces policies ask for
    Faults     \* the combinations of Faulty in policies

\* Why a policy that is accepted cannot be launched: Landlock does not let the program
\* read /dev/null, or the executable and its interpreter be executed; an rlimit is above
\* the hard limit that the runtime has inherited; RLIMIT_AS is too small for the program;
\* pids.max is too small for the application's process, or 1 and too small for PID1 too.
Faulty == {"dev_null", "execute", "hard_limit", "address_space", "pids", "one_pid"}

ASSUME LaunchAssumption ==
    /\ Kinds \subseteq {"uts", "ipc", "network", "pid", "mount"}
    /\ Faults \subseteq SUBSET Faulty

Processes == {"host", "launcher", "pid1", "app"}

VARIABLES
    policy,        \* what the run depends on of the policy
    privileged,    \* the runtime was started with all capabilities
    life,          \* process -> "unborn", "live", "ended"
    todo,          \* process -> the steps it has not done
    done,          \* process -> the calls made by it and, before the fork, its ancestors
    held,          \* process -> the descriptors it holds
    cloexec        \* the descriptors that execveat closes

vars == <<policy, privileged, life, todo, done, held, cloexec>>

\* tmp: mount.private_tmp.  seccomp: "denies" if a syscall is denied that exec_verified
\* makes (it does not matter which).
Policies ==
    [namespaces : SUBSET Kinds, tmp : BOOLEAN,
     seccomp : {"absent", "present", "denies"}, faults : Faults]

-----------------------------------------------------------------------------
(* What the policy asks for.                                               *)

\* validate_mount_policy
Valid(pol) == pol.tmp => "mount" \in pol.namespaces

\* Mutant: a PID namespace does not bring a mount namespace.
MountAsked == "mount" \in policy.namespaces

\* mount_policy.enabled || pid_
MountEnabled == "mount" \in policy.namespaces \/ "pid" \in policy.namespaces

\* user_namespace_required
UserNamespaceRequired == policy.namespaces # {}

\* namespace_flags
Flags == (policy.namespaces \cap {"uts", "ipc", "network"})
            \cup (IF MountEnabled THEN {"mount"} ELSE {})

-----------------------------------------------------------------------------
(* The scripts.                                                            *)

Call(what) == <<"call", what>>
Drop(what) == <<"drop", what>>
Fork(who) == <<"fork", who>>
Wait(who) == <<"wait", who>>
When(condition, steps) == IF condition THEN steps ELSE <<>>

ApplyUserNamespace ==
    <<Call("unshare_user"), Call("uid_map"), Call("setgroups"), Call("gid_map")>>

ApplyNamespaces ==
    When(UserNamespaceRequired, ApplyUserNamespace)
    \o When(Flags # {}, <<Call("unshare")>>)
    \o When(MountEnabled, <<Call("make_private")>>)
    \o When(MountEnabled /\ policy.tmp, <<Call("mount_tmp")>>)
    \o When("uts" \in policy.namespaces, <<Call("sethostname")>>)

\* The bounding set first: "This must happen before clearing CAP_SETPCAP".
DropAllCapabilities == <<Call("drop_bounding"), Call("clear_ambient"), Call("capset")>>

\* Mutants: the executable is preserved too early; a failed exec is no error.
KeepThenClose ==
    <<Call("redirect_stdin"), Call("keep_executable"), Call("close_range"), Call("execveat")>>
FallThrough == <<Call("redirect_stdin"), Call("close_range"), Call("keep_executable")>>

ExecVerified ==
    <<Call("redirect_stdin"), Call("close_range"), Call("keep_executable"), Call("execveat")>>

\* The application's process, from setpgid on, in either mode.
Restrict ==
    <<Call("setpgid"), Call("redirect_output"), Drop("output_writer"),
      Call("rlimits"), Call("landlock"), Call("no_new_privs")>>
    \o DropAllCapabilities
    \o When(policy.seccomp # "absent", <<Call("seccomp")>>)
    \o ExecVerified

AppScript == When("pid" \notin policy.namespaces, <<Drop("control_reader")>>) \o Restrict

RunPid1Supervisor ==
    <<Drop("control_reader"), Call("mount_proc"), Fork("app"), Drop("output_writer"),
      Call("install_signal_handlers"), Wait("app")>>

Second == IF "pid" \in policy.namespaces THEN "pid1" ELSE "app"

\* After the drops the launcher also moves into the cgroup (Cgroup!MoveLauncher).
LauncherScript ==
    <<Drop("output_reader"), Drop("control_writer")>>
    \o ApplyNamespaces
    \o When("pid" \in policy.namespaces, <<Call("unshare_pid")>>)
    \o <<Fork(Second), Drop("output_writer"), Wait(Second)>>

\* Mutant: the host keeps the write ends it has handed down.
HostKeepsWriter ==
    <<Call("create_output_pipes"), Call("create_control_pipe"), Fork("launcher"),
      Drop("control_reader"), Wait("launcher")>>

HostScript ==
    <<Call("create_output_pipes"), Call("create_control_pipe"), Fork("launcher"),
      Drop("output_writer"), Drop("control_reader"), Wait("launcher")>>

Script == [p \in Processes |->
              IF p = "host" THEN HostScript
              ELSE IF p = "launcher" THEN LauncherScript
              ELSE IF p = "pid1" THEN RunPid1Supervisor ELSE AppScript]

Init ==
    /\ policy \in {pol \in Policies : Valid(pol)}
    /\ privileged \in BOOLEAN
    /\ life = [p \in Processes |-> IF p = "host" THEN "live" ELSE "unborn"]
    /\ todo = Script
    /\ done = [p \in Processes |-> {}]
    /\ held = [p \in Processes |-> IF p = "host" THEN {"executable", "inherited"} ELSE {}]
    /\ cloexec = {"executable"}

-----------------------------------------------------------------------------
(* The kernel.                                                             *)

At(p, kind) == life[p] = "live" /\ todo[p] # <<>> /\ Head(todo[p])[1] = kind
What(p) == Head(todo[p])[2]

\* All capabilities, over the namespaces it has made.
Capable(p) == (privileged \/ "unshare_user" \in done[p]) /\ "capset" \notin done[p]

Mounts == {"make_private", "mount_tmp", "mount_proc"}

\* CAP_SYS_RESOURCE in the user namespace the system started with.
MayRaiseLimits(p) == privileged /\ {"unshare_user", "capset"} \cap done[p] = {}

\* What the kernel asks for before it grants a call, or the fork of call.  Landlock
\* refuses every mount.
Granted(p, call) ==
    /\ call \in Mounts \cup {"unshare", "unshare_pid", "sethostname", "drop_bounding"}
          => Capable(p)
    /\ call = "gid_map" => privileged \/ "setgroups" \in done[p]
    /\ call \in Mounts => "mount" \in done[p] /\ "landlock" \notin done[p]
    /\ call = "mount_proc" => "unshare_pid" \in done[p]
    /\ call = "rlimits" => "hard_limit" \notin policy.faults \/ MayRaiseLimits(p)
    /\ call = "redirect_stdin" /\ "landlock" \in done[p] => "dev_null" \notin policy.faults
    /\ call = "execveat" =>
        /\ "landlock" \in done[p] => "execute" \notin policy.faults
        /\ "rlimits" \in done[p] => "address_space" \notin policy.faults
    /\ call \in {"pid1", "app"} => "one_pid" \notin policy.faults
    /\ call = "app" => "pids" \notin policy.faults
    /\ "seccomp" \in done[p] => policy.seccomp # "denies"

Pipes == {"output_reader", "output_writer", "control_reader", "control_writer"}

\* The descriptors after a call.
HeldAfter(p, call) ==
    IF call = "create_output_pipes" THEN held[p] \cup {"output_reader", "output_writer"}
    ELSE IF call = "create_control_pipe" THEN held[p] \cup {"control_reader", "control_writer"}
    ELSE IF call = "redirect_output" THEN held[p] \cup {"output"}
    ELSE IF call = "execveat" THEN held[p] \ cloexec ELSE held[p]

\* Pipes and executable are opened with O_CLOEXEC; close_range marks all but 0, 1, 2.
CloexecAfter(call) ==
    IF call = "create_output_pipes" THEN cloexec \cup Pipes
    ELSE IF call = "close_range" THEN cloexec \cup Pipes \cup {"executable", "inherited"}
    ELSE IF call = "keep_executable" THEN cloexec \ {"executable"} ELSE cloexec

Advance(p) == todo' = [todo EXCEPT ![p] = Tail(@)]

\* One unshare makes all the namespaces of its flags.
Marks(call) == {call} \cup (IF call = "unshare" THEN Flags ELSE {})

MakeCall(p) ==
    /\ At(p, "call")
    /\ Granted(p, What(p))
    /\ done' = [done EXCEPT ![p] = @ \cup Marks(What(p))]
    /\ held' = [held EXCEPT ![p] = HeldAfter(p, What(p))]
    /\ cloexec' = CloexecAfter(What(p))
    /\ Advance(p)
    /\ UNCHANGED <<policy, privileged, life>>

DropEnd(p) ==
    /\ At(p, "drop")
    /\ held' = [held EXCEPT ![p] = @ \ {What(p)}]
    /\ Advance(p)
    /\ UNCHANGED <<policy, privileged, life, done, cloexec>>

ForkChild(p) ==
    /\ At(p, "fork")
    /\ Granted(p, What(p))
    /\ life' = [life EXCEPT ![What(p)] = "live"]
    /\ done' = [done EXCEPT ![What(p)] = done[p]]
    /\ held' = [held EXCEPT ![What(p)] = held[p]]
    /\ Advance(p)
    /\ UNCHANGED <<policy, privileged, cloexec>>

\* PID1 does not end alone.
With(p) == {p} \cup {q \in {"app"} : p = "pid1" /\ life[q] = "live"}

End(p) ==
    /\ life' = [q \in Processes |-> IF q \in With(p) THEN "ended" ELSE life[q]]
    /\ held' = [q \in Processes |-> IF q \in With(p) THEN {} ELSE held[q]]
    /\ UNCHANGED <<policy, privileged, todo, done, cloexec>>

\* Mutant: a failed setrlimit is passed over.
PassOver(p) ==
    IF p = "app" /\ What(p) = "rlimits"
    THEN Advance(p) /\ UNCHANGED <<policy, privileged, life, done, held, cloexec>>
    ELSE End(p)

\* The ? operator, up to main, which exits.
ReturnError(p) == End(p)

\* A call fails, refused or not; waiting may fail too, or the process be killed.
Fail(p) ==
    /\ At(p, "call") \/ At(p, "fork") \/ At(p, "wait")
    /\ ReturnError(p)

Writer(p) == held[p] \cap {"output_writer", "output"} # {}

\* wait_for_pid1, wait_with_timeout, PID1's loop, and the host's, which also waits
\* for the end of both pipes.
FinishWait(p) ==
    /\ At(p, "wait")
    /\ life[What(p)] = "ended"
    /\ p = "host" => \A q \in Processes : ~Writer(q)
    /\ End(p)

Running == "execveat" \in done["app"] /\ life["app"] = "live"

ApplicationEnds == Running /\ End("app")

Refused(p) == (At(p, "call") \/ At(p, "fork")) /\ ~Granted(p, What(p))

Run(p) ==
    \/ MakeCall(p) \/ DropEnd(p) \/ ForkChild(p) \/ FinishWait(p)
    \/ Refused(p) /\ Fail(p)

Next ==
    \/ \E p \in Processes : Run(p) \/ Fail(p)
    \/ ApplicationEnds

Spec == Init /\ [][Next]_vars

\* Every process of the runtime goes on as long as it can, and fails when a call is
\* refused; the application may run for ever.
FairSpec == Spec /\ \A p \in Processes : WF_vars(Run(p))

-----------------------------------------------------------------------------
(* Properties.                                                             *)

\* The variables have their types, and the unreachable!() after exec_verified is
\* not reached: a process has something to do, or is the application, or has ended.
TypeOK ==
    /\ policy \in Policies
    /\ privileged \in BOOLEAN
    /\ life \in [Processes -> {"unborn", "live", "ended"}]
    /\ \A p \in Processes :
        /\ held[p] \subseteq Pipes \cup {"executable", "inherited", "output"}
        /\ life[p] = "live" => todo[p] # <<>> \/ (p = "app" /\ Running)
    /\ cloexec \subseteq Pipes \cup {"executable", "inherited"}

\* What the policy and the runtime promise of a running application, whichever calls
\* failed on the way and whichever process made them.
Promised ==
    {"setpgid", "redirect_output", "rlimits", "landlock", "no_new_privs", "drop_bounding",
     "clear_ambient", "capset", "redirect_stdin", "close_range"}
    \cup (policy.namespaces \cap {"uts", "ipc", "network", "mount"})
    \cup (IF "uts" \in policy.namespaces THEN {"sethostname"} ELSE {})
    \cup (IF "pid" \in policy.namespaces THEN {"unshare_pid", "mount_proc", "mount"} ELSE {})
    \cup (IF policy.namespaces # {} THEN {"unshare_user", "uid_map", "gid_map"} ELSE {})
    \cup (IF policy.tmp THEN {"mount_tmp"} ELSE {})
    \cup (IF policy.seccomp # "absent" THEN {"seccomp"} ELSE {})

\* README.md, "Before the target application executes, the runtime applies additional
\* privilege restrictions": no program runs with one of them missing.
RunsRestricted == Running => Promised \subseteq done["app"]

\* README.md, "File Descriptor Hardening": the application has its output and the
\* verified executable, and neither another end of the runtime's pipes nor what
\* the runtime had inherited.
OnlyItsDescriptors == Running => held["app"] = {"output", "executable"}

\* What a call may be refused for: a fault of the policy, each at its own call, and a
\* runtime without capabilities that makes no user namespace to get them.
Blamed(call) ==
    \/ call \in {"pid1", "app"} /\ "one_pid" \in policy.faults
    \/ call = "app" /\ "pids" \in policy.faults
    \/ /\ call = "rlimits" /\ "hard_limit" \in policy.faults
       /\ ~privileged \/ policy.namespaces # {}
    \/ call = "drop_bounding" /\ ~privileged /\ policy.namespaces = {}
    \/ call = "redirect_stdin" /\ "dev_null" \in policy.faults
    \/ call = "execveat" /\ {"execute", "address_space"} \cap policy.faults # {}
    \/ /\ call \in {"redirect_stdin", "close_range", "keep_executable", "execveat"}
       /\ policy.seccomp = "denies"

\* The order of the calls takes away nothing that a later one needs: whichever process
\* makes it, the kernel refuses a call for one of these reasons only.
RefusedOnlyByPolicy == \A p \in Processes : Refused(p) => Blamed(What(p))

\* However a launch fails, the host sees the launcher's end and the end of the pipes,
\* and returns: nobody of the runtime keeps a write end open while it waits.
HostReturns == <>(life["host"] = "ended") \/ <>[]Running
=============================================================================
