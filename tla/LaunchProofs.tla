------------------------------ MODULE LaunchProofs ------------------------------
(***************************************************************************)
(* Safety of the launch for every policy and every failure on the way.     *)
(*                                                                         *)
(* A script is looked at only through the set of its steps and the order   *)
(* in which they come; both are computed piece by piece, as the scripts    *)
(* are put together.  A process is then its place in its script.           *)
(***************************************************************************)
EXTENDS Launch, TLAPS

\* The calls that only the application's process makes.
AppCalls ==
    {"setpgid", "redirect_output", "rlimits", "landlock", "no_new_privs", "drop_bounding",
     "clear_ambient", "capset", "seccomp", "redirect_stdin", "close_range",
     "keep_executable", "execveat"}

Names ==
    {"create_output_pipes", "create_control_pipe", "unshare_user", "uid_map", "setgroups",
     "gid_map", "unshare", "make_private", "mount_tmp", "sethostname", "unshare_pid",
     "mount_proc", "install_signal_handlers"}
    \cup AppCalls \cup Pipes \cup Processes

Step == {"call", "drop", "fork", "wait"} \X Names
Scripts == Seq(Step)

Steps(s) == {s[i] : i \in 1..Len(s)}

\* No step of B comes before one of A.
Before(s, A, B) == \A i, j \in 1..Len(s) : s[i] \in A /\ s[j] \in B => i <= j

Calls == {"call"} \X Names
Forks == {"fork"} \X Names

-----------------------------------------------------------------------------
(* Scripts put together.                                                   *)

LEMMA ConcatIsScript == ASSUME NEW s \in Scripts, NEW t \in Scripts PROVE s \o t \in Scripts
BY DEF Scripts

LEMMA StepsOfConcat ==
    ASSUME NEW s \in Scripts, NEW t \in Scripts
    PROVE  Steps(s \o t) = Steps(s) \cup Steps(t)
<1>1. /\ Len(s \o t) = Len(s) + Len(t) /\ Len(s) \in Nat /\ Len(t) \in Nat
      /\ \A i \in 1..Len(s) : (s \o t)[i] = s[i]
      /\ \A i \in 1..Len(t) : (s \o t)[Len(s) + i] = t[i]
  BY DEF Scripts
<1>2. ASSUME NEW x \in Steps(s \o t) PROVE x \in Steps(s) \cup Steps(t)
  <2>1. PICK i \in 1..Len(s \o t) : x = (s \o t)[i]
    BY DEF Steps
  <2>2. CASE i \in 1..Len(s)
    BY <1>1, <2>1, <2>2 DEF Steps
  <2>3. CASE i - Len(s) \in 1..Len(t)
    <3>1. x = t[i - Len(s)]
      BY <1>1, <2>1, <2>3
    <3>2. QED
      BY <2>3, <3>1 DEF Steps
  <2>4. QED
    BY <1>1, <2>2, <2>3
<1>3. ASSUME NEW x \in Steps(s) PROVE x \in Steps(s \o t)
  <2>1. PICK i \in 1..Len(s) : x = s[i]
    BY DEF Steps
  <2>2. i \in 1..Len(s \o t) /\ x = (s \o t)[i]
    BY <1>1, <2>1
  <2>3. QED
    BY <2>2 DEF Steps
<1>4. ASSUME NEW x \in Steps(t) PROVE x \in Steps(s \o t)
  <2>1. PICK i \in 1..Len(t) : x = t[i]
    BY DEF Steps
  <2>2. Len(s) + i \in 1..Len(s \o t) /\ x = (s \o t)[Len(s) + i]
    BY <1>1, <2>1
  <2>3. QED
    BY <2>2 DEF Steps
<1>5. QED
  BY <1>2, <1>3, <1>4

\* Two ordered pieces stay ordered, unless B is in the first and A in the second.
LEMMA BeforeConcat ==
    ASSUME NEW s \in Scripts, NEW t \in Scripts, NEW A, NEW B,
           Before(s, A, B), Before(t, A, B),
           Steps(s) \cap B = {} \/ Steps(t) \cap A = {}
    PROVE  Before(s \o t, A, B)
<1>1. /\ Len(s \o t) = Len(s) + Len(t) /\ Len(s) \in Nat /\ Len(t) \in Nat
      /\ \A i \in 1..Len(s) : (s \o t)[i] = s[i]
      /\ \A i \in 1..Len(t) : (s \o t)[Len(s) + i] = t[i]
  BY DEF Scripts
<1>2. SUFFICES ASSUME NEW i \in 1..Len(s \o t), NEW j \in 1..Len(s \o t),
                      (s \o t)[i] \in A, (s \o t)[j] \in B
               PROVE  i <= j
  BY DEF Before
<1>3. CASE i \in 1..Len(s) /\ j \in 1..Len(s)
  BY <1>1, <1>2, <1>3 DEF Before
<1>4. CASE i \in 1..Len(s) /\ j \notin 1..Len(s)
  BY <1>1, <1>4
<1>5. CASE i \notin 1..Len(s) /\ j \in 1..Len(s)
  <2>1. (s \o t)[j] \in Steps(s)
    BY <1>1, <1>5 DEF Steps
  <2>2. i - Len(s) \in 1..Len(t)
    BY <1>1, <1>5
  <2>3. (s \o t)[i] = t[i - Len(s)]
    BY <1>1, <2>2
  <2>4. (s \o t)[i] \in Steps(t)
    BY <2>2, <2>3 DEF Steps
  <2>5. QED
    BY <1>2, <2>1, <2>4
<1>6. CASE i \notin 1..Len(s) /\ j \notin 1..Len(s)
  <2>1. i - Len(s) \in 1..Len(t) /\ j - Len(s) \in 1..Len(t)
    BY <1>1, <1>6
  <2>2. (s \o t)[i] = t[i - Len(s)] /\ (s \o t)[j] = t[j - Len(s)]
    BY <1>1, <2>1
  <2>3. i - Len(s) <= j - Len(s)
    BY <1>2, <2>1, <2>2 DEF Before
  <2>4. QED
    BY <1>1, <2>3
<1>7. QED
  BY <1>3, <1>4, <1>5, <1>6

LEMMA BeforeAbsent ==
    ASSUME NEW s, NEW A, NEW B, Steps(s) \cap A = {} \/ Steps(s) \cap B = {}
    PROVE  Before(s, A, B)
BY DEF Before, Steps

LEMMA StepsOfNothing == <<>> \in Scripts /\ Steps(<<>>) = {}
BY DEF Steps, Scripts

LEMMA StepsOfOne ==
    ASSUME NEW x \in Step
    PROVE  <<x>> \in Scripts /\ Steps(<<x>>) = {x} /\ \A A, B : Before(<<x>>, A, B)
BY DEF Steps, Scripts, Before

LEMMA StepsOfThree ==
    ASSUME NEW x \in Step, NEW y \in Step, NEW z \in Step
    PROVE  <<x, y, z>> \in Scripts /\ Steps(<<x, y, z>>) = {x, y, z}
BY DEF Steps, Scripts

LEMMA StepsOfFour ==
    ASSUME NEW x \in Step, NEW y \in Step, NEW z \in Step, NEW w \in Step
    PROVE  <<x, y, z, w>> \in Scripts /\ Steps(<<x, y, z, w>>) = {x, y, z, w}
BY DEF Steps, Scripts

LEMMA StepsOfSix ==
    ASSUME NEW x \in Step, NEW y \in Step, NEW z \in Step, NEW u \in Step, NEW v \in Step,
           NEW w \in Step
    PROVE  /\ <<x, y, z, u, v, w>> \in Scripts
           /\ Steps(<<x, y, z, u, v, w>>) = {x, y, z, u, v, w}
BY DEF Steps, Scripts

-----------------------------------------------------------------------------
(* The scripts of the code.                                                *)

\* What a process does last.
Final(p) ==
    IF p = "host" THEN Wait("launcher")
    ELSE IF p = "launcher" THEN Wait(Second)
    ELSE IF p = "pid1" THEN Wait("app") ELSE Call("execveat")

\* The calls of ApplyNamespaces and run_pid1_runtime for this policy.
LauncherCalls ==
    (IF policy.namespaces # {} THEN {"unshare_user", "uid_map", "setgroups", "gid_map"} ELSE {})
    \cup (IF Flags # {} THEN {"unshare"} ELSE {})
    \cup (IF MountEnabled THEN {"make_private"} ELSE {})
    \cup (IF MountEnabled /\ policy.tmp THEN {"mount_tmp"} ELSE {})
    \cup (IF "uts" \in policy.namespaces THEN {"sethostname"} ELSE {})
    \cup (IF "pid" \in policy.namespaces THEN {"unshare_pid"} ELSE {})

\* The calls the application's process makes for this policy.
AppMakes == IF policy.seccomp # "absent" THEN AppCalls ELSE AppCalls \ {"seccomp"}

Drops == {Drop(end) : end \in Pipes}

HostSteps == {Call("create_output_pipes"), Call("create_control_pipe"), Fork("launcher")}
Pid1Steps == {Call("mount_proc"), Fork("app"), Call("install_signal_handlers")}

\* The steps that need the capabilities of a user namespace.
Unshares == {Call("unshare"), Call("unshare_pid"), Call("sethostname"), Call("make_private"),
             Call("mount_tmp")}

\* The steps of the application's process that need capabilities, and those before
\* the filter of syscalls is installed.
CapabilityCalls == {Call("rlimits"), Call("drop_bounding")}
Unfiltered ==
    {Call(c) : c \in AppCalls \ {"redirect_stdin", "close_range", "keep_executable", "execveat"}}

\* What the steps of each script are, and in which order those come that depend on one
\* another; the last step comes last.
ScriptFacts ==
    /\ DOMAIN Script = Processes
    /\ \A p \in Processes :
        /\ Script[p] \in Scripts
        /\ Final(p) \in Steps(Script[p])
        /\ Before(Script[p], Step, {Final(p)})
        /\ Before(Script[p], Forks, Forks)
    /\ Steps(Script["host"]) \subseteq HostSteps \cup Drops \cup {Final("host")}
    /\ Steps(Script["launcher"]) \subseteq
        {Call(c) : c \in LauncherCalls} \cup Drops \cup {Fork(Second), Final("launcher")}
    /\ \A c \in LauncherCalls : Call(c) \in Steps(Script["launcher"])
    /\ Before(Script["launcher"], Calls, Forks)
    /\ Before(Script["launcher"], {Call("unshare_user")}, Unshares)
    /\ Before(Script["launcher"], {Call("setgroups")}, {Call("gid_map")})
    /\ Before(Script["launcher"], {Call("unshare")}, {Call("make_private"), Call("mount_tmp")})
    /\ Steps(Script["pid1"]) \subseteq Pid1Steps \cup Drops \cup {Final("pid1")}
    /\ Call("mount_proc") \in Steps(Script["pid1"])
    /\ Before(Script["pid1"], {Call("mount_proc")}, Forks)
    /\ Steps(Script["app"]) \subseteq {Call(c) : c \in AppMakes} \cup Drops
    /\ \A c \in AppMakes : Call(c) \in Steps(Script["app"])
    /\ Before(Script["app"], CapabilityCalls, {Call("capset")})
    /\ Before(Script["app"], Unfiltered, {Call("seccomp")})
    /\ Before(Script["app"], {Call("close_range")}, {Call("keep_executable")})

LEMMA AreSteps ==
    \A what \in Names :
        /\ Call(what) \in Step /\ Drop(what) \in Step /\ Fork(what) \in Step /\ Wait(what) \in Step
        /\ Call(what) \in Calls /\ Drop(what) \notin Calls /\ Fork(what) \notin Calls
        /\ Wait(what) \notin Calls
        /\ Fork(what) \in Forks /\ Call(what) \notin Forks /\ Drop(what) \notin Forks
        /\ Wait(what) \notin Forks
BY DEF Step, Calls, Forks, Call, Drop, Fork, Wait

LEMMA WhenGives ==
    ASSUME NEW c, NEW s \in Scripts
    PROVE  /\ When(c, s) \in Scripts
           /\ c => Steps(When(c, s)) = Steps(s)
           /\ ~c => Steps(When(c, s)) = {}
           /\ \A A, B : Before(s, A, B) => Before(When(c, s), A, B)
<1>1. CASE c
  BY <1>1 DEF When
<1>2. CASE ~c
  <2>1. When(c, s) = <<>>
    BY <1>2 DEF When
  <2>2. QED
    BY <1>2, <2>1, StepsOfNothing, BeforeAbsent
<1>3. QED
  BY <1>1, <1>2

LEMMA HostFacts ==
    /\ HostScript \in Scripts
    /\ Steps(HostScript) = HostSteps \cup {Drop("output_writer"), Drop("control_reader"),
                                           Wait("launcher")}
    /\ Before(HostScript, Step, {Wait("launcher")})
    /\ Before(HostScript, Forks, Forks)
<1>1. /\ HostScript \in Scripts
      /\ Steps(HostScript) = HostSteps \cup {Drop("output_writer"), Drop("control_reader"),
                                             Wait("launcher")}
  <2>1. /\ Call("create_output_pipes") \in Step /\ Call("create_control_pipe") \in Step
        /\ Fork("launcher") \in Step /\ Drop("output_writer") \in Step
        /\ Drop("control_reader") \in Step /\ Wait("launcher") \in Step
    BY AreSteps DEF Names, Pipes, Processes
  <2>2. /\ HostScript \in Scripts
        /\ Steps(HostScript) =
            {Call("create_output_pipes"), Call("create_control_pipe"), Fork("launcher"),
             Drop("output_writer"), Drop("control_reader"), Wait("launcher")}
    BY ONLY <2>1, StepsOfSix DEF HostScript
  <2>3. QED
    BY <2>2 DEF HostSteps
<1>2. Before(HostScript, Step, {Wait("launcher")}) /\ Before(HostScript, Forks, Forks)
  BY DEF Before, HostScript, Forks, Call, Drop, Fork, Wait
<1>3. QED
  BY <1>1, <1>2

LEMMA Pid1Facts ==
    /\ RunPid1Supervisor \in Scripts
    /\ Steps(RunPid1Supervisor) = Pid1Steps \cup {Drop("control_reader"), Drop("output_writer"),
                                                  Wait("app")}
    /\ Before(RunPid1Supervisor, Step, {Wait("app")})
    /\ Before(RunPid1Supervisor, Forks, Forks)
    /\ Before(RunPid1Supervisor, {Call("mount_proc")}, Forks)
<1>1. /\ RunPid1Supervisor \in Scripts
      /\ Steps(RunPid1Supervisor) = Pid1Steps \cup {Drop("control_reader"),
                                                    Drop("output_writer"), Wait("app")}
  <2>1. /\ Drop("control_reader") \in Step /\ Call("mount_proc") \in Step
        /\ Fork("app") \in Step /\ Drop("output_writer") \in Step
        /\ Call("install_signal_handlers") \in Step /\ Wait("app") \in Step
    BY AreSteps DEF Names, Pipes, Processes
  <2>2. /\ RunPid1Supervisor \in Scripts
        /\ Steps(RunPid1Supervisor) =
            {Drop("control_reader"), Call("mount_proc"), Fork("app"), Drop("output_writer"),
             Call("install_signal_handlers"), Wait("app")}
    BY ONLY <2>1, StepsOfSix DEF RunPid1Supervisor
  <2>3. QED
    BY <2>2 DEF Pid1Steps
<1>2. /\ Before(RunPid1Supervisor, Step, {Wait("app")})
      /\ Before(RunPid1Supervisor, Forks, Forks)
      /\ Before(RunPid1Supervisor, {Call("mount_proc")}, Forks)
  BY DEF Before, RunPid1Supervisor, Forks, Call, Drop, Fork, Wait
<1>3. QED
  BY <1>1, <1>2

LEMMA RestrictFacts ==
    /\ Restrict \in Scripts
    /\ Steps(Restrict) = {Call(c) : c \in AppMakes} \cup {Drop("output_writer")}
    /\ Before(Restrict, Step, {Call("execveat")})
    /\ Before(Restrict, CapabilityCalls, {Call("capset")})
    /\ Before(Restrict, Unfiltered, {Call("seccomp")})
    /\ Before(Restrict, {Call("close_range")}, {Call("keep_executable")})
<1> DEFINE first == <<Call("setpgid"), Call("redirect_output"), Drop("output_writer"),
                      Call("rlimits"), Call("landlock"), Call("no_new_privs")>>
           filter == <<Call("seccomp")>>
           maybe == When(policy.seccomp # "absent", filter)
           exec == {Call("execveat")}
           sec == {Call("seccomp")}
           capset == {Call("capset")}
           close == {Call("close_range")}
           keep == {Call("keep_executable")}
<1>1. /\ \A c \in AppCalls : Call(c) \in Step
      /\ Drop("output_writer") \in Step
  BY AreSteps DEF Names, Pipes
<1>2. /\ Call("setpgid") \in Step /\ Call("redirect_output") \in Step /\ Call("rlimits") \in Step
      /\ Call("landlock") \in Step /\ Call("no_new_privs") \in Step /\ Call("seccomp") \in Step
      /\ Call("drop_bounding") \in Step /\ Call("clear_ambient") \in Step
      /\ Call("capset") \in Step /\ Call("redirect_stdin") \in Step
      /\ Call("close_range") \in Step /\ Call("keep_executable") \in Step
      /\ Call("execveat") \in Step
  BY <1>1 DEF AppCalls
<1>3. /\ first \in Scripts
      /\ Steps(first) = {Call("setpgid"), Call("redirect_output"), Drop("output_writer"),
                         Call("rlimits"), Call("landlock"), Call("no_new_privs")}
  <2>1. /\ Call("setpgid") \in Step /\ Call("redirect_output") \in Step
        /\ Drop("output_writer") \in Step /\ Call("rlimits") \in Step
        /\ Call("landlock") \in Step /\ Call("no_new_privs") \in Step
    BY <1>1, <1>2
  <2>2. QED
    BY ONLY <2>1, StepsOfSix
<1>4. /\ DropAllCapabilities \in Scripts
      /\ Steps(DropAllCapabilities) = {Call("drop_bounding"), Call("clear_ambient"),
                                       Call("capset")}
      /\ Before(DropAllCapabilities, CapabilityCalls, capset)
  <2>1. Before(DropAllCapabilities, CapabilityCalls, capset)
    BY DEF Before, DropAllCapabilities, CapabilityCalls, Call
  <2>2. QED
    BY ONLY <1>2, <2>1, StepsOfThree DEF DropAllCapabilities
<1>5. /\ maybe \in Scripts
      /\ Steps(maybe) = IF policy.seccomp # "absent" THEN {Call("seccomp")} ELSE {}
  BY ONLY <1>2, StepsOfOne, WhenGives
<1>6. /\ ExecVerified \in Scripts
      /\ Steps(ExecVerified) = {Call("redirect_stdin"), Call("close_range"),
                                Call("keep_executable"), Call("execveat")}
      /\ Before(ExecVerified, Step, exec)
      /\ Before(ExecVerified, close, keep)
  <2>1. Before(ExecVerified, Step, exec) /\ Before(ExecVerified, close, keep)
    BY DEF Before, ExecVerified, Call
  <2>2. QED
    BY ONLY <1>2, <2>1, StepsOfFour DEF ExecVerified
<1>7. /\ first \o DropAllCapabilities \in Scripts
      /\ Steps(first \o DropAllCapabilities) = Steps(first) \cup Steps(DropAllCapabilities)
  BY ONLY <1>3, <1>4, ConcatIsScript, StepsOfConcat
<1>8. /\ first \o DropAllCapabilities \o maybe \in Scripts
      /\ Steps(first \o DropAllCapabilities \o maybe)
            = Steps(first \o DropAllCapabilities) \cup Steps(maybe)
  BY ONLY <1>5, <1>7, ConcatIsScript, StepsOfConcat
<1>9. /\ Restrict \in Scripts
      /\ Steps(Restrict) = Steps(first \o DropAllCapabilities \o maybe) \cup Steps(ExecVerified)
  BY ONLY <1>6, <1>8, ConcatIsScript, StepsOfConcat DEF Restrict
<1>10. Steps(Restrict) = {Call(c) : c \in AppMakes} \cup {Drop("output_writer")}
  BY <1>3, <1>4, <1>5, <1>6, <1>7, <1>8, <1>9 DEF AppMakes, AppCalls
<1> DEFINE early == first \o DropAllCapabilities \o maybe
<1>11. Before(Restrict, Step, exec)
  <2>1. Steps(early) \cap exec = {}
    BY <1>3, <1>4, <1>5, <1>7, <1>8 DEF Call, Drop
  <2>2. QED
    BY ONLY <1>6, <1>8, <2>1, BeforeAbsent, BeforeConcat DEF Restrict
<1>12. Before(Restrict, close, keep)
  <2>1. Steps(early) \cap keep = {}
    BY <1>3, <1>4, <1>5, <1>7, <1>8 DEF Call, Drop
  <2>2. QED
    BY ONLY <1>6, <1>8, <2>1, BeforeAbsent, BeforeConcat DEF Restrict
<1>13. Before(Restrict, CapabilityCalls, capset)
  <2>1. /\ Steps(first) \cap capset = {} /\ Steps(maybe) \cap CapabilityCalls = {}
        /\ Steps(ExecVerified) \cap CapabilityCalls = {}
    BY <1>3, <1>5, <1>6 DEF CapabilityCalls, Call, Drop
  <2>2. Before(first \o DropAllCapabilities, CapabilityCalls, capset)
    BY ONLY <1>3, <1>4, <2>1, BeforeAbsent, BeforeConcat
  <2>3. Before(early, CapabilityCalls, capset)
    BY ONLY <1>5, <1>7, <2>1, <2>2, BeforeAbsent, BeforeConcat
  <2>4. QED
    BY ONLY <1>6, <1>8, <2>1, <2>3, BeforeAbsent, BeforeConcat DEF Restrict
<1>14. Before(Restrict, Unfiltered, sec)
  <2>1. /\ Steps(first \o DropAllCapabilities) \cap sec = {}
        /\ Steps(ExecVerified) \cap Unfiltered = {}
    BY <1>3, <1>4, <1>6, <1>7 DEF Unfiltered, AppCalls, Call, Drop
  <2>2. Before(maybe, Unfiltered, sec)
    <3>1. filter \in Scripts /\ Before(filter, Unfiltered, sec)
      BY ONLY <1>2, StepsOfOne
    <3>2. QED
      BY ONLY <3>1, WhenGives
  <2>3. Before(early, Unfiltered, sec)
    BY ONLY <1>5, <1>7, <2>1, <2>2, BeforeAbsent, BeforeConcat
  <2>4. QED
    BY ONLY <1>6, <1>8, <2>1, <2>3, BeforeAbsent, BeforeConcat DEF Restrict
<1>15. QED
  BY <1>9, <1>10, <1>11, <1>12, <1>13, <1>14

LEMMA AppFacts ==
    /\ AppScript \in Scripts
    /\ Steps(AppScript) \subseteq {Call(c) : c \in AppMakes} \cup Drops
    /\ \A c \in AppMakes : Call(c) \in Steps(AppScript)
    /\ Before(AppScript, Step, {Call("execveat")})
    /\ Before(AppScript, Forks, Forks)
    /\ Before(AppScript, CapabilityCalls, {Call("capset")})
    /\ Before(AppScript, Unfiltered, {Call("seccomp")})
    /\ Before(AppScript, {Call("close_range")}, {Call("keep_executable")})
<1> DEFINE reader == <<Drop("control_reader")>>
           maybe == When("pid" \notin policy.namespaces, reader)
<1>1. /\ Drop("control_reader") \in Step /\ Drop("control_reader") \in Drops
      /\ Drop("output_writer") \in Drops
  BY AreSteps DEF Names, Pipes, Drops
<1>2. /\ maybe \in Scripts
      /\ Steps(maybe) \subseteq {Drop("control_reader")}
  BY ONLY <1>1, StepsOfOne, WhenGives
<1>3. /\ AppScript \in Scripts
      /\ Steps(AppScript) = Steps(maybe) \cup Steps(Restrict)
  BY ONLY <1>2, RestrictFacts, ConcatIsScript, StepsOfConcat DEF AppScript
<1>4. /\ Steps(AppScript) \subseteq {Call(c) : c \in AppMakes} \cup Drops
      /\ \A c \in AppMakes : Call(c) \in Steps(AppScript)
  BY <1>1, <1>2, <1>3, RestrictFacts
<1>5. Before(AppScript, Forks, Forks)
  <2>1. Steps(AppScript) \cap Forks = {}
    BY <1>4 DEF Drops, Forks, Call, Drop
  <2>2. QED
    BY <2>1, BeforeAbsent
<1>6. /\ Steps(maybe) \cap {Call("execveat")} = {}
      /\ Steps(maybe) \cap {Call("capset")} = {}
      /\ Steps(maybe) \cap {Call("seccomp")} = {}
      /\ Steps(maybe) \cap {Call("keep_executable")} = {}
  BY <1>2 DEF Call, Drop
<1>7. Before(AppScript, Step, {Call("execveat")})
  BY ONLY <1>2, <1>6, RestrictFacts, BeforeAbsent, BeforeConcat DEF AppScript
<1>8. /\ Before(AppScript, CapabilityCalls, {Call("capset")})
      /\ Before(AppScript, Unfiltered, {Call("seccomp")})
  BY ONLY <1>2, <1>6, RestrictFacts, BeforeAbsent, BeforeConcat DEF AppScript
<1>9. Before(AppScript, {Call("close_range")}, {Call("keep_executable")})
  BY ONLY <1>2, <1>6, RestrictFacts, BeforeAbsent, BeforeConcat DEF AppScript
<1>10. QED
  BY <1>3, <1>4, <1>5, <1>7, <1>8, <1>9

\* Namespaces are entered after the user namespace that gives the capabilities for them,
\* the mounts after the unshare that separates them.
LEMMA NamespacesFacts ==
    /\ ApplyNamespaces \in Scripts
    /\ Steps(ApplyNamespaces) = {Call(c) : c \in LauncherCalls \ {"unshare_pid"}}
    /\ Before(ApplyNamespaces, {Call("unshare_user")}, Unshares)
    /\ Before(ApplyNamespaces, {Call("setgroups")}, {Call("gid_map")})
    /\ Before(ApplyNamespaces, {Call("unshare")}, {Call("make_private"), Call("mount_tmp")})
<1> DEFINE user == When(UserNamespaceRequired, ApplyUserNamespace)
           unshare == When(Flags # {}, <<Call("unshare")>>)
           private == When(MountEnabled, <<Call("make_private")>>)
           tmp == When(MountEnabled /\ policy.tmp, <<Call("mount_tmp")>>)
           name == When("uts" \in policy.namespaces, <<Call("sethostname")>>)
           mounts == {Call("make_private"), Call("mount_tmp")}
           unshares == {Call("unshare")}
           users == {Call("unshare_user")}
           groups == {Call("setgroups")}
           gids == {Call("gid_map")}
<1>1. /\ Call("unshare_user") \in Step /\ Call("uid_map") \in Step /\ Call("setgroups") \in Step
      /\ Call("gid_map") \in Step
  BY AreSteps DEF Names
<1>2. /\ Call("unshare") \in Step /\ Call("make_private") \in Step
      /\ Call("mount_tmp") \in Step /\ Call("sethostname") \in Step
  BY AreSteps DEF Names
<1>3. /\ ApplyUserNamespace \in Scripts
      /\ Steps(ApplyUserNamespace) = {Call("unshare_user"), Call("uid_map"),
                                      Call("setgroups"), Call("gid_map")}
      /\ Before(ApplyUserNamespace, groups, gids)
  <2>1. Before(ApplyUserNamespace, groups, gids)
    BY DEF Before, ApplyUserNamespace, Call
  <2>2. QED
    BY ONLY <1>1, <2>1, StepsOfFour DEF ApplyUserNamespace
<1>4. /\ user \in Scripts
      /\ Steps(user) = IF UserNamespaceRequired
                       THEN {Call("unshare_user"), Call("uid_map"), Call("setgroups"),
                             Call("gid_map")}
                       ELSE {}
      /\ Before(user, groups, gids)
  BY ONLY <1>3, WhenGives
<1>5. /\ unshare \in Scripts
      /\ Steps(unshare) = IF Flags # {} THEN {Call("unshare")} ELSE {}
  BY ONLY <1>2, StepsOfOne, WhenGives
<1>6. /\ private \in Scripts
      /\ Steps(private) = IF MountEnabled THEN {Call("make_private")} ELSE {}
  BY ONLY <1>2, StepsOfOne, WhenGives
<1>7. /\ tmp \in Scripts
      /\ Steps(tmp) = IF MountEnabled /\ policy.tmp THEN {Call("mount_tmp")} ELSE {}
  BY ONLY <1>2, StepsOfOne, WhenGives
<1>8. /\ name \in Scripts
      /\ Steps(name) = IF "uts" \in policy.namespaces THEN {Call("sethostname")} ELSE {}
  BY ONLY <1>2, StepsOfOne, WhenGives
<1>9. user \o unshare \in Scripts /\ Steps(user \o unshare) = Steps(user) \cup Steps(unshare)
  BY ONLY <1>4, <1>5, ConcatIsScript, StepsOfConcat
<1>10. /\ user \o unshare \o private \in Scripts
       /\ Steps(user \o unshare \o private) = Steps(user \o unshare) \cup Steps(private)
  BY ONLY <1>6, <1>9, ConcatIsScript, StepsOfConcat
<1>11. /\ user \o unshare \o private \o tmp \in Scripts
       /\ Steps(user \o unshare \o private \o tmp)
            = Steps(user \o unshare \o private) \cup Steps(tmp)
  BY ONLY <1>7, <1>10, ConcatIsScript, StepsOfConcat
<1>12. /\ ApplyNamespaces \in Scripts
       /\ Steps(ApplyNamespaces) = Steps(user \o unshare \o private \o tmp) \cup Steps(name)
  BY ONLY <1>8, <1>11, ConcatIsScript, StepsOfConcat DEF ApplyNamespaces
<1>13. Steps(ApplyNamespaces) = {Call(c) : c \in LauncherCalls \ {"unshare_pid"}}
  BY <1>4, <1>5, <1>6, <1>7, <1>8, <1>9, <1>10, <1>11, <1>12
     DEF LauncherCalls, UserNamespaceRequired
<1>14. Before(ApplyNamespaces, users, Unshares)
  <2>1. /\ Steps(user) \cap Unshares = {} /\ Steps(unshare) \cap users = {}
        /\ Steps(private) \cap users = {} /\ Steps(tmp) \cap users = {}
        /\ Steps(name) \cap users = {}
    BY <1>4, <1>5, <1>6, <1>7, <1>8 DEF Unshares, Call
  <2>2. Before(user \o unshare, users, Unshares)
    BY ONLY <1>4, <1>5, <2>1, BeforeAbsent, BeforeConcat
  <2>3. Before(user \o unshare \o private, users, Unshares)
    BY ONLY <1>6, <1>9, <2>1, <2>2, BeforeAbsent, BeforeConcat
  <2>4. Before(user \o unshare \o private \o tmp, users, Unshares)
    BY ONLY <1>7, <1>10, <2>1, <2>3, BeforeAbsent, BeforeConcat
  <2>5. QED
    BY ONLY <1>8, <1>11, <2>1, <2>4, BeforeAbsent, BeforeConcat DEF ApplyNamespaces
<1>15. Before(ApplyNamespaces, groups, gids)
  <2>1. /\ Steps(unshare) \cap groups = {}
        /\ Steps(private) \cap groups = {} /\ Steps(tmp) \cap groups = {}
        /\ Steps(name) \cap groups = {}
    BY <1>5, <1>6, <1>7, <1>8 DEF Call
  <2>2. Before(user \o unshare, groups, gids)
    BY ONLY <1>4, <1>5, <2>1, BeforeAbsent, BeforeConcat
  <2>3. Before(user \o unshare \o private, groups, gids)
    BY ONLY <1>6, <1>9, <2>1, <2>2, BeforeAbsent, BeforeConcat
  <2>4. Before(user \o unshare \o private \o tmp, groups, gids)
    BY ONLY <1>7, <1>10, <2>1, <2>3, BeforeAbsent, BeforeConcat
  <2>5. QED
    BY ONLY <1>8, <1>11, <2>1, <2>4, BeforeAbsent, BeforeConcat DEF ApplyNamespaces
<1>16. Before(ApplyNamespaces, unshares, mounts)
  <2>1. /\ Steps(user) \cap unshares = {} /\ Steps(user) \cap mounts = {}
        /\ Steps(unshare) \cap mounts = {}
        /\ Steps(private) \cap unshares = {} /\ Steps(tmp) \cap unshares = {}
        /\ Steps(name) \cap unshares = {}
    BY <1>4, <1>5, <1>6, <1>7, <1>8 DEF Call
  <2>2. Before(user \o unshare, unshares, mounts)
    BY ONLY <1>4, <1>5, <2>1, BeforeAbsent, BeforeConcat
  <2>3. Before(user \o unshare \o private, unshares, mounts)
    BY ONLY <1>6, <1>9, <2>1, <2>2, BeforeAbsent, BeforeConcat
  <2>4. Before(user \o unshare \o private \o tmp, unshares, mounts)
    BY ONLY <1>7, <1>10, <2>1, <2>3, BeforeAbsent, BeforeConcat
  <2>5. QED
    BY ONLY <1>8, <1>11, <2>1, <2>4, BeforeAbsent, BeforeConcat DEF ApplyNamespaces
<1>17. QED
  BY <1>12, <1>13, <1>14, <1>15, <1>16

\* The launcher forks when all its calls are made.
LEMMA LauncherFacts ==
    /\ LauncherScript \in Scripts
    /\ Steps(LauncherScript) \subseteq
        {Call(c) : c \in LauncherCalls} \cup Drops \cup {Fork(Second), Wait(Second)}
    /\ \A c \in LauncherCalls : Call(c) \in Steps(LauncherScript)
    /\ Wait(Second) \in Steps(LauncherScript)
    /\ Before(LauncherScript, Step, {Wait(Second)})
    /\ Before(LauncherScript, Forks, Forks)
    /\ Before(LauncherScript, Calls, Forks)
    /\ Before(LauncherScript, {Call("unshare_user")}, Unshares)
    /\ Before(LauncherScript, {Call("setgroups")}, {Call("gid_map")})
    /\ Before(LauncherScript, {Call("unshare")}, {Call("make_private"), Call("mount_tmp")})
<1> DEFINE first == <<Drop("output_reader"), Drop("control_writer")>>
           pid == When("pid" \in policy.namespaces, <<Call("unshare_pid")>>)
           last == <<Fork(Second), Drop("output_writer"), Wait(Second)>>
           early == first \o ApplyNamespaces \o pid
<1>1. /\ Drop("output_reader") \in Step /\ Drop("control_writer") \in Step
      /\ Drop("output_writer") \in Step /\ Call("unshare_pid") \in Step
  BY AreSteps DEF Names, Pipes
<1>2. Fork(Second) \in Step /\ Wait(Second) \in Step
  BY AreSteps DEF Names, Processes, Second
<1>3. /\ first \in Scripts
      /\ Steps(first) = {Drop("output_reader"), Drop("control_writer")}
  BY <1>1 DEF Scripts, Steps
<1>4. /\ pid \in Scripts
      /\ Steps(pid) = IF "pid" \in policy.namespaces THEN {Call("unshare_pid")} ELSE {}
  BY ONLY <1>1, StepsOfOne, WhenGives
<1>5. /\ last \in Scripts
      /\ Steps(last) = {Fork(Second), Drop("output_writer"), Wait(Second)}
  BY ONLY <1>1, <1>2, StepsOfThree
<1>6. /\ first \o ApplyNamespaces \in Scripts
      /\ Steps(first \o ApplyNamespaces) = Steps(first) \cup Steps(ApplyNamespaces)
  BY ONLY <1>3, NamespacesFacts, ConcatIsScript, StepsOfConcat
<1>7. early \in Scripts /\ Steps(early) = Steps(first \o ApplyNamespaces) \cup Steps(pid)
  BY ONLY <1>4, <1>6, ConcatIsScript, StepsOfConcat
<1>8. LauncherScript \in Scripts /\ Steps(LauncherScript) = Steps(early) \cup Steps(last)
  BY ONLY <1>5, <1>7, ConcatIsScript, StepsOfConcat DEF LauncherScript
<1>9. Steps(early) = {Drop("output_reader"), Drop("control_writer")}
                        \cup {Call(c) : c \in LauncherCalls}
  BY <1>3, <1>4, <1>6, <1>7, NamespacesFacts DEF LauncherCalls
<1>10. /\ Steps(LauncherScript) \subseteq
            {Call(c) : c \in LauncherCalls} \cup Drops \cup {Fork(Second), Wait(Second)}
       /\ \A c \in LauncherCalls : Call(c) \in Steps(LauncherScript)
       /\ Wait(Second) \in Steps(LauncherScript)
  BY <1>5, <1>8, <1>9 DEF Drops, Pipes
<1>11. /\ Before(last, Step, {Wait(Second)}) /\ Before(last, Forks, Forks)
       /\ Steps(last) \cap Calls = {}
  BY <1>5 DEF Before, Forks, Calls, Fork, Drop, Wait
<1>12. Steps(early) \cap {Wait(Second)} = {} /\ Steps(early) \cap Forks = {}
  BY <1>9 DEF Forks, Call, Drop, Wait
<1>13. /\ Before(LauncherScript, Step, {Wait(Second)})
       /\ Before(LauncherScript, Forks, Forks)
       /\ Before(LauncherScript, Calls, Forks)
  BY ONLY <1>5, <1>7, <1>11, <1>12, BeforeAbsent, BeforeConcat DEF LauncherScript
<1>14. ASSUME NEW A, NEW B, Before(ApplyNamespaces, A, B), B \subseteq Calls,
              A \subseteq Calls \ {Call("unshare_pid")}
       PROVE  Before(LauncherScript, A, B)
  <2>1. Steps(first) \cap A = {} /\ Steps(pid) \cap A = {} /\ Steps(last) \cap A = {}
    <3>1. Steps(first) \cap Calls = {}
      BY <1>3 DEF Calls, Drop
    <3>2. QED
      BY <1>4, <1>11, <1>14, <3>1
  <2>2. Before(first, A, B) /\ Before(pid, A, B) /\ Before(last, A, B)
    BY ONLY <2>1, BeforeAbsent
  <2>3. Before(first \o ApplyNamespaces, A, B)
    <3>1. Steps(first) \cap B = {} \/ Steps(ApplyNamespaces) \cap A = {}
      BY <1>3, <1>14 DEF Calls, Drop
    <3>2. QED
      BY ONLY <1>3, <1>14, <2>2, <3>1, NamespacesFacts, BeforeConcat
  <2>4. QED
    BY ONLY <1>4, <1>5, <1>6, <1>7, <2>1, <2>2, <2>3, BeforeConcat DEF LauncherScript
<1>15. /\ {Call("unshare_user")} \subseteq Calls \ {Call("unshare_pid")}
       /\ {Call("setgroups")} \subseteq Calls \ {Call("unshare_pid")}
       /\ {Call("unshare")} \subseteq Calls \ {Call("unshare_pid")}
       /\ Unshares \subseteq Calls /\ {Call("gid_map")} \subseteq Calls
       /\ {Call("make_private"), Call("mount_tmp")} \subseteq Calls
  BY DEF Call, Calls, Names, Unshares
<1>16. QED
  BY <1>8, <1>10, <1>13, <1>14, <1>15, NamespacesFacts

LEMMA ScriptsAreSo == ScriptFacts
<1>1. /\ Script["host"] = HostScript /\ Script["launcher"] = LauncherScript
      /\ Script["pid1"] = RunPid1Supervisor /\ Script["app"] = AppScript
      /\ DOMAIN Script = Processes
  BY DEF Script, Processes
<1>2. /\ Final("host") = Wait("launcher") /\ Final("launcher") = Wait(Second)
      /\ Final("pid1") = Wait("app") /\ Final("app") = Call("execveat")
  BY DEF Final
<1>3. ASSUME NEW p \in Processes
      PROVE  /\ Script[p] \in Scripts
             /\ Final(p) \in Steps(Script[p])
             /\ Before(Script[p], Step, {Final(p)})
             /\ Before(Script[p], Forks, Forks)
  <2>1. CASE p = "host"
    BY <1>1, <1>2, <2>1, HostFacts
  <2>2. CASE p = "launcher"
    BY <1>1, <1>2, <2>2, LauncherFacts
  <2>3. CASE p = "pid1"
    BY <1>1, <1>2, <2>3, Pid1Facts
  <2>4. CASE p = "app"
    BY <1>1, <1>2, <2>4, AppFacts DEF AppMakes, AppCalls
  <2>5. QED
    BY <2>1, <2>2, <2>3, <2>4 DEF Processes
<1>4. /\ Steps(Script["host"]) \subseteq HostSteps \cup Drops \cup {Final("host")}
      /\ Steps(Script["pid1"]) \subseteq Pid1Steps \cup Drops \cup {Final("pid1")}
      /\ Call("mount_proc") \in Steps(Script["pid1"])
  BY <1>1, <1>2, HostFacts, Pid1Facts DEF Drops, Pipes, Pid1Steps
<1>5. QED
  BY <1>1, <1>2, <1>3, <1>4, LauncherFacts, AppFacts, Pid1Facts DEF ScriptFacts

-----------------------------------------------------------------------------
(* The inductive invariant.                                                *)

\* How far a process is.
Place(p) == Len(Script[p]) - Len(todo[p])

FormInv ==
    /\ policy \in Policies /\ Valid(policy)
    /\ privileged \in BOOLEAN
    /\ life \in [Processes -> {"unborn", "live", "ended"}]
    /\ todo \in [Processes -> Scripts]
    /\ done \in [Processes -> SUBSET (Names \cup {"uts", "ipc", "network", "mount"})]
    /\ held \in [Processes -> SUBSET (Pipes \cup {"executable", "inherited", "output"})]
    /\ cloexec \subseteq Pipes \cup {"executable", "inherited"}

\* A process has made the calls of its script up to its place, and has the rest to do.
PlaceInv ==
    \A p \in Processes :
        /\ Place(p) \in Nat
        /\ \A i \in 1..Len(todo[p]) : todo[p][i] = Script[p][Place(p) + i]
        /\ \A i \in 1..Place(p) : Script[p][i] \in Calls => Script[p][i][2] \in done[p]

\* It has something to do until it ends or is the application.
LiveInv ==
    \A p \in Processes : life[p] = "live" => todo[p] # <<>> \/ (p = "app" /\ Running)

Parent(q) ==
    IF q = "launcher" THEN "host"
    ELSE IF q = "pid1" \/ q = Second THEN "launcher" ELSE "pid1"

\* Nobody is born twice: whoever was born, its parent is past the fork.
BirthInv ==
    /\ life["host"] # "unborn"
    /\ life["pid1"] # "unborn" => "pid" \in policy.namespaces
    /\ \A q \in Processes \ {"host"} :
        IF life[q] = "unborn" THEN Place(q) = 0
        ELSE \E i \in 1..Place(Parent(q)) : Script[Parent(q)][i] = Fork(q)

\* What a process has inherited, and what only the application has done.
InheritedInv ==
    /\ \A p \in Processes :
        /\ "unshare" \in done[p] => Flags \subseteq done[p]
        /\ "unshare_user" \in done[p] => policy.namespaces # {}
        /\ p # "app" => done[p] \cap AppCalls = {}
        /\ p \in {"pid1", "app"} /\ life[p] # "unborn" => LauncherCalls \subseteq done[p]
    /\ life["app"] # "unborn" /\ "pid" \in policy.namespaces => "mount_proc" \in done["app"]
    /\ \A c \in done["app"] \cap AppCalls :
        \E i \in 1..Place("app") : Script["app"][i] = Call(c)

\* The executable stays open, and after the last two calls nothing else does.
DescriptorInv ==
    /\ \A p \in Processes : life[p] = "live" => "executable" \in held[p]
    /\ "redirect_output" \in done["app"] /\ life["app"] = "live" => "output" \in held["app"]
    /\ "close_range" \in done["app"] => Pipes \cup {"inherited"} \subseteq cloexec
    /\ "keep_executable" \in done["app"] => "executable" \notin cloexec
    /\ OnlyItsDescriptors

Inv ==
    FormInv /\ PlaceInv /\ LiveInv /\ BirthInv /\ InheritedInv /\ DescriptorInv

-----------------------------------------------------------------------------
(* A process at its place.                                                 *)

\* The policy of a run stays, and with it the scripts.
LEMMA ScriptsStay ==
    ASSUME policy' = policy
    PROVE  /\ Script' = Script /\ Flags' = Flags /\ Second' = Second
           /\ LauncherCalls' = LauncherCalls
           /\ Promised' = Promised
<1>1. Flags' = Flags /\ Second' = Second /\ (MountEnabled' <=> MountEnabled)
  BY DEF Flags, Second, MountEnabled
<1>2. LauncherCalls' = LauncherCalls /\ Promised' = Promised
  BY <1>1 DEF LauncherCalls, Promised
<1>3. /\ AppScript' = AppScript
      /\ LauncherScript' = LauncherScript
  BY <1>1 DEF AppScript, Restrict, LauncherScript, ApplyNamespaces, UserNamespaceRequired
<1>4. Script' = Script
  BY <1>3 DEF Script
<1>5. QED
  BY <1>1, <1>2, <1>4

LEMMA AtPlace ==
    ASSUME FormInv, PlaceInv, NEW p \in Processes, todo[p] # <<>>
    PROVE  /\ Place(p) \in Nat /\ Place(p) + 1 \in 1..Len(Script[p])
           /\ Head(todo[p]) = Script[p][Place(p) + 1]
           /\ Head(todo[p]) \in Steps(Script[p])
           /\ Head(todo[p]) \in Step
<1>1. todo[p] \in Seq(Step) /\ Script[p] \in Seq(Step)
  BY ScriptsAreSo DEF FormInv, ScriptFacts, Scripts
<1>2. Len(todo[p]) \in Nat /\ Len(todo[p]) > 0 /\ Len(Script[p]) \in Nat
      /\ Head(todo[p]) = todo[p][1] /\ todo[p][1] \in Step
  BY <1>1
<1>3. Place(p) \in Nat /\ Head(todo[p]) = Script[p][Place(p) + 1]
  BY <1>2 DEF PlaceInv
<1>4. Place(p) + 1 \in 1..Len(Script[p])
  <2>1. Place(p) = Len(Script[p]) - Len(todo[p])
    BY DEF Place
  <2>2. Len(todo[p]) \in Nat
    BY <1>2
  <2>3. Len(todo[p]) > 0
    BY <1>2
  <2>4. Len(Script[p]) \in Nat
    BY <1>2
  <2>5. Place(p) \in Nat
    BY <1>3
  <2>6. Place(p) + 1 >= 1 /\ Place(p) + 1 <= Len(Script[p])
    BY ONLY <2>1, <2>2, <2>3, <2>4, <2>5
  <2>7. QED
    BY ONLY <2>4, <2>5, <2>6
<1>5. QED
  BY <1>2, <1>3, <1>4 DEF Steps

\* A call that comes before what a process is about to do is made.
LEMMA MadeBefore ==
    ASSUME FormInv, PlaceInv, NEW p \in Processes, todo[p] # <<>>,
           NEW c, Call(c) \in Steps(Script[p]), Call(c) \in Calls, Call(c) # Head(todo[p]),
           NEW A, NEW B, Before(Script[p], A, B), Call(c) \in A, Head(todo[p]) \in B
    PROVE  c \in done[p]
<1>1. PICK i \in 1..Len(Script[p]) : Script[p][i] = Call(c)
  BY DEF Steps
<1>2. /\ Place(p) \in Nat /\ Place(p) + 1 \in 1..Len(Script[p])
      /\ Head(todo[p]) = Script[p][Place(p) + 1]
  BY AtPlace
<1>3. i <= Place(p) + 1 /\ i # Place(p) + 1
  BY <1>1, <1>2 DEF Before
<1>4. i \in 1..Place(p)
  BY <1>2, <1>3
<1>5. Script[p][i][2] = c
  BY <1>1 DEF Call
<1>6. QED
  BY <1>1, <1>4, <1>5 DEF PlaceInv

\* At its end a process has made all its calls.
LEMMA MadeAtEnd ==
    ASSUME FormInv, PlaceInv, NEW p \in Processes, todo[p] = <<>>,
           NEW c, Call(c) \in Steps(Script[p]), Call(c) \in Calls
    PROVE  c \in done[p]
<1>1. PICK i \in 1..Len(Script[p]) : Script[p][i] = Call(c)
  BY DEF Steps
<1>2. Script[p] \in Seq(Step)
  BY ScriptsAreSo DEF ScriptFacts, Scripts
<1>3. i \in 1..Place(p)
  BY <1>2 DEF Place
<1>4. Script[p][i][2] = c
  BY <1>1 DEF Call
<1>5. QED
  BY <1>1, <1>3, <1>4 DEF PlaceInv

\* What comes before a step that is done is not still to do.
LEMMA NotAgain ==
    ASSUME FormInv, PlaceInv, NEW p \in Processes, todo[p] # <<>>,
           NEW A, NEW B, Before(Script[p], A, B),
           NEW i \in 1..Place(p), Script[p][i] \in B
    PROVE  Head(todo[p]) \notin A
<1>1. /\ Place(p) \in Nat /\ Place(p) + 1 \in 1..Len(Script[p])
      /\ Head(todo[p]) = Script[p][Place(p) + 1]
  BY AtPlace
<1>2. i \in 1..Len(Script[p])
  BY <1>1
<1>3. QED
  BY <1>1, <1>2 DEF Before

\* Something is left to do until the last step.
LEMMA MoreToDo ==
    ASSUME FormInv, PlaceInv, NEW p \in Processes, todo[p] # <<>>, Head(todo[p]) # Final(p)
    PROVE  Tail(todo[p]) # <<>>
<1> SUFFICES ASSUME Tail(todo[p]) = <<>> PROVE Head(todo[p]) = Final(p)
  OBVIOUS
<1>1. /\ Final(p) \in Steps(Script[p]) /\ Before(Script[p], Step, {Final(p)})
      /\ Script[p] \in Seq(Step) /\ todo[p] \in Seq(Step)
  BY ScriptsAreSo DEF ScriptFacts, FormInv, Scripts
<1>2. PICK k \in 1..Len(Script[p]) : Script[p][k] = Final(p)
  BY <1>1 DEF Steps
<1>3. Len(Script[p]) \in Nat /\ Len(Script[p]) \in 1..Len(Script[p])
  BY <1>1, <1>2
<1>4. Script[p][Len(Script[p])] \in Step
  BY <1>1, <1>3
<1>5. Len(Script[p]) <= k
  BY <1>1, <1>2, <1>3, <1>4 DEF Before
<1>6. Script[p][Len(Script[p])] = Final(p)
  BY <1>2, <1>3, <1>5
<1>7. Len(todo[p]) = 1
  <2>1. Len(Tail(todo[p])) = Len(todo[p]) - 1 /\ Len(todo[p]) \in Nat
    BY <1>1
  <2>2. Len(Tail(todo[p])) = 0
    <3>1. Len(<<>>) = 0
      OBVIOUS
    <3>2. QED
      BY ONLY <3>1, Tail(todo[p]) = <<>>
  <2>3. QED
    BY <2>1, <2>2
<1>8. Place(p) + 1 = Len(Script[p])
  BY <1>3, <1>7 DEF Place
<1>9. QED
  BY <1>6, <1>8, AtPlace

\* What the steps of each process are.
LEMMA AtStep ==
    ASSUME FormInv, PlaceInv, NEW p \in Processes, todo[p] # <<>>
    PROVE  /\ At(p, "call") => /\ Head(todo[p]) = Call(What(p))
                               /\ p = "host" => What(p) \in {"create_output_pipes",
                                                             "create_control_pipe"}
                               /\ p = "launcher" => What(p) \in LauncherCalls
                               /\ p = "pid1" => What(p) \in {"mount_proc",
                                                             "install_signal_handlers"}
                               /\ p = "app" => What(p) \in AppMakes
           /\ At(p, "drop") => Head(todo[p]) = Drop(What(p)) /\ What(p) \in Pipes
           /\ At(p, "fork") => /\ Head(todo[p]) = Fork(What(p))
                               /\ p = "host" => What(p) = "launcher"
                               /\ p = "launcher" => What(p) = Second
                               /\ p = "pid1" => What(p) = "app"
                               /\ p # "app"
           /\ At(p, "wait") => p # "app"
<1> DEFINE h == Head(todo[p])
<1>1. h \in Step /\ h \in Steps(Script[p])
  BY AtPlace
<1>2. h = <<h[1], h[2]>>
  BY <1>1 DEF Step
<1>3. CASE p = "host"
  <2>1. h \in HostSteps \cup Drops \cup {Wait("launcher")}
    BY <1>1, <1>3, ScriptsAreSo DEF ScriptFacts, Final
  <2>2. QED
    BY <1>3, <2>1 DEF HostSteps, Drops, At, What, Call, Drop, Fork, Wait
<1>4. CASE p = "launcher"
  <2>1. h \in {Call(c) : c \in LauncherCalls} \cup Drops \cup {Fork(Second), Wait(Second)}
    BY <1>1, <1>4, ScriptsAreSo DEF ScriptFacts, Final
  <2>2. QED
    BY <1>4, <2>1 DEF Drops, At, What, Call, Drop, Fork, Wait
<1>5. CASE p = "pid1"
  <2>1. h \in Pid1Steps \cup Drops \cup {Wait("app")}
    BY <1>1, <1>5, ScriptsAreSo DEF ScriptFacts, Final
  <2>2. QED
    BY <1>5, <2>1 DEF Pid1Steps, Drops, At, What, Call, Drop, Fork, Wait
<1>6. CASE p = "app"
  <2>1. h \in {Call(c) : c \in AppMakes} \cup Drops
    BY <1>1, <1>6, ScriptsAreSo DEF ScriptFacts
  <2>2. QED
    BY <1>6, <2>1 DEF Drops, At, What, Call, Drop
<1>7. QED
  BY <1>3, <1>4, <1>5, <1>6 DEF Processes

\* A process takes a step.
LEMMA Advances ==
    ASSUME FormInv, PlaceInv, Script' = Script, NEW p \in Processes, todo[p] # <<>>,
           Advance(p)
    PROVE  /\ todo' \in [Processes -> Scripts]
           /\ todo'[p] = Tail(todo[p])
           /\ Place(p)' = Place(p) + 1 /\ Place(p)' \in Nat
           /\ \A i \in 1..Len(todo'[p]) : todo'[p][i] = Script[p][Place(p)' + i]
           /\ \A q \in Processes \ {p} : todo'[q] = todo[q] /\ Place(q)' = Place(q)
<1>1. /\ todo[p] \in Seq(Step) /\ Script[p] \in Seq(Step) /\ todo \in [Processes -> Seq(Step)]
  BY ScriptsAreSo DEF FormInv, ScriptFacts, Scripts
<1>2. todo' = [todo EXCEPT ![p] = Tail(todo[p])]
  BY DEF Advance
<1>3. todo'[p] = Tail(todo[p]) /\ \A q \in Processes \ {p} : todo'[q] = todo[q]
  BY <1>1, <1>2
<1>4. /\ Tail(todo[p]) \in Seq(Step) /\ Len(todo[p]) \in Nat /\ Len(todo[p]) > 0
      /\ Len(Tail(todo[p])) = Len(todo[p]) - 1
      /\ \A i \in 1..Len(Tail(todo[p])) : Tail(todo[p])[i] = todo[p][i + 1]
  BY <1>1
<1>5. todo' \in [Processes -> Scripts]
  BY <1>1, <1>2, <1>4 DEF Scripts
<1>6. Place(p)' = Place(p) + 1 /\ Place(p)' \in Nat
  BY <1>1, <1>3, <1>4 DEF Place, PlaceInv
<1>7. \A q \in Processes \ {p} : Place(q)' = Place(q)
  BY <1>3 DEF Place
<1>8. ASSUME NEW i \in 1..Len(todo'[p]) PROVE todo'[p][i] = Script[p][Place(p)' + i]
  <2>1. todo'[p][i] = todo[p][i + 1] /\ i + 1 \in 1..Len(todo[p])
    BY <1>3, <1>4
  <2>2. todo[p][i + 1] = Script[p][Place(p) + (i + 1)]
    BY <2>1 DEF PlaceInv
  <2>3. Place(p) \in Nat
    BY DEF PlaceInv
  <2>4. Place(p) + (i + 1) = Place(p)' + i
    BY <1>6, <2>3
  <2>5. QED
    BY <2>1, <2>2, <2>4
<1>9. QED
  BY <1>3, <1>5, <1>6, <1>7, <1>8

LEMMA PlaceAfter ==
    ASSUME FormInv, PlaceInv, Script' = Script, NEW p \in Processes, todo[p] # <<>>,
           Advance(p), done[p] \subseteq done'[p],
           Head(todo[p]) \in Calls => Head(todo[p])[2] \in done'[p],
           \A q \in Processes \ {p} : done[q] \subseteq done'[q] \/ Place(q) = 0
    PROVE  PlaceInv'
<1>1. /\ todo'[p] = Tail(todo[p])
      /\ Place(p)' = Place(p) + 1 /\ Place(p)' \in Nat
      /\ \A i \in 1..Len(todo'[p]) : todo'[p][i] = Script[p][Place(p)' + i]
      /\ \A q \in Processes \ {p} : todo'[q] = todo[q] /\ Place(q)' = Place(q)
  BY Advances
<1>2. Head(todo[p]) = Script[p][Place(p) + 1] /\ Place(p) \in Nat
  BY AtPlace
<1>3. ASSUME NEW i \in 1..Place(p)', Script[p][i] \in Calls
      PROVE  Script[p][i][2] \in done'[p]
  <2>1. CASE i \in 1..Place(p)
    BY <1>3, <2>1 DEF PlaceInv
  <2>2. CASE i = Place(p) + 1
    BY <1>2, <1>3, <2>2
  <2>3. QED
    BY <1>1, <1>2, <2>1, <2>2
<1>4. ASSUME NEW q \in Processes \ {p}
      PROVE  /\ Place(q)' \in Nat
             /\ \A i \in 1..Len(todo'[q]) : todo'[q][i] = Script[q][Place(q)' + i]
             /\ \A i \in 1..Place(q)' : Script[q][i] \in Calls => Script[q][i][2] \in done'[q]
  BY <1>1 DEF PlaceInv
<1>5. QED
  BY <1>1, <1>3, <1>4 DEF PlaceInv

\* Places only grow, so whoever was born stays born of its parent.
LEMMA BirthAfter ==
    ASSUME FormInv, PlaceInv, BirthInv, policy' = policy, NEW p \in Processes,
           todo[p] # <<>>, Advance(p), life[p] = "live", life' = life
    PROVE  BirthInv'
<1>1. Script' = Script /\ Second' = Second
  BY ScriptsStay
<1>2. /\ Place(p)' = Place(p) + 1
      /\ \A q \in Processes : Place(q) \in Nat
      /\ \A q \in Processes \ {p} : Place(q)' = Place(q)
  BY <1>1, Advances DEF PlaceInv
<1>3. ASSUME NEW q \in Processes, NEW i \in 1..Place(q) PROVE i \in 1..Place(q)'
  BY <1>2, <1>3
<1>4. \A q \in Processes : Parent(q)' = Parent(q) /\ Parent(q) \in Processes
  BY <1>1 DEF Parent, Processes, Second
<1>5. ASSUME NEW q \in Processes \ {"host"}, life[q] # "unborn"
      PROVE  \E i \in 1..Place(Parent(q))' : Script[Parent(q)][i] = Fork(q)
  <2>1. PICK i \in 1..Place(Parent(q)) : Script[Parent(q)][i] = Fork(q)
    BY <1>5 DEF BirthInv
  <2>2. i \in 1..Place(Parent(q))'
    BY <1>3, <1>4
  <2>3. QED
    BY <2>1, <2>2
<1>6. ASSUME NEW q \in Processes \ {"host"}, life[q] # "unborn"
      PROVE  (\E i \in 1..Place(Parent(q)) : Script[Parent(q)][i] = Fork(q))'
  <2>1. PICK i \in 1..Place(Parent(q))' : Script[Parent(q)][i] = Fork(q)
    BY <1>5, <1>6
  <2>2. QED
    BY <1>1, <1>4, <2>1
<1>7. ASSUME NEW q \in Processes \ {"host"}, life[q] = "unborn" PROVE Place(q)' = 0
  BY <1>2, <1>7 DEF BirthInv
<1>8. QED
  BY <1>6, <1>7 DEF BirthInv

-----------------------------------------------------------------------------
(* The steps.                                                              *)

LEMMA InvInit == Init => Inv
<1> SUFFICES ASSUME Init PROVE Inv
  OBVIOUS
<1>1. \A p \in Processes : Script[p] \in Scripts
  BY ScriptsAreSo DEF ScriptFacts
<1>2. FormInv
  <2>1. Script \in [Processes -> Scripts]
    BY <1>1 DEF Script
  <2>2. QED
    BY <2>1 DEF Init, FormInv
<1>3. \A p \in Processes : Len(Script[p]) \in Nat /\ Place(p) = 0
  BY <1>1 DEF Place, Init, Scripts
<1>4. PlaceInv
  <2>1. ASSUME NEW p \in Processes, NEW i \in 1..Len(todo[p])
        PROVE  todo[p][i] = Script[p][Place(p) + i]
    <3>1. Place(p) + i = i
      BY <1>3
    <3>2. QED
      BY <3>1 DEF Init
  <2>2. QED
    BY <1>3, <2>1 DEF PlaceInv
<1>5. LiveInv
  <2>1. ASSUME NEW p \in Processes PROVE todo[p] # <<>>
    <3>1. Final(p) \in Steps(Script[p])
      BY ScriptsAreSo DEF ScriptFacts
    <3>2. Script[p] # <<>>
      BY <3>1, StepsOfNothing
    <3>3. QED
      BY <3>2 DEF Init
  <2>2. QED
    BY <2>1 DEF LiveInv
<1>6. BirthInv
  BY <1>3 DEF Init, BirthInv, Processes
<1>7. InheritedInv
  BY DEF Init, InheritedInv, Processes
<1>8. DescriptorInv
  BY DEF Init, DescriptorInv, OnlyItsDescriptors, Running, Processes
<1>9. QED
  BY <1>2, <1>4, <1>5, <1>6, <1>7, <1>8 DEF Inv

\* A call that was granted is made.
LEMMA InvMakeCall == ASSUME Inv, NEW p \in Processes, MakeCall(p) PROVE Inv'
<1> DEFINE c == What(p)
<1>1. FormInv /\ PlaceInv /\ LiveInv /\ BirthInv /\ InheritedInv /\ DescriptorInv
  BY DEF Inv
<1>2. /\ At(p, "call") /\ life[p] = "live" /\ todo[p] # <<>>
      /\ done' = [done EXCEPT ![p] = @ \cup Marks(c)]
      /\ held' = [held EXCEPT ![p] = HeldAfter(p, c)]
      /\ cloexec' = CloexecAfter(c)
      /\ Advance(p)
      /\ UNCHANGED <<policy, privileged, life>>
  BY DEF MakeCall, At
<1>3. /\ Script' = Script /\ Flags' = Flags /\ Second' = Second
      /\ LauncherCalls' = LauncherCalls
  BY <1>2, ScriptsStay
<1>4. /\ Head(todo[p]) = Call(c)
      /\ p = "host" => c \in {"create_output_pipes", "create_control_pipe"}
      /\ p = "launcher" => c \in LauncherCalls
      /\ p = "pid1" => c \in {"mount_proc", "install_signal_handlers"}
      /\ p = "app" => c \in AppMakes
  BY <1>1, <1>2, AtStep
<1>5. p # "app" => c \notin AppCalls
  BY <1>4 DEF LauncherCalls, AppCalls, Processes
<1>6. AppMakes \subseteq AppCalls /\ Flags \subseteq {"uts", "ipc", "network", "mount"}
  BY DEF AppMakes, Flags
<1>7. Head(todo[p]) \in Calls /\ Head(todo[p])[2] = c /\ c \in Names
  <2>1. Head(todo[p]) \in Step
    BY <1>1, <1>2, AtPlace
  <2>2. QED
    BY <1>4, <2>1 DEF Step, Calls, Call
<1>8. /\ done'[p] = done[p] \cup Marks(c)
      /\ \A q \in Processes \ {p} : done'[q] = done[q]
      /\ held'[p] = HeldAfter(p, c)
      /\ \A q \in Processes \ {p} : held'[q] = held[q]
  BY <1>1, <1>2 DEF FormInv
<1>9. todo' \in [Processes -> Scripts] /\ todo'[p] = Tail(todo[p])
      /\ Place(p)' = Place(p) + 1 /\ Place(p) \in Nat
      /\ \A q \in Processes \ {p} : todo'[q] = todo[q]
      /\ Head(todo[p]) = Script[p][Place(p) + 1]
  BY <1>1, <1>2, <1>3, Advances, AtPlace
<1>10. c \in Marks(c) /\ Marks(c) \subseteq {c} \cup Flags
  BY DEF Marks
<1>11. FormInv'
  <2>1. done' \in [Processes -> SUBSET (Names \cup {"uts", "ipc", "network", "mount"})]
    BY <1>1, <1>2, <1>6, <1>7, <1>10 DEF FormInv
  <2>2. HeldAfter(p, c) \subseteq Pipes \cup {"executable", "inherited", "output"}
    BY <1>1 DEF FormInv, HeldAfter, Pipes
  <2>3. held' \in [Processes -> SUBSET (Pipes \cup {"executable", "inherited", "output"})]
    BY <1>1, <1>2, <2>2 DEF FormInv
  <2>4. cloexec' \subseteq Pipes \cup {"executable", "inherited"}
    BY <1>1, <1>2 DEF FormInv, CloexecAfter
  <2>5. (policy \in Policies /\ Valid(policy))'
    BY <1>1, <1>2 DEF FormInv, Policies, Valid
  <2>6. QED
    BY <1>1, <1>2, <1>9, <2>1, <2>3, <2>4, <2>5 DEF FormInv
<1>12. PlaceInv'
  BY <1>1, <1>2, <1>3, <1>7, <1>8, <1>10, PlaceAfter
<1>13. BirthInv'
  BY <1>1, <1>2, BirthAfter
<1>14. p = "app" => "execveat" \notin done["app"]
  <2> SUFFICES ASSUME p = "app", "execveat" \in done["app"] PROVE FALSE
    OBVIOUS
  <2>1. PICK i \in 1..Place("app") : Script["app"][i] = Call("execveat")
    BY <1>1 DEF InheritedInv, AppCalls
  <2>2. Before(Script[p], Step, {Call("execveat")}) /\ Head(todo[p]) \in Step
    BY <1>1, <1>2, AtPlace, ScriptsAreSo DEF ScriptFacts, Final
  <2>3. Head(todo[p]) \notin Step
    BY ONLY <1>1, <1>2, <2>1, <2>2, NotAgain, p \in Processes, p = "app"
  <2>4. QED
    BY <2>2, <2>3
<1>15. LiveInv'
  <2>1. CASE c # "execveat"
    <3>1. Head(todo[p]) # Final(p)
      BY <1>4, <2>1 DEF Final, Call, Wait
    <3>2. Tail(todo[p]) # <<>>
      BY <1>1, <1>2, <3>1, MoreToDo
    <3>3. Running => Running'
      BY <1>2, <1>8 DEF Running
    <3>4. QED
      BY <1>1, <1>2, <1>9, <3>2, <3>3 DEF LiveInv
  <2>2. CASE c = "execveat"
    <3>1. p = "app"
      BY <1>5, <2>2 DEF AppCalls
    <3>2. Running'
      BY <1>2, <1>8, <1>10, <2>2, <3>1 DEF Running
    <3>3. QED
      BY <1>1, <1>2, <1>9, <3>1, <3>2 DEF LiveInv
  <2>3. QED
    BY <2>1, <2>2
<1>16. InheritedInv'
  <2>1. ASSUME NEW q \in Processes
        PROVE  /\ "unshare" \in done'[q] => Flags \subseteq done'[q]
               /\ "unshare_user" \in done'[q] => policy.namespaces # {}
               /\ q # "app" => done'[q] \cap AppCalls = {}
               /\ q \in {"pid1", "app"} /\ life[q] # "unborn" => LauncherCalls \subseteq done'[q]
    <3>1. CASE q # p
      BY <1>1, <1>8, <3>1 DEF InheritedInv
    <3>2. CASE q = p
      <4>1. "unshare" \in done'[p] => Flags \subseteq done'[p]
        BY <1>1, <1>6, <1>8, <1>10 DEF InheritedInv, Marks
      <4>2. p # "app" => done'[p] \cap AppCalls = {}
        <5>1. Flags \cap AppCalls = {}
          BY <1>6 DEF AppCalls
        <5>2. QED
          BY <1>1, <1>5, <1>8, <1>10, <5>1 DEF InheritedInv
      <4>3. p \in {"pid1", "app"} /\ life[p] # "unborn" => LauncherCalls \subseteq done'[p]
        BY <1>1, <1>8 DEF InheritedInv
      <4>4. "unshare_user" \in done'[p] => policy.namespaces # {}
        <5>1. c = "unshare_user" => policy.namespaces # {}
          BY <1>4 DEF LauncherCalls, AppMakes, AppCalls, Processes
        <5>2. QED
          BY <1>1, <1>6, <1>8, <1>10, <5>1 DEF InheritedInv
      <4>5. QED
        BY <3>2, <4>1, <4>2, <4>3, <4>4
    <3>3. QED
      BY <3>1, <3>2
  <2>2. life["app"] # "unborn" /\ "pid" \in policy.namespaces => "mount_proc" \in done'["app"]
    BY <1>1, <1>8 DEF InheritedInv, Processes
  <2>3. ASSUME NEW d \in done'["app"] \cap AppCalls
        PROVE  \E i \in 1..Place("app")' : Script["app"][i] = Call(d)
    <3>1. "app" \in Processes /\ Place("app") \in Nat
      BY <1>1 DEF Processes, PlaceInv
    <3>2. Place("app")' = (IF p = "app" THEN Place("app") + 1 ELSE Place("app"))
      BY <1>3, <1>9, <3>1 DEF Place
    <3>3. CASE d \in done["app"]
      <4>1. PICK i \in 1..Place("app") : Script["app"][i] = Call(d)
        BY <1>1, <2>3, <3>3 DEF InheritedInv
      <4>2. i \in 1..Place("app")'
        BY <3>1, <3>2
      <4>3. QED
        BY <4>1, <4>2
    <3>4. CASE d \notin done["app"]
      <4>1. p = "app" /\ d \in Marks(c)
        BY <1>8, <2>3, <3>1, <3>4
      <4>2. d = c
        BY <1>6, <1>10, <2>3, <4>1 DEF AppCalls
      <4>3. Script["app"][Place("app") + 1] = Call(d) /\ Place("app")' = Place("app") + 1
        <5>1. Place("app")' = Place("app") + 1
          BY <3>2, <4>1
        <5>2. Head(todo[p]) = Call(d)
          BY <1>4, <4>2
        <5>3. Head(todo["app"]) = Script["app"][Place("app") + 1]
          BY <1>1, <1>2, <4>1, AtPlace
        <5>4. QED
          BY <4>1, <5>1, <5>2, <5>3
      <4>4. Place("app") + 1 \in 1..Place("app")'
        BY <3>1, <4>3
      <4>5. QED
        BY <4>3, <4>4
    <3>5. QED
      BY <3>3, <3>4
  <2>4. QED
    BY <1>2, <1>3, <2>1, <2>2, <2>3 DEF InheritedInv
<1>17. DescriptorInv'
  <2>1. c = "execveat" => p = "app" /\ "executable" \notin cloexec
                            /\ Pipes \cup {"inherited"} \subseteq cloexec
                            /\ "output" \in held["app"]
    <3> SUFFICES ASSUME c = "execveat"
                 PROVE  /\ p = "app" /\ "executable" \notin cloexec
                        /\ Pipes \cup {"inherited"} \subseteq cloexec
                        /\ "output" \in held["app"]
      OBVIOUS
    <3>1. p = "app"
      BY <1>5 DEF AppCalls
    <3>2. /\ Before(Script[p], Step, {Call("execveat")})
          /\ \A d \in AppMakes : Call(d) \in Steps(Script[p])
      BY <3>1, ScriptsAreSo DEF ScriptFacts, Final, Processes
    <3>3. ASSUME NEW d \in {"redirect_output", "close_range", "keep_executable"}
          PROVE  d \in done[p]
      <4>1. d \in AppMakes /\ d # c
        BY DEF AppMakes, AppCalls
      <4>2. Call(d) \in Calls /\ Call(d) \in Step /\ Call(d) # Head(todo[p])
        BY <1>4, <4>1, AreSteps DEF Names, AppMakes, AppCalls, Call
      <4>3. Call(d) \in Steps(Script[p]) /\ Head(todo[p]) \in {Call("execveat")}
        BY <1>4, <3>2, <4>1
      <4>4. QED
        BY ONLY <1>1, <1>2, <3>2, <4>2, <4>3, MadeBefore, p \in Processes
    <3>4. QED
      BY <1>1, <1>2, <3>1, <3>3 DEF DescriptorInv
  <2>2. c = "close_range" => "keep_executable" \notin done["app"]
    <3> SUFFICES ASSUME c = "close_range", "keep_executable" \in done["app"] PROVE FALSE
      OBVIOUS
    <3>1. p = "app"
      BY <1>5 DEF AppCalls
    <3>2. PICK i \in 1..Place("app") : Script["app"][i] = Call("keep_executable")
      BY <1>1 DEF InheritedInv, AppCalls
    <3>3. Before(Script[p], {Call("close_range")}, {Call("keep_executable")})
      BY <3>1, ScriptsAreSo DEF ScriptFacts
    <3>4. Head(todo[p]) \notin {Call("close_range")}
      BY ONLY <1>1, <1>2, <3>1, <3>2, <3>3, NotAgain, p \in Processes
    <3>5. QED
      BY <1>4, <3>4
  <2>3. \A d \in {"redirect_output", "close_range", "keep_executable", "execveat"} :
            d \in done'["app"] => d \in done["app"] \/ (p = "app" /\ d = c)
    BY <1>6, <1>8, <1>10 DEF Processes
  <2>4. ASSUME NEW q \in Processes, life[q] = "live" PROVE "executable" \in held'[q]
    <3>1. "executable" \in held[q]
      BY <1>1, <2>4 DEF DescriptorInv
    <3>2. QED
      BY <1>8, <2>1, <3>1 DEF HeldAfter
  <2>5. "redirect_output" \in done'["app"] /\ life["app"] = "live" => "output" \in held'["app"]
    <3> SUFFICES ASSUME "redirect_output" \in done'["app"], life["app"] = "live"
                 PROVE  "output" \in held'["app"]
      OBVIOUS
    <3>1. CASE p = "app" /\ c = "redirect_output"
      BY <1>8, <3>1 DEF HeldAfter
    <3>2. CASE "redirect_output" \in done["app"]
      <4>1. "output" \in held["app"]
        BY <1>1, <3>2 DEF DescriptorInv
      <4>2. "output" \notin cloexec
        BY <1>1 DEF FormInv, Pipes
      <4>3. QED
        BY <1>8, <4>1, <4>2 DEF HeldAfter, Processes
    <3>3. QED
      BY <2>3, <3>1, <3>2
  <2>6. "close_range" \in done'["app"] => Pipes \cup {"inherited"} \subseteq cloexec'
    <3>1. c = "close_range" => Pipes \cup {"inherited"} \subseteq cloexec'
      BY <1>2 DEF CloexecAfter
    <3>2. cloexec \ {"executable"} \subseteq cloexec' \/ c = "close_range"
      BY <1>2 DEF CloexecAfter
    <3>3. "executable" \notin Pipes
      BY DEF Pipes
    <3>4. QED
      BY <1>1, <2>3, <3>1, <3>2, <3>3 DEF DescriptorInv
  <2>7. "keep_executable" \in done'["app"] => "executable" \notin cloexec'
    <3>1. c = "keep_executable" => "executable" \notin cloexec'
      BY <1>2 DEF CloexecAfter
    <3>2. c # "close_range" /\ "executable" \notin cloexec => "executable" \notin cloexec'
      BY <1>2 DEF CloexecAfter, Pipes
    <3>3. c = "close_range" => "keep_executable" \notin done'["app"]
      BY <2>2, <2>3
    <3>4. QED
      BY <1>1, <2>3, <3>1, <3>2, <3>3 DEF DescriptorInv
  <2>8. OnlyItsDescriptors'
    <3>1. CASE p = "app" /\ c = "execveat"
      <4>1. held'["app"] = held["app"] \ cloexec
        BY <1>8, <3>1 DEF HeldAfter
      <4>2. "executable" \in held["app"] /\ "output" \notin cloexec
            /\ held["app"] \subseteq Pipes \cup {"executable", "inherited", "output"}
        BY <1>1, <1>2, <3>1 DEF DescriptorInv, FormInv, Pipes
      <4>3. QED
        BY <2>1, <3>1, <4>1, <4>2 DEF OnlyItsDescriptors
    <3>2. CASE ~(p = "app" /\ c = "execveat")
      <4>1. Running' => Running /\ p # "app"
        BY <1>2, <1>14, <2>3, <3>2 DEF Running
      <4>2. p # "app" => held'["app"] = held["app"]
        BY <1>8 DEF Processes
      <4>3. QED
        BY <1>1, <4>1, <4>2 DEF OnlyItsDescriptors, DescriptorInv
    <3>3. QED
      BY <3>1, <3>2
  <2>9. QED
    BY <1>2, <2>4, <2>5, <2>6, <2>7, <2>8 DEF DescriptorInv
<1>18. QED
  BY <1>11, <1>12, <1>13, <1>15, <1>16, <1>17 DEF Inv

\* An end is closed.
LEMMA InvDropEnd == ASSUME Inv, NEW p \in Processes, DropEnd(p) PROVE Inv'
<1>1. FormInv /\ PlaceInv /\ LiveInv /\ BirthInv /\ InheritedInv /\ DescriptorInv
  BY DEF Inv
<1>2. /\ At(p, "drop") /\ life[p] = "live" /\ todo[p] # <<>>
      /\ held' = [held EXCEPT ![p] = @ \ {What(p)}]
      /\ Advance(p)
      /\ UNCHANGED <<policy, privileged, life, done, cloexec>>
  BY DEF DropEnd, At
<1>3. /\ Script' = Script /\ Flags' = Flags /\ Second' = Second
      /\ LauncherCalls' = LauncherCalls
  BY <1>2, ScriptsStay
<1>4. Head(todo[p]) = Drop(What(p)) /\ What(p) \in Pipes
  BY <1>1, <1>2, AtStep
<1>5. Head(todo[p]) \notin Calls /\ Head(todo[p]) # Final(p)
  BY <1>4 DEF Calls, Final, Call, Drop, Wait
<1>6. todo' \in [Processes -> Scripts] /\ todo'[p] = Tail(todo[p])
      /\ Place(p)' = Place(p) + 1
      /\ \A q \in Processes \ {p} : todo'[q] = todo[q]
  BY <1>1, <1>2, <1>3, Advances
<1>7. /\ held'[p] = held[p] \ {What(p)}
      /\ \A q \in Processes \ {p} : held'[q] = held[q]
  BY <1>1, <1>2 DEF FormInv
<1>8. FormInv'
  <2>1. (policy \in Policies /\ Valid(policy))'
    BY <1>1, <1>2 DEF FormInv, Policies, Valid
  <2>2. QED
    BY <1>1, <1>2, <1>6, <2>1 DEF FormInv
<1>9. PlaceInv'
  BY <1>1, <1>2, <1>3, <1>5, PlaceAfter
<1>10. BirthInv'
  BY <1>1, <1>2, BirthAfter
<1>11. LiveInv'
  <2>1. Tail(todo[p]) # <<>>
    BY <1>1, <1>2, <1>5, MoreToDo
  <2>2. QED
    BY <1>1, <1>2, <1>6, <2>1 DEF LiveInv, Running
<1>12. InheritedInv'
  <2>1. ASSUME NEW d \in done["app"] \cap AppCalls
        PROVE  \E i \in 1..Place("app")' : Script["app"][i] = Call(d)
    <3>1. PICK i \in 1..Place("app") : Script["app"][i] = Call(d)
      BY <1>1 DEF InheritedInv
    <3>2. Place("app") \in Nat
      BY <1>1 DEF PlaceInv, Processes
    <3>3. Place("app")' = Place("app") \/ Place("app")' = Place("app") + 1
      BY <1>3, <1>6 DEF Place, Processes
    <3>4. i \in 1..Place("app")'
      BY <3>2, <3>3
    <3>5. QED
      BY <3>1, <3>4
  <2>2. QED
    BY <1>1, <1>2, <1>3, <2>1 DEF InheritedInv
<1>13. DescriptorInv'
  <2>1. "executable" \notin Pipes /\ "output" \notin Pipes
    BY DEF Pipes
  <2>2. \A q \in Processes : {"executable", "output"} \cap held[q] \subseteq held'[q]
    BY <1>4, <1>7, <2>1
  <2>3. Running => p # "app"
    <3> SUFFICES ASSUME Running, p = "app" PROVE FALSE
      OBVIOUS
    <3>1. PICK i \in 1..Place("app") : Script["app"][i] = Call("execveat")
      BY <1>1 DEF Running, InheritedInv, AppCalls
    <3>2. Before(Script[p], Step, {Call("execveat")}) /\ Head(todo[p]) \in Step
      BY <1>1, <1>2, AtPlace, ScriptsAreSo DEF ScriptFacts, Final
    <3>3. Head(todo[p]) \notin Step
      BY ONLY <1>1, <1>2, <3>1, <3>2, NotAgain, p \in Processes, p = "app"
    <3>4. QED
      BY <3>2, <3>3
  <2>4. OnlyItsDescriptors'
    BY <1>1, <1>2, <1>7, <2>3 DEF DescriptorInv, OnlyItsDescriptors, Running, Processes
  <2>5. QED
    BY <1>1, <1>2, <2>2, <2>4 DEF DescriptorInv, Processes
<1>14. QED
  BY <1>8, <1>9, <1>10, <1>11, <1>12, <1>13 DEF Inv

\* A child is born with what its parent has done and holds, and nobody is born twice.
LEMMA InvForkChild ==
    ASSUME Inv, NEW p \in Processes, ForkChild(p), NEW q, q = What(p)
    PROVE  Inv'
<1>1. FormInv /\ PlaceInv /\ LiveInv /\ BirthInv /\ InheritedInv /\ DescriptorInv
  BY DEF Inv
<1>2. /\ At(p, "fork") /\ life[p] = "live" /\ todo[p] # <<>>
      /\ life' = [life EXCEPT ![q] = "live"]
      /\ done' = [done EXCEPT ![q] = done[p]]
      /\ held' = [held EXCEPT ![q] = held[p]]
      /\ Advance(p)
      /\ UNCHANGED <<policy, privileged, cloexec>>
  BY DEF ForkChild, At
<1>3. /\ Script' = Script /\ Flags' = Flags /\ Second' = Second
      /\ LauncherCalls' = LauncherCalls
  BY <1>2, ScriptsStay
<1>4. /\ Head(todo[p]) = Fork(q)
      /\ p = "host" => q = "launcher"
      /\ p = "launcher" => q = Second
      /\ p = "pid1" => q = "app"
      /\ p # "app"
  BY <1>1, <1>2, AtStep
<1>5. /\ q \in Processes \ {"host", p} /\ p = Parent(q)
      /\ q = "pid1" => "pid" \in policy.namespaces /\ p = "launcher"
      /\ q = "app" => p = (IF "pid" \in policy.namespaces THEN "pid1" ELSE "launcher")
      /\ q = "launcher" => p = "host"
  <2>1. p = "pid1" => "pid" \in policy.namespaces
    BY <1>1, <1>2 DEF BirthInv
  <2>2. QED
    BY <1>4, <2>1 DEF Parent, Processes, Second
<1>6. life[q] = "unborn" /\ Place(q) = 0
  <2> SUFFICES ASSUME life[q] # "unborn" PROVE FALSE
    BY <1>1, <1>5 DEF BirthInv
  <2>1. PICK i \in 1..Place(p) : Script[p][i] = Fork(q)
    BY <1>1, <1>5 DEF BirthInv
  <2>2. Fork(q) \in Forks
    BY <1>5, AreSteps DEF Names
  <2>3. Before(Script[p], Forks, Forks)
    BY ScriptsAreSo DEF ScriptFacts
  <2>4. Head(todo[p]) \notin Forks
    BY ONLY <1>1, <1>2, <2>1, <2>2, <2>3, NotAgain, p \in Processes
  <2>5. QED
    BY <1>4, <2>2, <2>4
<1>7. /\ life'[q] = "live" /\ done'[q] = done[p] /\ held'[q] = held[p]
      /\ \A r \in Processes \ {q} :
            life'[r] = life[r] /\ done'[r] = done[r] /\ held'[r] = held[r]
  BY <1>1, <1>2, <1>5 DEF FormInv
<1>8. todo' \in [Processes -> Scripts] /\ todo'[p] = Tail(todo[p])
      /\ Place(p)' = Place(p) + 1 /\ Place(p)' \in Nat
      /\ \A r \in Processes \ {p} : todo'[r] = todo[r] /\ Place(r)' = Place(r)
  BY <1>1, <1>2, <1>3, Advances
<1>9. Head(todo[p]) = Script[p][Place(p) + 1] /\ Place(p) \in Nat
  BY <1>1, <1>2, AtPlace
<1>10. FormInv'
  <2>1. (policy \in Policies /\ Valid(policy))'
    BY <1>1, <1>2 DEF FormInv, Policies, Valid
  <2>2. QED
    BY <1>1, <1>2, <1>5, <1>8, <2>1 DEF FormInv
<1>11. Head(todo[p]) \notin Calls
  BY <1>4 DEF Calls, Fork
<1>12. PlaceInv'
  <2>1. \A r \in Processes \ {p} : done[r] \subseteq done'[r] \/ Place(r) = 0
    BY <1>6, <1>7
  <2>2. done[p] \subseteq done'[p]
    BY <1>5, <1>7
  <2>3. QED
    BY <1>1, <1>2, <1>3, <1>11, <2>1, <2>2, PlaceAfter
<1>13. LiveInv'
  <2>1. Tail(todo[p]) # <<>>
    <3>1. Head(todo[p]) # Final(p)
      BY <1>4 DEF Final, Call, Fork, Wait
    <3>2. QED
      BY <1>1, <1>2, <3>1, MoreToDo
  <2>2. todo'[q] # <<>>
    <3>1. Final(q) \in Steps(Script[q]) /\ Script[q] \in Seq(Step) /\ todo[q] \in Seq(Step)
      BY <1>1, <1>5, ScriptsAreSo DEF ScriptFacts, Scripts, FormInv
    <3>2. todo'[q] = todo[q]
      BY <1>5, <1>8
    <3>3. ASSUME todo[q] = <<>> PROVE FALSE
      <4>1. Len(todo[q]) = 0
        <5>1. Len(<<>>) = 0
          OBVIOUS
        <5>2. QED
          BY ONLY <3>3, <5>1
      <4>2. Len(Script[q]) = 0
        BY <1>6, <3>1, <4>1 DEF Place
      <4>3. QED
        BY <3>1, <4>2 DEF Steps
    <3>4. QED
      BY <3>2, <3>3
  <2>3. ASSUME NEW r \in Processes, life'[r] = "live"
        PROVE  todo'[r] # <<>> \/ (r = "app" /\ Running')
    <3>1. CASE r = p
      BY <1>8, <2>1, <3>1
    <3>2. CASE r = q
      BY <2>2, <3>2
    <3>3. CASE r \notin {p, q}
      BY <1>1, <1>7, <1>8, <2>3, <3>3 DEF LiveInv, Running
    <3>4. QED
      BY <3>1, <3>2, <3>3
  <2>4. QED
    BY <2>3 DEF LiveInv
<1>14. BirthInv'
  <2>1. life'["host"] # "unborn"
    BY <1>1, <1>5, <1>7 DEF BirthInv, Processes
  <2>2. life'["pid1"] # "unborn" => "pid" \in policy.namespaces
    BY <1>1, <1>5, <1>7 DEF BirthInv, Processes
  <2>3. ASSUME NEW r \in Processes \ {"host"}, life'[r] = "unborn" PROVE Place(r)' = 0
    <3>1. r # q /\ r # p
      BY <1>2, <1>5, <1>7, <2>3
    <3>2. QED
      BY <1>1, <1>7, <1>8, <2>3, <3>1 DEF BirthInv
  <2>4. ASSUME NEW r \in Processes \ {"host"}, life'[r] # "unborn"
        PROVE  \E i \in 1..Place(Parent(r))' : Script[Parent(r)][i] = Fork(r)
    <3>1. CASE r = q
      <4>1. Place(p) + 1 \in 1..Place(p)' /\ Script[p][Place(p) + 1] = Fork(q)
        BY <1>4, <1>8, <1>9
      <4>2. Place(Parent(q))' = Place(p)'
        <5>1. Parent(q)' = p
          BY <1>3, <1>5 DEF Parent
        <5>2. QED
          BY <5>1 DEF Place
      <4>3. Place(p) + 1 \in 1..Place(Parent(q))' /\ Script[Parent(q)][Place(p) + 1] = Fork(q)
        BY <1>5, <4>1, <4>2
      <4>4. QED
        BY <3>1, <4>3
    <3>2. CASE r # q
      <4>1. PICK i \in 1..Place(Parent(r)) : Script[Parent(r)][i] = Fork(r)
        BY <1>1, <1>7, <2>4, <3>2 DEF BirthInv
      <4>2. Parent(r) \in Processes /\ Place(Parent(r)) \in Nat
        BY <1>1 DEF Parent, Processes, PlaceInv
      <4>3. \/ Place(Parent(r))' = Place(Parent(r))
            \/ Place(Parent(r))' = Place(Parent(r)) + 1
        BY <1>3, <1>8, <4>2 DEF Place, Parent
      <4>4. i \in 1..Place(Parent(r))'
        BY <4>2, <4>3
      <4>5. QED
        BY <4>1, <4>4
    <3>3. QED
      BY <3>1, <3>2
  <2>5. \A r \in Processes : Parent(r)' = Parent(r)
    BY <1>3 DEF Parent
  <2>6. QED
    BY <1>2, <1>3, <2>1, <2>2, <2>3, <2>4, <2>5 DEF BirthInv
<1>15. p = "launcher" => LauncherCalls \subseteq done[p]
  <2> SUFFICES ASSUME p = "launcher", NEW c \in LauncherCalls PROVE c \in done[p]
    OBVIOUS
  <2>1. Call(c) \in Steps(Script[p]) /\ Before(Script[p], Calls, Forks)
    BY ScriptsAreSo DEF ScriptFacts
  <2>2. Call(c) \in Calls /\ Fork(q) \in Forks /\ Call(c) # Fork(q)
    BY <1>5, AreSteps DEF LauncherCalls, Names, Call, Fork
  <2>3. Head(todo[p]) \in Forks /\ Call(c) # Head(todo[p])
    BY <1>4, <2>2
  <2>4. QED
    BY ONLY <1>1, <1>2, <2>1, <2>2, <2>3, MadeBefore, p \in Processes
<1>16. p = "pid1" => "mount_proc" \in done[p]
  <2> SUFFICES ASSUME p = "pid1" PROVE "mount_proc" \in done[p]
    OBVIOUS
  <2>1. /\ Call("mount_proc") \in Steps(Script[p])
        /\ Before(Script[p], {Call("mount_proc")}, Forks)
    BY ScriptsAreSo DEF ScriptFacts
  <2>2. Call("mount_proc") \in Calls /\ Fork(q) \in Forks /\ Call("mount_proc") # Fork(q)
    BY <1>5, AreSteps DEF Names, Call, Fork
  <2>3. Head(todo[p]) \in Forks /\ Call("mount_proc") # Head(todo[p])
    BY <1>4, <2>2
  <2>4. QED
    BY ONLY <1>1, <1>2, <2>1, <2>2, <2>3, MadeBefore, p \in Processes
<1>17. InheritedInv'
  <2>1. ASSUME NEW r \in Processes
        PROVE  /\ "unshare" \in done'[r] => Flags \subseteq done'[r]
               /\ "unshare_user" \in done'[r] => policy.namespaces # {}
               /\ r # "app" => done'[r] \cap AppCalls = {}
               /\ r \in {"pid1", "app"} /\ life'[r] # "unborn" => LauncherCalls \subseteq done'[r]
    <3>1. CASE r = q
      <4>1. q \in {"pid1", "app"} => LauncherCalls \subseteq done[p]
        BY <1>1, <1>2, <1>5, <1>15 DEF InheritedInv
      <4>2. QED
        BY <1>1, <1>4, <1>7, <3>1, <4>1 DEF InheritedInv
    <3>2. CASE r # q
      BY <1>1, <1>7, <3>2 DEF InheritedInv
    <3>3. QED
      BY <3>1, <3>2
  <2>2. life'["app"] # "unborn" /\ "pid" \in policy.namespaces => "mount_proc" \in done'["app"]
    BY <1>1, <1>5, <1>7, <1>16 DEF InheritedInv, Processes
  <2>3. \A d \in done'["app"] \cap AppCalls :
            \E i \in 1..Place("app")' : Script["app"][i] = Call(d)
    <3>1. CASE q = "app"
      BY <1>1, <1>4, <1>7, <3>1 DEF InheritedInv
    <3>2. CASE q # "app"
      <4>1. "app" \in Processes \ {p, q}
        BY <1>4, <3>2 DEF Processes
      <4>2. QED
        BY <1>1, <1>7, <1>8, <4>1 DEF InheritedInv
    <3>3. QED
      BY <3>1, <3>2
  <2>4. QED
    BY <1>2, <1>3, <2>1, <2>2, <2>3 DEF InheritedInv
<1>18. DescriptorInv'
  <2>1. \A r \in Processes : life'[r] = "live" => "executable" \in held'[r]
    BY <1>1, <1>2, <1>7 DEF DescriptorInv
  <2>2. CASE q = "app"
    <3>1. done'["app"] \cap AppCalls = {}
      BY <1>1, <1>4, <1>7, <2>2 DEF InheritedInv
    <3>2. QED
      BY <2>1, <3>1 DEF DescriptorInv, OnlyItsDescriptors, Running, AppCalls
  <2>3. CASE q # "app"
    BY <1>1, <1>2, <1>7, <2>1, <2>3 DEF DescriptorInv, OnlyItsDescriptors, Running, Processes
  <2>4. QED
    BY <2>2, <2>3
<1>19. QED
  BY <1>10, <1>12, <1>13, <1>14, <1>17, <1>18 DEF Inv

\* A process ends, and with PID1 its application.
LEMMA InvEnd == ASSUME Inv, NEW p \in Processes, life[p] = "live", End(p) PROVE Inv'
<1>1. FormInv /\ PlaceInv /\ LiveInv /\ BirthInv /\ InheritedInv /\ DescriptorInv
  BY DEF Inv
<1>2. /\ life' = [q \in Processes |-> IF q \in With(p) THEN "ended" ELSE life[q]]
      /\ held' = [q \in Processes |-> IF q \in With(p) THEN {} ELSE held[q]]
      /\ UNCHANGED <<policy, privileged, todo, done, cloexec>>
  BY DEF End
<1>3. /\ Script' = Script /\ Flags' = Flags /\ Second' = Second
      /\ LauncherCalls' = LauncherCalls
  BY <1>2, ScriptsStay
<1>4. \A q \in Processes : Place(q)' = Place(q) /\ Parent(q)' = Parent(q)
                           /\ Place(Parent(q))' = Place(Parent(q))
  BY <1>2, <1>3 DEF Place, Parent
<1>5. \A q \in Processes : /\ life'[q] = "unborn" <=> life[q] = "unborn"
                           /\ life'[q] = "live" => life[q] = "live" /\ held'[q] = held[q]
  BY <1>1, <1>2 DEF With, FormInv
<1>6. FormInv'
  <2>1. (policy \in Policies /\ Valid(policy))'
    BY <1>1, <1>2 DEF FormInv, Policies, Valid
  <2>2. QED
    BY <1>1, <1>2, <2>1 DEF FormInv
<1>7. PlaceInv'
  BY <1>1, <1>2, <1>3, <1>4 DEF PlaceInv
<1>8. LiveInv'
  BY <1>1, <1>2, <1>5 DEF LiveInv, Running
<1>9. BirthInv'
  BY <1>1, <1>2, <1>3, <1>4, <1>5 DEF BirthInv, Processes
<1>10. InheritedInv'
  BY <1>1, <1>2, <1>3, <1>4, <1>5 DEF InheritedInv, Processes
<1>11. DescriptorInv'
  BY <1>1, <1>2, <1>5 DEF DescriptorInv, OnlyItsDescriptors, Running, Processes
<1>12. QED
  BY <1>6, <1>7, <1>8, <1>9, <1>10, <1>11 DEF Inv

LEMMA InvNext == Inv /\ [Next]_vars => Inv'
<1> SUFFICES ASSUME Inv, [Next]_vars PROVE Inv'
  OBVIOUS
<1>1. ASSUME NEW p \in Processes, Run(p) \/ Fail(p) PROVE Inv'
  <2>1. ASSUME Fail(p) \/ FinishWait(p) PROVE life[p] = "live" /\ End(p)
    BY <2>1 DEF Fail, ReturnError, FinishWait, At
  <2>2. QED
    BY <1>1, <2>1, InvMakeCall, InvDropEnd, InvForkChild, InvEnd DEF Run
<1>2. CASE ApplicationEnds
  BY <1>2, InvEnd DEF ApplicationEnds, Running, Processes
<1>3. CASE UNCHANGED vars
  <2>1. UNCHANGED <<policy, privileged, life, todo, done, held, cloexec>>
    BY <1>3 DEF vars
  <2>2. /\ Script' = Script /\ Flags' = Flags /\ Second' = Second
        /\ LauncherCalls' = LauncherCalls
    BY <2>1, ScriptsStay
  <2>3. \A q \in Processes : Place(q)' = Place(q) /\ Parent(q)' = Parent(q)
                             /\ Place(Parent(q))' = Place(Parent(q))
    BY <2>1, <2>2 DEF Place, Parent
  <2>4. FormInv'
    BY <2>1 DEF Inv, FormInv, Policies, Valid
  <2>5. PlaceInv' /\ LiveInv'
    BY <2>1, <2>2, <2>3 DEF Inv, PlaceInv, LiveInv, Running
  <2>6. BirthInv' /\ InheritedInv'
    BY <2>1, <2>2, <2>3 DEF Inv, BirthInv, InheritedInv, Processes
  <2>7. DescriptorInv'
    BY <2>1 DEF Inv, DescriptorInv, OnlyItsDescriptors, Running
  <2>8. QED
    BY <2>4, <2>5, <2>6, <2>7 DEF Inv
<1>4. QED
  BY <1>1, <1>2, <1>3 DEF Next

\* Every process follows its script up to its place, whichever calls fail.
THEOREM Invariance == Spec => []Inv
BY InvInit, InvNext, PTL DEF Spec

-----------------------------------------------------------------------------
(* What the launch promises.                                               *)

\* The variables keep their types, and no process is without something to do: the
\* unreachable!() after exec_verified is not reached.
THEOREM TypeCorrect == Spec => []TypeOK
<1>1. Inv => TypeOK
  BY DEF Inv, FormInv, LiveInv, TypeOK
<1>2. QED
  BY <1>1, Invariance, PTL

\* A running application has run its script to the end.
LEMMA RunningIsLast ==
    ASSUME Inv, Running
    PROVE  todo["app"] = <<>>
<1> SUFFICES ASSUME todo["app"] # <<>> PROVE FALSE
  OBVIOUS
<1>1. FormInv /\ PlaceInv /\ "app" \in Processes
  BY DEF Inv, Processes
<1>2. PICK i \in 1..Place("app") : Script["app"][i] = Call("execveat")
  BY DEF Inv, Running, InheritedInv, AppCalls
<1>3. Before(Script["app"], Step, {Call("execveat")})
  BY <1>1, ScriptsAreSo DEF ScriptFacts, Final
<1>4. Head(todo["app"]) \in Step
  BY <1>1, AtPlace
<1>5. Head(todo["app"]) \notin Step
  BY ONLY <1>1, <1>2, <1>3, NotAgain, todo["app"] # <<>>
<1>6. QED
  BY <1>4, <1>5

\* What the launcher has entered is there for whoever is born after it.
LEMMA NamespacesAreEntered ==
    ASSUME Inv, NEW p \in {"pid1", "app"}, life[p] # "unborn"
    PROVE  LauncherCalls \subseteq done[p] /\ Flags \subseteq done[p]
<1>1. p \in Processes
  BY DEF Processes
<1>2. LauncherCalls \subseteq done[p]
  BY <1>1 DEF Inv, InheritedInv
<1>3. Flags # {} => "unshare" \in done[p]
  BY <1>2 DEF LauncherCalls
<1>4. Flags \subseteq done[p]
  BY <1>1, <1>3 DEF Inv, InheritedInv
<1>5. QED
  BY <1>2, <1>4

\* No application runs with a restriction missing that the policy and the runtime
\* promise, for every policy and whichever calls failed on the way.
THEOREM ApplicationIsRestricted == Spec => []RunsRestricted
<1>1. Inv => RunsRestricted
  <2> SUFFICES ASSUME Inv, Running PROVE Promised \subseteq done["app"]
    BY DEF RunsRestricted
  <2>1. FormInv /\ PlaceInv /\ "app" \in Processes /\ todo["app"] = <<>>
    BY RunningIsLast DEF Inv, Processes
  <2>2. AppMakes \subseteq done["app"]
    <3>1. ASSUME NEW c \in AppMakes PROVE c \in done["app"]
      <4>1. Call(c) \in Calls
        BY AreSteps DEF AppMakes, AppCalls, Names
      <4>2. Call(c) \in Steps(Script["app"])
        BY ScriptsAreSo DEF ScriptFacts
      <4>3. QED
        BY ONLY <2>1, <4>1, <4>2, MadeAtEnd
    <3>2. QED
      BY <3>1
  <2>3. LauncherCalls \subseteq done["app"] /\ Flags \subseteq done["app"]
    BY NamespacesAreEntered DEF Running
  <2>4. "pid" \in policy.namespaces => "mount_proc" \in done["app"]
    BY DEF Inv, InheritedInv, Running
  <2>5. {"setpgid", "redirect_output", "rlimits", "landlock", "no_new_privs", "drop_bounding",
         "clear_ambient", "capset", "redirect_stdin", "close_range"} \subseteq AppMakes
    BY DEF AppMakes, AppCalls
  <2>6. policy.seccomp # "absent" => "seccomp" \in AppMakes
    BY DEF AppMakes, AppCalls
  <2>7. /\ policy.namespaces \cap {"uts", "ipc", "network", "mount"} \subseteq Flags
        /\ "pid" \in policy.namespaces => "mount" \in Flags
    BY DEF Flags, MountEnabled
  <2>8. /\ "uts" \in policy.namespaces => "sethostname" \in LauncherCalls
        /\ "pid" \in policy.namespaces => "unshare_pid" \in LauncherCalls
        /\ policy.namespaces # {}
            => {"unshare_user", "uid_map", "gid_map"} \subseteq LauncherCalls
    BY DEF LauncherCalls
  <2>9. policy.tmp => "mount_tmp" \in LauncherCalls
    BY <2>1 DEF FormInv, Valid, MountEnabled, LauncherCalls
  <2>10. QED
    BY <2>2, <2>3, <2>4, <2>5, <2>6, <2>7, <2>8, <2>9 DEF Promised
<1>2. QED
  BY <1>1, Invariance, PTL

\* A running application has its output and the verified executable, and no other
\* descriptor of the runtime or of what the runtime inherited.
THEOREM NoDescriptorLeaks == Spec => []OnlyItsDescriptors
<1>1. Inv => OnlyItsDescriptors
  BY DEF Inv, DescriptorInv
<1>2. QED
  BY <1>1, Invariance, PTL

\* The launch makes its calls in an order in which each finds what it needs: a call is
\* granted unless the policy or the runtime's capabilities are to blame.
LEMMA GrantedByOrder ==
    ASSUME Inv, NEW p \in Processes, At(p, "call") \/ At(p, "fork"), ~Blamed(What(p))
    PROVE  Granted(p, What(p))
<1> DEFINE c == What(p)
<1>1. FormInv /\ PlaceInv /\ BirthInv /\ InheritedInv /\ todo[p] # <<>> /\ life[p] = "live"
  BY DEF Inv, At
<1>2. CASE At(p, "fork")
  <2>1. c \in {"launcher", "pid1", "app"} /\ p # "app"
    BY <1>1, <1>2, AtStep DEF Second, Processes
  <2>2. "seccomp" \notin done[p]
    BY <1>1, <2>1 DEF InheritedInv, AppCalls
  <2>3. /\ c \in {"pid1", "app"} => "one_pid" \notin policy.faults
        /\ c = "app" => "pids" \notin policy.faults
    BY DEF Blamed
  <2>4. QED
    BY <2>1, <2>2, <2>3 DEF Granted, Mounts
<1> SUFFICES ASSUME At(p, "call") PROVE Granted(p, c)
  BY <1>2
<1>3. /\ Head(todo[p]) = Call(c)
      /\ p = "host" => c \in {"create_output_pipes", "create_control_pipe"}
      /\ p = "launcher" => c \in LauncherCalls
      /\ p = "pid1" => c \in {"mount_proc", "install_signal_handlers"}
      /\ p = "app" => c \in AppMakes
  BY <1>1, AtStep
<1>4. /\ p \in {"pid1", "app"} => LauncherCalls \subseteq done[p] /\ Flags \subseteq done[p]
      /\ p = "pid1" => "pid" \in policy.namespaces
      /\ p # "app" => done[p] \cap AppCalls = {}
  BY <1>1, NamespacesAreEntered DEF BirthInv, InheritedInv
<1>5. ASSUME p = "launcher", NEW d \in LauncherCalls, d # c,
             NEW A, NEW B, Before(Script["launcher"], A, B), Call(d) \in A, Call(c) \in B
      PROVE  d \in done[p]
  <2>1. Call(d) \in Calls /\ Call(d) # Call(c)
    BY <1>5, AreSteps DEF LauncherCalls, Names, Call
  <2>2. Call(d) \in Steps(Script[p])
    BY <1>5, ScriptsAreSo DEF ScriptFacts
  <2>3. FormInv /\ PlaceInv /\ todo[p] # <<>>
    BY <1>1
  <2>4. Call(d) \in Calls /\ Call(d) # Head(todo[p])
    BY <1>3, <2>1
  <2>5. Before(Script[p], A, B) /\ Call(d) \in A /\ Head(todo[p]) \in B
    BY <1>3, <1>5
  <2>6. QED
    BY ONLY <2>2, <2>3, <2>4, <2>5, MadeBefore, p \in Processes
<1>6. ASSUME p = "app", c \in {"rlimits", "drop_bounding"} PROVE "capset" \notin done["app"]
  <2> SUFFICES ASSUME "capset" \in done["app"] PROVE FALSE
    OBVIOUS
  <2>1. PICK i \in 1..Place("app") : Script["app"][i] = Call("capset")
    BY <1>1 DEF InheritedInv, AppCalls
  <2>2. Before(Script["app"], CapabilityCalls, {Call("capset")})
    BY ScriptsAreSo DEF ScriptFacts
  <2>3. Head(todo[p]) \notin CapabilityCalls
    BY ONLY <1>1, <1>6, <2>1, <2>2, NotAgain, p \in Processes
  <2>4. QED
    BY <1>3, <1>6, <2>3 DEF CapabilityCalls
<1>7. ASSUME c \in Mounts \cup {"unshare", "unshare_pid", "sethostname", "drop_bounding"}
      PROVE  Capable(p)
  <2>1. "capset" \notin done[p]
    <3>1. CASE p # "app"
      BY <1>4, <3>1 DEF AppCalls
    <3>2. CASE p = "app"
      <4>1. c = "drop_bounding"
        BY <1>3, <1>7, <3>2 DEF AppMakes, AppCalls, Mounts
      <4>2. QED
        BY <1>6, <3>2, <4>1
    <3>3. QED
      BY <3>1, <3>2
  <2>2. privileged \/ "unshare_user" \in done[p]
    <3> SUFFICES ASSUME ~privileged PROVE "unshare_user" \in done[p]
      OBVIOUS
    <3>1. policy.namespaces # {}
      <4>1. CASE p = "launcher"
        BY <1>3, <1>7, <4>1 DEF LauncherCalls, Mounts, Flags, MountEnabled
      <4>2. CASE p = "app"
        BY <1>3, <1>7, <4>2 DEF AppMakes, AppCalls, Mounts, Blamed
      <4>3. CASE p = "host"
        BY <1>3, <1>7, <4>3 DEF Mounts
      <4>4. QED
        BY <1>4, <4>1, <4>2, <4>3 DEF Processes
    <3>2. "unshare_user" \in LauncherCalls
      BY <3>1 DEF LauncherCalls
    <3>3. CASE p \in {"pid1", "app"}
      BY <1>4, <3>2, <3>3
    <3>4. CASE p = "launcher"
      <4>1. Call(c) \in Unshares /\ c # "unshare_user"
        BY <1>3, <1>7, <3>4 DEF LauncherCalls, Unshares, Mounts
      <4>2. Before(Script["launcher"], {Call("unshare_user")}, Unshares)
        BY ScriptsAreSo DEF ScriptFacts
      <4>3. QED
        BY <1>5, <3>2, <3>4, <4>1, <4>2
    <3>5. CASE p = "host"
      BY <1>3, <1>7, <3>5 DEF Mounts
    <3>6. QED
      BY <3>3, <3>4, <3>5 DEF Processes
  <2>3. QED
    BY <2>1, <2>2 DEF Capable
<1>8. ASSUME c = "gid_map" PROVE "setgroups" \in done[p]
  <2>1. p = "launcher"
    BY <1>3, <1>8 DEF AppMakes, AppCalls, Processes
  <2>2. "setgroups" \in LauncherCalls
    BY <1>3, <1>8, <2>1 DEF LauncherCalls
  <2>3. Before(Script["launcher"], {Call("setgroups")}, {Call("gid_map")})
    BY ScriptsAreSo DEF ScriptFacts
  <2>4. QED
    BY <1>5, <1>8, <2>1, <2>2, <2>3
<1>9. ASSUME c \in Mounts
      PROVE  /\ "mount" \in done[p] /\ "landlock" \notin done[p]
             /\ c = "mount_proc" => "unshare_pid" \in done[p]
  <2>1. CASE p = "launcher"
    <3>1. c \in {"make_private", "mount_tmp"} /\ MountEnabled
      BY <1>3, <1>9, <2>1 DEF LauncherCalls, Mounts
    <3>2. "mount" \in Flags /\ "unshare" \in LauncherCalls
      BY <3>1 DEF Flags, LauncherCalls
    <3>3. Before(Script["launcher"], {Call("unshare")}, {Call("make_private"), Call("mount_tmp")})
      BY ScriptsAreSo DEF ScriptFacts
    <3>4. "unshare" \in done[p]
      BY <1>5, <2>1, <3>1, <3>2, <3>3
    <3>5. QED
      BY <1>1, <1>4, <2>1, <3>1, <3>2, <3>4 DEF InheritedInv, AppCalls
  <2>2. CASE p = "pid1"
    <3>1. "mount" \in Flags /\ "unshare_pid" \in LauncherCalls
      BY <1>4, <2>2 DEF Flags, MountEnabled, LauncherCalls
    <3>2. QED
      BY <1>4, <2>2, <3>1 DEF AppCalls
  <2>3. p \notin {"host", "app"}
    BY <1>3, <1>9 DEF Mounts, AppMakes, AppCalls
  <2>4. QED
    BY <2>1, <2>2, <2>3 DEF Processes
<1>10. "mount_proc" \in Mounts
  BY DEF Mounts
<1>11. c = "rlimits" => "hard_limit" \notin policy.faults \/ MayRaiseLimits(p)
  <2> SUFFICES ASSUME c = "rlimits", "hard_limit" \in policy.faults PROVE MayRaiseLimits(p)
    OBVIOUS
  <2>1. privileged /\ policy.namespaces = {}
    BY DEF Blamed
  <2>2. p = "app"
    BY <1>3 DEF LauncherCalls, Processes
  <2>3. "unshare_user" \notin done[p] /\ "capset" \notin done[p]
    BY <1>1, <1>6, <2>1, <2>2 DEF InheritedInv
  <2>4. QED
    BY <2>1, <2>3 DEF MayRaiseLimits
<1>12. "seccomp" \in done[p] => policy.seccomp # "denies"
  <2> SUFFICES ASSUME "seccomp" \in done[p], policy.seccomp = "denies" PROVE FALSE
    OBVIOUS
  <2>1. p = "app"
    BY <1>1 DEF InheritedInv, AppCalls
  <2>2. PICK i \in 1..Place("app") : Script["app"][i] = Call("seccomp")
    BY <1>1, <2>1 DEF InheritedInv, AppCalls
  <2>3. Before(Script["app"], Unfiltered, {Call("seccomp")})
    BY ScriptsAreSo DEF ScriptFacts
  <2>4. Head(todo[p]) \notin Unfiltered
    BY ONLY <1>1, <2>1, <2>2, <2>3, NotAgain, p \in Processes
  <2>5. c \in {"redirect_stdin", "close_range", "keep_executable", "execveat"}
    BY <1>3, <2>1, <2>4 DEF Unfiltered, AppMakes
  <2>6. QED
    BY <2>5 DEF Blamed
<1>13. /\ c = "redirect_stdin" => "dev_null" \notin policy.faults
       /\ c = "execveat" => {"execute", "address_space"} \cap policy.faults = {}
       /\ c \notin {"pid1", "app"}
  BY <1>3 DEF Blamed, LauncherCalls, AppMakes, AppCalls, Processes
<1>14. QED
  BY <1>7, <1>8, <1>9, <1>10, <1>11, <1>12, <1>13 DEF Granted

\* The kernel refuses a call only for a fault of the policy that this call meets, or to a
\* runtime without capabilities that makes no user namespace to get them.
THEOREM OrderIsSufficient == Spec => []RefusedOnlyByPolicy
<1>1. Inv => RefusedOnlyByPolicy
  BY GrantedByOrder DEF RefusedOnlyByPolicy, Refused
<1>2. QED
  BY <1>1, Invariance, PTL
=============================================================================
