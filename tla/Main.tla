---------------------------------- MODULE Main ----------------------------------
(***************************************************************************)
(* The whole program: main's stages, each with its entry in the event log, *)
(* the child that run_app forks, and what main makes of the child's end.   *)
(* Configuration says what the stages compute, Identity how the executable *)
(* is verified while others change files, and RunContract, which the two   *)
(* launchers implement, how a run is supervised.                           *)
(*                                                                         *)
(* The launcher, PID1 and the application's process up to execveat are one *)
(* child here; Launch takes them apart.  The host's loop is one stage;     *)
(* HostMonitor takes it apart.                                             *)
(***************************************************************************)
EXTENDS Configuration, Identity

CONSTANTS
    Inputs,         \* the command lines, policies, changes and faults considered
    Statuses,       \* the ends of a process
    Signalled,      \* those by a signal
    Number,         \* status -> exit code, or number of the signal
    LastInstant,    \* the timeout from which Instant + Duration overflows
    Largest         \* the largest value the kernel takes for a limit

LimitNames == {"CPU", "AS", "FSIZE", "NPROC", "memory.max", "pids.max", "cpu.max"}

ASSUME MainAssumption ==
    /\ Signalled \subseteq Statuses
    /\ Number \in [Statuses -> 0..255]
    /\ \A s \in Signalled : Number[s] \in 1..64
    /\ {"none", "error", "TimedOut", "OutputLimitExceeded"} \cap Statuses = {}
    /\ Largest \in [LimitNames -> Nat]
    /\ \A in \in Inputs : in.changes \in Nat /\ PolicyTypeOK(in.policy)

VARIABLES
    input,                                         \* one of Inputs
    stage,                                         \* where main is
    log,                                           \* logs/events.jsonl, of this run
    exit_code,                                     \* main's, as an Option
    child,                                         \* the processes run_app forks
    launcher,                                      \* the launcher's WaitStatus, as an Option
    program,                                       \* what execveat ran, as an Option
    notified, expired, asked, status, verdict      \* see RunContract

run == <<input, child, launcher, program, notified, expired, asked, status, verdict>>
identity == <<ipc, executable>>
vars == <<stage, log, exit_code, run, files, identity>>

Contract == INSTANCE RunContract

policy == input.policy
config == SandboxConfig(policy)

Init ==
    /\ IdentityInit
    /\ input \in Inputs
    /\ changes = input.changes
    /\ link \in [{"cli", "policy"} -> Places]
    /\ at \in [Places -> Files \cup {Nothing}]
    /\ content \in [Files -> Contents]
    /\ input.changes = 0 =>
           \E file \in Files : content[file] = Approved /\ at = [place \in Places |-> file]
    /\ stage = "cli"
    /\ log = <<>>
    /\ exit_code = {}
    /\ child = "unborn"
    /\ launcher = {}
    /\ program = {}
    /\ Contract!Init

-----------------------------------------------------------------------------
(* logger.rs and the ways out.                                             *)

Entry(event, decision) == Append(log, <<event, decision>>)

\* Something outside the program may fail: a file, a call, a pipe, a process.
Faulty == input.faulty

\* Mutant: an event that cannot be written is passed over.
LogIfPossible(event, next) ==
    /\ stage' = next
    /\ log' = Entry(event, "allow") \/ (Faulty /\ UNCHANGED log)
    /\ UNCHANGED exit_code

\* log_security_event ends the program when it cannot write.
Allow(event, next) ==
    \/ /\ log' = Entry(event, "allow")
       /\ stage' = next
       /\ UNCHANGED exit_code
    \/ /\ Faulty
       /\ stage' = "ended"
       /\ exit_code' = {1}
       /\ UNCHANGED log

\* The event is logged and the error printed, in either order; a standard error that
\* cannot be written panics.
Deny(event) ==
    /\ stage' = "ended"
    /\ \/ log' = Entry(event, "deny") /\ exit_code' = {1}
       \/ /\ Faulty
          /\ log' \in {log, Entry(event, "deny")}
          /\ exit_code' \in {{1}, {101}}

Decide(granted, event, next) ==
    IF granted THEN Allow(event, next) \/ (Faulty /\ Deny(event)) ELSE Deny(event)

-----------------------------------------------------------------------------
(* main, up to run_app.                                                    *)

\* check_cli; args.length counts the program's own name.
ValidArguments(args) ==
    /\ args.length >= 5
    /\ args.policy_first /\ args.app_second
    /\ args.policy_is_file
    /\ Resolve("cli") # Nothing
    /\ args.length = 5 \/ args.separator

CheckCli ==
    /\ stage = "cli"
    /\ Decide(ValidArguments(input.args), "cli_check", "policy")
    /\ UNCHANGED <<run, files, identity>>

LoadPolicy ==
    /\ stage = "policy"
    /\ Decide(Accepted(policy), "policy_load", "identity")
    /\ UNCHANGED <<run, files, identity>>

Identify ==
    /\ stage = "identity"
    /\ CheckIdentity \/ (Faulty /\ IdentityFails)
    /\ UNCHANGED <<stage, log, exit_code, run, files>>

ReportIdentity ==
    /\ stage = "identity"
    /\ \/ ipc = "verified" /\ Allow("identity_check", "prepare")
       \/ ipc = "refused" /\ Deny("identity_check")
    /\ UNCHANGED <<run, files, identity>>

Prepare ==
    /\ stage = "prepare"
    /\ Decide(~Refused(policy), "sandbox_prepare", "announce")
    /\ UNCHANGED <<run, files, identity>>

\* The events of a run that gets as far as run_app.
Story ==
    IF config.network
    THEN <<"cli_check", "policy_load", "identity_check", "sandbox_prepare",
           "resource_limits_configured", "network_policy_configration",
           "seccomp_configured", "app_spawn_attempt">>
    ELSE <<"cli_check", "policy_load", "identity_check", "sandbox_prepare",
           "resource_limits_configured", "seccomp_configured", "app_spawn_attempt">>

Announce ==
    /\ stage = "announce"
    /\ Allow(Story[Len(log) + 1],
             IF Len(log) + 1 = Len(Story) THEN "spawn" ELSE "announce")
    /\ UNCHANGED <<run, files, identity>>

\* What the kernel takes for a limit, for cpu.max a quota of a millisecond at least.
InRange(limit) == limit[2] \in (IF limit[1] = "cpu.max" THEN 1000 ELSE 1)..Largest[limit[1]]

CgroupIsSet == ~QuotaOverflows(config) /\ \A value \in CgroupValues(config) : InRange(value)

\* prepare_cgroup, the pipes and the fork.
Spawn ==
    /\ stage = "spawn"
    /\ \/ /\ CgroupIsSet
          /\ stage' = "monitor"
          /\ child' = "setup"
          /\ UNCHANGED <<log, exit_code>>
       \/ /\ ~CgroupIsSet \/ Faulty
          /\ Deny("app_exit")
          /\ UNCHANGED child
    /\ UNCHANGED <<input, launcher, program, notified, expired, asked, status, verdict,
                   files, identity>>

-----------------------------------------------------------------------------
(* The child.                                                              *)

\* What the kernel takes: limits in its range and no zero where it means something
\* else, a hostname of up to 64 bytes, a tmpfs with a size.
KernelTakes(restrictions) ==
    /\ \A limit \in restrictions.rlimits \cup restrictions.cgroup : InRange(limit)
    /\ restrictions.tcp.allowed \subseteq (U16 \ {0}) \X {"connect", "bind"}
    /\ restrictions.syscalls \subseteq KnownSyscalls
    /\ \A name \in restrictions.hostname : name.len \in 1..64
    /\ 0 \notin restrictions.tmp

\* Mutant: the program is opened again by its path.
ByPath == at[path]

\* execveat with AT_EMPTY_PATH.
Executed == opened

\* Every restriction is in force and the program runs.
Execute ==
    /\ child = "setup"
    /\ KernelTakes(Restrictions(config))
    /\ Executed # Nothing
    /\ child' = "running"
    /\ program' = {[file |-> Executed, content |-> content[Executed],
                    restrictions |-> Restrictions(config)]}
    /\ UNCHANGED <<input, launcher, notified, expired, asked, status, verdict,
                   stage, log, exit_code, files, identity>>

\* A ? in the child ends in main's last arm, which logs and exits with 1.
SetupFails ==
    /\ child = "setup"
    /\ Faulty \/ ~KernelTakes(Restrictions(config))
    /\ child' = "failed"
    /\ log' = Entry("app_exit", "deny") \/ (Faulty /\ UNCHANGED log)
    /\ verdict' = IF verdict = "none" THEN "error" ELSE verdict
    /\ UNCHANGED <<input, launcher, program, notified, expired, asked, status,
                   stage, exit_code, files, identity>>

\* Instant::now() + Duration::from_secs(timeout_seconds) does not panic.
TimeoutFits == \A seconds \in config.timeout_seconds : seconds < LastInstant

Supervise ==
    /\ child = "running"
    /\ \/ stage = "monitor" /\ config.max_output_bytes # {} /\ Contract!HostNotifies
       \/ config.timeout_seconds # {} /\ Contract!DeadlinePasses
       \/ Contract!MainEnds
       \/ TimeoutFits /\ (Contract!Report \/ \E cause \in {"limit", "timeout"} : Contract!Ask(cause))
    /\ UNCHANGED <<input, child, launcher, program, stage, log, exit_code, files, identity>>

\* The application's process goes on: it may not even have reached execveat.
SupervisionFails ==
    /\ child \in {"setup", "running"}
    /\ Faulty \/ ~TimeoutFits
    /\ Contract!Fails
    /\ UNCHANGED <<input, child, launcher, program, stage, log, exit_code, files, identity>>

\* Mutant: a signal is passed on as its negative number.
Negated(s) == IF s \in Signalled THEN 0 - Number[s] ELSE Number[s]

\* exit_with_child_status
ExitCode(s) == IF s \in Signalled THEN 128 + Number[s] ELSE Number[s]

\* Mutant: only a status of its own ends the launcher with another code.
OwnStatusOnly(v) == IF v \in Statuses THEN ExitCode(v) ELSE 0

\* The launcher's exit code for a verdict.
LauncherCode(v) ==
    IF v = "TimedOut" THEN 124
    ELSE IF v = "OutputLimitExceeded" THEN 125
    ELSE IF v = "error" THEN 1 ELSE ExitCode(v)

Exited(code) == [kind |-> "Exited", number |-> code]
Killed(signal) == [kind |-> "Signaled", number |-> signal]

SIGINT == 2
SIGKILL == 9
SIGXCPU == 24
SIGXFSZ == 25

\* Its last lines may panic, and it may be killed: by the OOM killer, or from the
\* terminal, whose foreground group it shares with the host.
LauncherEnds ==
    /\ child # "unborn"
    /\ launcher = {}
    /\ verdict # "none"
    /\ \/ launcher' = {Exited(LauncherCode(verdict))}
       \/ verdict = "error" /\ launcher' = {Exited(101)}
       \/ Faulty /\ launcher' \in {{Exited(101)}, {Killed(SIGKILL)}, {Killed(SIGINT)}}
    /\ UNCHANGED <<input, child, program, notified, expired, asked, status, verdict,
                   stage, log, exit_code, files, identity>>

-----------------------------------------------------------------------------
(* main, from run_app's return.                                            *)

\* The host's loop ends after the launcher, or with an error of its own.
Monitor ==
    /\ stage = "monitor"
    /\ \/ /\ launcher # {}
          /\ stage' = "report"
          /\ UNCHANGED <<log, exit_code>>
       \/ Faulty /\ Deny("app_exit")
    /\ UNCHANGED <<run, files, identity>>

ResourceSignals == {SIGXFSZ, SIGXCPU, SIGKILL}

Report ==
    /\ stage = "report"
    /\ \E end \in launcher :
        IF end = Exited(0)
        THEN \/ /\ log' = Entry("app_exit", "allow")
                /\ exit_code' = {0} \/ (Faulty /\ exit_code' = {101})
                /\ stage' = "ended"
             \/ Faulty /\ exit_code' = {1} /\ stage' = "ended" /\ UNCHANGED log
        ELSE Deny(IF end.kind = "Signaled" /\ end.number \in ResourceSignals
                  THEN "resource_limit_hit" ELSE "app_exit")
    /\ UNCHANGED <<run, files, identity>>

HostSteps ==
    \/ CheckCli \/ LoadPolicy \/ Identify \/ ReportIdentity \/ Prepare \/ Announce
    \/ Spawn \/ Monitor \/ Report

ChildSteps == Execute \/ SetupFails \/ Supervise \/ SupervisionFails \/ LauncherEnds

\* Once the program runs, nothing of the model reads the files again.
OthersStep ==
    /\ program = {}
    /\ Others
    /\ UNCHANGED <<stage, log, exit_code, run, identity>>

Next == HostSteps \/ ChildSteps \/ OthersStep

Spec == Init /\ [][Next]_vars

-----------------------------------------------------------------------------
(* Properties.                                                             *)

\* The variables have their types.
TypeOK ==
    /\ input \in Inputs
    /\ stage \in {"cli", "policy", "identity", "prepare", "announce", "spawn", "monitor",
                  "report", "ended"}
    /\ ipc \in {"open", "canonicalize", "compare", "hash", "verified", "refused"}
    /\ \A i \in DOMAIN log : log[i][2] \in {"allow", "deny"}
    /\ IsOption(exit_code, 0..255)
    /\ stage = "ended" <=> exit_code # {}
    /\ child \in {"unborn", "setup", "running", "failed"}
    /\ IsOption(launcher, launcher) /\ \A end \in launcher : end.kind \in {"Exited", "Signaled"} /\ end.number \in 0..255
    /\ child = "running" <=> program # {}
    /\ status \in Statuses \cup {"none"}
    /\ asked \subseteq {"limit", "timeout"}

\* README.md, "Executable Identity Verification": what runs is the file that was opened
\* and hashed, wherever its names and its place lead by then; it has the approved
\* content unless that very file was written in place after it was opened.  If nobody
\* changed anything, both names led to it.
ExecutedIsVerified ==
    \A app \in program :
        /\ app.file = opened
        /\ opened \notin touched => app.content = Approved
        /\ changes = input.changes => link["cli"] = link["policy"]

\* Nothing runs before every stage has logged its consent, in order, and nothing after a
\* refusal; a run that ends with another code than 0 has logged a refusal, unless the
\* log or a standard stream could not be written.
LogTellsTheRun ==
    /\ program # {} =>
           /\ Len(log) >= Len(Story)
           /\ \A i \in DOMAIN Story : log[i] = <<Story[i], "allow">>
    /\ exit_code \notin {{}, {0}} /\ ~Faulty =>
           log # <<>> /\ log[Len(log)][2] = "deny"

Logged(event, decision) == \E i \in DOMAIN log : log[i] = <<event, decision>>

\* The success that main's exit code and the log report is the application's: it ran,
\* its main process exited with 0, and nobody had asked it to stop, although the
\* status comes through the exit codes of one or two processes in between.
SuccessIsTheApplications ==
    exit_code = {0} \/ Logged("app_exit", "allow") =>
        /\ program # {}
        /\ status \in Statuses \ Signalled /\ Number[status] = 0
        /\ asked = {}

MB == 1024 * 1024

\* What one unit of the policy's is in the kernel's.
Unit(what) ==
    IF what \in {"AS", "FSIZE", "memory.max"} THEN MB ELSE IF what = "cpu.max" THEN 1000 ELSE 1

InUnits(limits) == {<<l[1], l[2] \div Unit(l[1]), l[2] % Unit(l[1])>> : l \in limits}

Amounts(what, opt) == {<<what, amount, 0>> : amount \in opt}

\* Exactly the limits that the policy names in an enabled section, in their units, with
\* no value wrapped, rounded or lost on the way, and one at least; none without such a
\* section, although memory_mb and max_processes stand outside of it.
LimitsAsWritten(restrictions) ==
    LET limits == restrictions.rlimits
        values == restrictions.cgroup
    IN  /\ limits # {} <=>
               \E res \in policy.resources : \E rlimit \in res.rlimit : Enabled(rlimit.enabled)
        /\ values # {} <=>
               \E res \in policy.resources : \E cgroup \in res.cgroup : Enabled(cgroup.enabled)
        /\ \A res \in policy.resources :
            /\ \A rlimit \in res.rlimit :
                Enabled(rlimit.enabled) =>
                    InUnits(limits) = Amounts("CPU", rlimit.cpu_seconds)
                                      \cup Amounts("AS", res.memory_mb)
                                      \cup Amounts("FSIZE", rlimit.max_file_size_mb)
                                      \cup Amounts("NPROC", res.max_processes)
            /\ \A cgroup \in res.cgroup :
                Enabled(cgroup.enabled) =>
                    InUnits(values) = Amounts("memory.max", res.memory_mb)
                                      \cup Amounts("pids.max", res.max_processes)
                                      \cup Amounts("cpu.max", cgroup.cpu_percent)

\* Who has a right over files or over TCP ports.
Having(rules, right) == {rule[1] : rule \in {r \in rules : r[2] = right}}

Ports(field) == UNION UNION {net[field] : net \in policy.network}

\* What any list has is read, what read_allow or write_allow has is listed, what read_allow
\* or exec_allow has is executed, and only what write_allow has is written.  TCP is
\* restricted where there is a network section, and then to its ports.
RightsAsListed(restrictions) ==
    LET fs == policy.filesystem
        files_ == restrictions.files
        tcp == restrictions.tcp
    IN  /\ Having(files_, "read_file") = fs.read_allow \cup fs.write_allow \cup fs.exec_allow
        /\ Having(files_, "read_dir") = fs.read_allow \cup fs.write_allow
        /\ Having(files_, "execute") = fs.read_allow \cup fs.exec_allow
        /\ Having(files_, "write") = fs.write_allow
        /\ tcp.handled <=> policy.network # {}
        /\ Having(tcp.allowed, "connect") = Ports("connect_tcp")
        /\ Having(tcp.allowed, "bind") = Ports("bind_tcp")

\* The calls of the profile and those of the policy's own list, and no other.
SyscallsAsListed(restrictions) ==
    restrictions.syscalls =
        UNION {(UNION sec.deny)
               \cup (IF sec.profile \cap {"baseline", "strict"} # {} THEN Baseline ELSE {})
               \cup (IF "strict" \in sec.profile THEN StrictOnly ELSE {}) :
               sec \in policy.seccomp}

\* The hostname where the UTS namespace is enabled, the private /tmp where it is asked
\* for, of the size that is asked for or of 32 megabytes.
NamespaceAsWritten(restrictions) ==
    LET Sections(field) == UNION {ns[field] : ns \in policy.namespace}
    IN  /\ restrictions.hostname =
               UNION {uts.hostname : uts \in {u \in Sections("uts") : Enabled(u.enabled)}}
        /\ restrictions.tmp # {} <=>
               \E mount \in Sections("mount") : Enabled(mount.private_tmp)
        /\ \A mount \in Sections("mount") :
               restrictions.tmp \subseteq
                   (IF mount.tmp_size_mb = {} THEN {32} ELSE mount.tmp_size_mb)

\* A program that runs, runs under exactly the limits, rights, denied calls, hostname
\* and /tmp of the policy's enabled sections, however the options combine and however
\* large the numbers are.  The limits on time and output are not among them.
PolicyInForce ==
    \A app \in program :
        /\ LimitsAsWritten(app.restrictions)
        /\ RightsAsListed(app.restrictions)
        /\ SyscallsAsListed(app.restrictions)
        /\ NamespaceAsWritten(app.restrictions)

TooLarge(limits) == {limit \in limits : limit[2] > Largest[limit[1]]}

\* The validation of policies is complete for what is done with them later, but for the
\* largest values: past prepare_sandbox the kernel refuses nothing of a policy without a
\* limit above what it takes, and where nothing else fails only such an rlimit makes the
\* child fail half-way.
AcceptedIsApplicable ==
    LET restrictions == Restrictions(config)
    IN  /\ stage \in {"announce", "spawn", "monitor", "report"} =>
               \/ TooLarge(restrictions.rlimits \cup restrictions.cgroup) # {}
               \/ KernelTakes(restrictions)
        /\ child = "failed" /\ ~Faulty => TooLarge(restrictions.rlimits) # {}

\* scripts/run_all_tests.sh expects of two policies with memory_mb and max_processes, and
\* no other section for limits, that they limit memory and processes.
NamedLimitsEnforced ==
    \A app \in program, res \in policy.resources :
        LET names == {limit[1] : limit \in app.restrictions.rlimits \cup app.restrictions.cgroup}
        IN  /\ res.memory_mb # {} => names \cap {"AS", "memory.max"} # {}
            /\ res.max_processes # {} => names \cap {"NPROC", "pids.max"} # {}
=============================================================================
