# secure-runtime: verification project

TLA+ models of secure-runtime, the TLC runs that check them on small instances,
and theorems about them that TLAPS checks. Line numbers refer to `src/` as it
stands beside this directory; `PROJECT.json` maps every definition to the lines
it models.

## 1. The system

secure-runtime starts one application under a JSON policy: it verifies the
executable's hash, builds namespaces, limits and filters, runs the application,
watches its output and its time, and cleans up. Up to four kinds of process take
part:

    host (main, run_app)
     |  owns the cgroup directory, the read ends of the output pipes,
     |  the write end of the control pipe
     +-- launcher (child of the first fork)
          |  enters the namespaces and the cgroup; reads the control pipe
          +-- PID1            only with a PID namespace: the supervisor
          |    +-- application (its own process group)
          +-- application     without a PID namespace, supervised by the launcher

They share no memory. They interact by fork and wait, by signals, by three pipes
(stdout, stderr, control), by inherited descriptors and kernel attributes, and by
the cgroup directory.

### Components

| Component | Source | State | Operations | What makes it correct |
|---|---|---|---|---|
| Host monitor | `runner.rs` run_app 386-457, `output.rs`, `control.rs` | byte count, limit flags, open streams, launcher's status | waitpid, poll, read and forward, notify, statistics, cleanup | one budget for both streams, never blocks in a read, no byte lost, at most one notice, returns |
| PID1 supervisor | `runner.rs` 38-273 | recorded signal, two deadlines, main status, SIGKILL flag | install handlers, forward, deadline, reap, return | returns only when nobody is left, reports the main process's status, ends after a timeout |
| PID1 launcher | `runner.rs` wait_for_pid1 461-528 | notice, grace deadline, SIGKILL flag | read control pipe, signal PID1, reap | nothing outlives it, verdict is the cause, the limit is enforced |
| Direct launcher | `runner.rs` wait_with_timeout 532-652 | two deadlines, two triggers, SIGKILL flag | read control pipe, reap, timeout, grace | verdict is the cause, one grace period, ends after a timeout |
| Cgroup lifecycle | `cgroup.rs`, `runner.rs` 298, 310-313, 448-453 | a directory per run | create, limit, move, statistics, kill, wait, remove | no run touches another's processes, limits before processes, success leaves nothing |
| Launch sequence | `runner.rs`, `namespaces.rs`, `privileges.rs`, `executor.rs`, `seccomp.rs` | kernel attributes and descriptors of each process | the calls from run_app to execveat | the program runs with every restriction or not at all, and with its own descriptors only |
| Policy, sandbox configuration | `policy.rs`, `sandbox.rs` | none (pure) | validation, unit conversion, lists of denied calls | what is accepted is what is applied |
| Identity | `identity.rs`, `hash.rs` | an open descriptor, the blocks read | open, canonicalize, compare, hash | the file that is hashed is the file that runs |
| main and the verdict | `main.rs`, `runner.rs` 279-295, 336-380 | the stage, the event log | check_cli, load_policy, check_identity, prepare_sandbox, run_app; exit codes 124, 125, 128+n and their reading in main | nothing runs before every stage has consented, success is the application's |
| Command line, event log | `cli.rs`, `logger.rs` | the file of events | check_cli, log_security_event | an event is written or the program ends |
| File access engine | `engine.rs` | none | decide | not called by the program |
| Probes, test programs, scripts | `bin/`, `test_apps/`, `scripts/` | none | printing | |

### What is hard here

* The host polls once and then reads two pipes, while writers and the launcher go
  on: what poll said must still be true at the second read.
* The host is the only one who counts output, and the launcher the only one who
  can stop the application; between them lies a pipe and nothing else.
* PID1 is the parent of every orphan of the namespace. One loop reaps them all and
  must not confuse them with the main process.
* A signal handler writes one atomic; the loop tests it and then may block.
* A timeout, a limit notice, an external signal and a normal end may fall into the
  same iteration of a loop, in any order.
* SIGTERM may be ignored, SIGKILL goes to a group that processes may leave and come
  back to, and `sigkill_sent` is never reset.
* Every step of the launch may fail, in any process; somebody else is then
  waiting for it.
* Any of the supervising processes may end in an error, a panic (also of println!) or
  by a signal, with the others depending on its exit code.
* A policy has some thirty optional fields; sections are enabled apart from the values
  they use, and values change their unit on the way to the kernel.
* The executable is looked up by name several times while others may change the files.
* A directory named after a PID outlives failed or killed runs, and PIDs come back.

`PROJECT.json` lists these hazards at their lines, with the properties that
cover each and a note where none does yet.

## 2. The modules

`AppTree` is the kernel's side of the application's processes; `Pid1Supervisor`
and `DirectLauncher` extend it with a supervisor, and `PidRuntime` instantiates
`Pid1Supervisor` inside the launcher that waits for it. Both launchers implement
`RunContract`, and `Main`, the whole program, builds on `RunContract`, `Configuration`
and `Identity`. `Cgroup` implements `DirectoryLease`. `HostMonitor`, `Cgroup` and
`Launch` are each about one actor's side with the rest as environment.

**HostMonitor** is run_app from the end of the host's own setup on. `hpc` walks
through an iteration: `WaitLauncher` (waitpid WNOHANG), `Poll`, then per stream
`SkipStream`, `ReadEof`, `ReadBytes`, `CounterOverflows` or `ForwardFails`
(drain_available_output), then the notice (`NothingToReport`,
`SendLimitExceeded`, `SendFails` for EPIPE), and after the loop `ReadStats`,
`Cleanup`, `Succeed`. Bytes are counted and have no value. Applications write and
close in any way; the launcher exits at any time, also before it has read the
notice. The counter's width is a constant (`CounterMax`), so that its overflow
happens.

**AppTree** (external: the kernel) has processes with a parent, a state and
membership of the main process's group. `Killpg` ends all members on SIGKILL and
any subset on another signal: a handler or an ignored signal is the choice not to
end. Orphans go to the `Reaper`. Processes may leave the group (`LeaveGroup`: setsid or
setpgid), come back to it with setpgid as long as it has a member that is not reaped, a
zombie being enough (`Rejoin`), fork, exit and reap their children.

**Pid1Supervisor** is run_pid1_supervisor. The loop's body is cut where others can
act: `ForwardSignal` (swap of RECEIVED_SIGNAL, then killpg), `CheckDeadline`,
then waitpid: `ReapChild`, `StillAlive`, `Block`/`ChildEnds`, `ReturnResult` on
ECHILD. `Signal` is handle_signal. A deadline is off, armed or expired. `Fails` is the
end of PID1 by an error of a call, a panic or a signal, at any point; the kernel then
ends the namespace (`NamespaceEnds`).

**DirectLauncher** is wait_with_timeout, cut at the choice of flags, the control
pipe, waitpid, the timeout and the grace test. Its order matters: the flags are
chosen before the pipe is read. `Fails` is its own end by an
error, a panic or a signal; the application goes on without it.

**PidRuntime** is wait_for_pid1, composed with everything in Pid1Supervisor.
`KillNamespace` is the kernel's answer to SIGKILL of PID1: all processes of the
namespace are gone when PID1 can be waited for. `Told` is what the host learns through
two exit codes: the notice that the launcher read, PID1's timeout, the main process's
status, or a failure of either.

**RunContract** is the abstract specification of supervision, with five variables: the
two causes for which an application may be asked to stop, the causes for which it was,
how its main process ended, and the verdict. The application is asked only for a cause
that exists; a run gets one verdict; it is the cause asked for, a limit before a
timeout, else the status; a supervisor that fails says so. Property `KeepsContract` of
`DirectLauncher` and of `PidRuntime` is `Contract!Spec` under their refinement mappings.

**Configuration** has no variables. It is load_policy's validation (`Accepted`, the
conjunction of the four checks), prepare_sandbox (`Refused`, `SandboxConfig` with its
checked multiplications), and what runner.rs and cgroup.rs pass to the kernel from the
result (`Restrictions`: rlimits, cgroup values, Landlock and TCP rules, syscalls,
hostname, tmpfs). An Option is the set of its value or empty, which makes and_then a
UNION and unwrap_or a union with a default. The types of every section are policy.rs's
(`PolicyTypeOK`).

**Identity** is check_identity call by call (`Open`, `Canonicalize`, `Compare`) and
hash_calc read by read (`ReadBlock`, `CheckHash`), on names that lead to places, places
that hold files, and files that hold blocks. Others may meanwhile lead a name elsewhere
(`Retarget`), put another file or none in a place (`Replace`), or write a file in place
(`Overwrite`).

**Main** is main's stages in order, each with its event (`CheckCli`, `LoadPolicy`,
`Identify`, `ReportIdentity`, `Prepare`, `Announce`, `Spawn`, `Monitor`, `Report`), and
the child that run_app forks: `Execute` or `SetupFails`, supervision by the actions of
RunContract, and `LauncherEnds` with the exit code for the verdict. An event that cannot
be written ends the program (`Allow`, `Deny`). The child is launcher, PID1 and the
application's process in one, which `Launch` and the launchers' modules take apart, and
the host's loop is one stage, which `HostMonitor` takes apart. What the kernel takes has
two ends: the smallest values are those of its interfaces, and `Largest` is a constant
that gives the greatest value of each limit: the maxima of pids.max, memory.max and
cpu.max, and for rlimits the hard limits that the runtime has inherited. A cgroup value
beyond its maximum ends the run in `Spawn`, on the host; an rlimit beyond its maximum
ends the child in `SetupFails`. **MCMain** holds the inputs for TLC.

**Cgroup** follows several runs of the runtime under one parent directory, with
every call failing or not, hosts killed at any point, PIDs used again among hosts
that do not live at the same time, and processes that survive cgroup.kill for a
while. The launcher's move precedes the fork of the application, so the
application is wherever the launcher is.

**DirectoryLease** is what this amounts to, with three variables: the name that each run
holds, the names that are taken, and the runs with processes inside. A name is leased by
making its directory, entered only under the lease, and free again only when its holder
has removed the directory with nobody inside; a run that fails or is killed abandons the
name, which stays taken. Property `ImplementsLease` of Cgroup is `Lease!Spec` with the
mapping that a run holds its PID's name while its host is between create_dir and its
return, while its launcher may yet move in, or while its processes are inside.

**Launch** gives every process a script, in the order of the code, of calls,
dropped descriptors, forks and waits. `Init` chooses the policy and whether the
runtime has capabilities. `Granted` is what the kernel asks for before it grants
a call, given the calls made before; `Fail` makes any call or fork fail. A policy may
be accepted and yet be at odds with its own launch; `Faulty` are the ways: no Landlock
rule that lets /dev/null be read, none that lets the executable and its interpreter be
executed, an rlimit above the inherited hard limit, an address space too small for the
program, a pids.max too small for the application's process or for PID1. `Blamed` says which
of them a refused step is due to. A process
inherits the calls and descriptors of the one that forked it; execveat closes
what is marked.

### Abstractions

* Time is the step from "armed" to "expired". The poll interval is the loop's
  next iteration. The shortest timeout is a second, so a deadline does not expire
  before the child's first call, setpgid; the same holds for the host's notice,
  which needs output of an application whose pipes are connected after it.
* Delivery of SIGKILL and the end of the process are one step in `AppTree`;
  `Cgroup` has processes that end later.
* Not in the models: stopped and continued children (only printed), PID numbers
  used again within an application (nor the main process's number as the id of another
  group, once its own has ended), subreapers and CLONE_PARENT inside it, and killpg
  errors other than ESRCH as a case of their own (they are the supervisor's failure).
* `Main`: an input says whether things outside the program may fail (`faulty`), and how
  often others change files, up to the moment the program runs. The hash is injective:
  app_hash stands for one content. Times, reasons and scores of events do not appear,
  and the text of the command line is what check_cli tests of it.
* A quota of cpu.max is checked against its smallest and largest value, not against
  those of the parent groups; other limits that the system sets for the runtime are
  failing calls (`Fail`, `Faulty`).
* `Configuration`: a path, a syscall and a rule are names; a hostname is its length and
  whether it has white space. A file that is no JSON, or lacks a field, is a failing read.
* `Launch`: stdout and stderr are one pipe; the contents of rules, limits, uid
  maps and environment do not appear; a seccomp filter either denies a call that
  exec_verified makes or does not. The Landlock and libseccomp crates each set
  no_new_privs as well; the model has the runtime's own call only. The launcher's
  move into the cgroup is in `Cgroup`.

## 3. The runs

| Run | Instance | Shows |
|---|---|---|
| HostMonitor | limit 3, reads of 2, pipes of 3, counter up to 5, 6 bytes | `SharedBudget`, `ReadNeverBlocks`, `NoOutputLost`, `CleanSuccess`, `OneNotice`, and `HostReturns`, `LimitReported` |
| Pid1Supervisor | main and two more processes, TERM and INT, two signals | `ReturnsOnlyWhenEmpty`, `StatusIsMains` (a timeout only of an unreaped main process included), `SigkillEmptiesGroup`, and `TimeoutTerminates`, `MainExitTerminates`, `SignalForwardedWhenPolling` |
| DirectLauncher | main and two more processes | `KeepsContract` (RunContract refined), `GraceNotRestarted`, and `TimeoutTerminates` |
| PidRuntime | main and one more process, TERM and INT, one outside signal | `NothingOutlivesLauncher`, `KeepsContract` (RunContract refined), and `OutputLimitEnforced` |
| Cgroup | two runs, two PIDs, two limits | `OwnProcessesOnly`, `ApplicationLimited`, `SuccessLeavesNothing`, `ImplementsLease` (DirectoryLease refined), and `CleanupEnds` |
| Launch | UTS, PID and mount namespaces, all policies over them, each of `Faulty` and two at once | `RunsRestricted`, `OnlyItsDescriptors`, `RefusedOnlyByPolicy`, and `HostReturns` |
| Main | some 400 policies, 7 other command lines, failures, two changes of files | `AcceptedIsApplicable`, `PolicyInForce`, `ExecutedIsVerified`, `LogTellsTheRun`, `SuccessIsTheApplications` |
| HostCgroupLeft, Pid1Daemon, Pid1LostSignal, DirectLimit, MainLimits | smallest instance with the behaviour | violations: section 4 |

Every passing run also checks the module's `TypeOK`.

**Why the bounds are enough.** HostMonitor: two streams that each exceed a read,
a pipe and, together, the limit and the counter, so a read straddles the budget's
edge, the second stream meets an exhausted budget, and the counter overflows only
past the limit; the theorems hold for all values. Pid1Supervisor and
DirectLauncher: three processes make a main process, a child in the group that
ignores SIGTERM, and a daemon or a grandchild that becomes an orphan, all at once;
a second signal overwrites a first that is not yet forwarded. PidRuntime: with one
process more than main, PID1 has to wait for an orphan after main's end; the one
outside signal is enough to overwrite the launcher's SIGTERM or to precede it.
Cgroup: two runs with a common PID (one after the other) and with different PIDs
(at the same time); two limits, so one may fail after the other is written.
Launch: a kind with a call of its own after unshare (uts), and the two that
interact (pid brings mount); ipc and network only add a flag to the same call.
Main: one policy uses every option, and the others vary it in one place with the values
on both sides of each check and each overflow, so a check that is off by one, dropped
or applied to the wrong section decides differently for one of them; sections that share
values (memory_mb with rlimit and cgroup) are varied together. TLC's integers have 32
bits, so the widest number is 2^31 - 1 in the run; the factors 1024 and 100000 are the
real ones, and the theorems hold for every width. For RLIMIT_CPU,
RLIMIT_NPROC, pids.max and cpu.max there is a policy at the largest value (`MCLargest`) and
one above, cpu.max's being scaled to fit the 32 bits; the sizes end where u64 does. Two places, two files and two changes
let both names be led elsewhere and back, or a file be exchanged between open and
canonicalize or written between two reads. The places are interchangeable, and so are
the files: Init, the actions and the invariants name none, which is why the run's
symmetry is sound. Only one input has changes and two have faults, as the remaining
state does not depend on the policy there.

**Fairness.** The runtime's own loops are weakly fair: the kernel schedules a
process that can run. Deadlines are weakly fair: clocks advance. setpgid is fair,
being the runtime's own code in the forked child. Nothing is assumed of the
application, of the launcher in HostMonitor, or of the sandbox's processes in
Cgroup: they may run or be silent for ever. Main is checked for safety only and has no
fairness. In Launch each process of the runtime
is fair in doing its next step, with failure required only where the call is
refused; other failures may happen and need not.

**Deadlock** is not checked (`CHECK_DEADLOCK FALSE`): every model ends, when the
supervisor or host has returned, and DirectLauncher and Launch may rest while an
application runs for ever. That nothing stops elsewhere is what the liveness
properties say.

## 4. Where the documents and the code disagree

* **HostCgroupLeft.** README.md:219 says that the cgroup is cleaned up after
  execution. If the launcher has exited before the host reads the bytes that
  exceed the limit, the notice fails with EPIPE, `?` at runner.rs:435 leaves
  run_app before lines 448-453, and the directory stays.
* **Pid1Daemon.** README.md:235-245 says that a timeout ends in SIGKILL. A process
  in a session of its own is outside killpg's reach and PID1 waits for it until
  ECHILD, with no other deadline.
* **Pid1LostSignal.** README.md:259 says that signals are forwarded. Without a
  timeout, one that arrives between the test of RECEIVED_SIGNAL and the blocking
  waitpid is not, as long as no child ends and no other signal comes.
* **DirectLimit.** README.md:363-365 says that the launcher terminates the sandbox
  on the host's notice. With `pid: false` and no timeout the launcher is blocked
  in waitpid and does not read the pipe.

* **MainLimits.** scripts/run_all_tests.sh:55-59 expects "memory allocation failed" with
  policies/memory_limit_probe.json, and lines 85-89 expect "Resource temporarily
  unavailable" with policies/process_limit_probe.json. Both policies give memory_mb and
  max_processes and have neither an rlimit nor a cgroup section. prepare_sandbox uses the
  two values inside these sections only (from sandbox.rs:240 on), so both are accepted and
  the application runs without either limit.

Pid1Daemon, Pid1LostSignal and DirectLimit are also why `TimeoutTerminates` has the alternative
`Departed`, why `SignalForwardedWhenPolling` asks for a deadline, and why
`OutputLimitEnforced` passes for PidRuntime, whose launcher always polls and kills
the namespace from outside. `TimeoutTerminates` and `MainExitTerminates` ask for
`~sigkill_sent` as well: a process that was outside the group when SIGKILL was sent may
come back to it, and is never signalled again.

Seen while modelling, and part of what the models allow:

* The host's notice decides nothing once the application has ended: if the launcher has
  not read it by then and the application exits with 0, the run is reported as a success
  although output was cut (`RunContract`: only a cause that was acted on is a verdict).
* The launcher turns a signal into 128+n, so main's arms for SIGXFSZ, SIGXCPU and SIGKILL
  see the launcher's own signals only. scripts/run_all_tests.sh:75-79 expects "File size
  limit exceeded" of an application that SIGXFSZ ends; main reports status code 153.
* An application's own exit codes 124 and 125 look like the launcher's.
* README.md:366 says that an exceeded limit ends the runtime with a dedicated status. The
  launcher ends with 125, but main (main.rs:192) exits with 1 for every status of the
  launcher but 0, so its caller sees 1 for an exceeded limit, a timeout (124) and any
  other failure.
* Validation has no upper bounds where the kernel has: a max_processes above pids.max's
  4194304, a cpu_percent above cpu.max's bandwidth, and rlimits above the hard limits
  that the runtime has inherited (sandbox.rs:481-484) are accepted. The first two fail on
  the host in prepare_cgroup, the last in the child, half-way through its setup
  (`AcceptedIsApplicable` says that nothing else does).
* A policy whose read_allow and exec_allow do not cover the executable and its
  interpreter is accepted, and execveat always refused by its Landlock rules
  (sandbox.rs:412-427, executor.rs:50-59).
* A timeout near u64::MAX passes validation and panics at `Instant::now() + ...`.
* Landlock's from_read includes Execute, so read_allow permits execution;
  filesystem.deny and default_action change nothing that is enforced.
* policy.rs:262 allows a hostname of 64 bytes, its message speaks of 63.

## 5. The proofs

For all values of the constants, under the modules' named assumptions
(`HostAssumption`, `TreeAssumption`, `SupervisorAssumption`, `RuntimeAssumption`,
`CgroupAssumption`, `LaunchAssumption`, `ConfigurationAssumption`, `IdentityAssumption`, `MainAssumption`: types, distinct names
and positive sizes, a largest value for each limit, which may be any, and that an input's
policy has the types of policy.rs; TLC evaluates
them in every run of the module):

* **HostMonitorProofs**: all six invariants of the run. `Inv` adds that a stream
  counted as closed stays empty and without writers (`EofIsFinal`), that sampled
  events hold until their read (`EventsHold`: only the host takes bytes out, and a
  write end does not come back), and conservation of bytes (`NoByteLost`).
  `BudgetArithmetic` is the lemma behind the shared budget:
  what a read of n bytes forwards is the growth of min(total, limit).
* **AppTreeProofs**: a death, a killpg and every step of the application keep
  `TreeInv`. Its heart is `WellFounded`: every set of unreaped processes has a
  member whose parent is outside it. It says "everybody descends from the Reaper"
  without following parents.
* **Pid1SupervisorProofs**: `ReturnsOnlyWhenEmpty` from `NoChildrenMeansEmpty`
  (ECHILD means that nobody is left, by `WellFounded` applied to `Unreaped`),
  `StatusIsMains` (from the invariant `StatusKept` and, for its action part, `TimeoutStep`),
  `SigkillEmptiesGroup`. `Causes` ties deadlines to triggers and shows that SIGKILL is
  never sent before the main process is in its group. That nobody is in the group
  afterwards is not an invariant, as processes may come back; what is proved is the action
  property `KilledOnce` (`KillStep`): the step that sends SIGKILL leaves nobody alive in the
  group, and the first step that puts somebody there again is a return from outside.
* **DirectLauncherProofs**: `LauncherKeepsContract`, the refinement of `RunContract`:
  initial states map to initial states and every action to an action of the contract or
  to a stutter. A step of the launcher that asks and kills at once, with a status as its
  effect, is one `Ask`. It needs `VerdictMatchesCause`, the core of the inductive
  invariant, which is a theorem of its own; and the action properties
  `SigkillEmptiesGroup`, as for PID1, and `GraceNotRestarted`, from the same invariant.
* **PidRuntimeProofs**: `NothingOutlivesLauncher`, and `RuntimeKeepsContract`, the
  refinement of `RunContract` by three processes. It instantiates Pid1SupervisorProofs
  for the PID1 inside; the `Same...` lemmas say that this is the supervisor PidRuntime
  talks about, and carry its invariant over, for as long as PID1 lives. `PidOneInv` says
  what remains once PID1 was killed or failed: nobody is left, and a status that it never
  reported. `OutcomeInv` ties the launcher's outcome to the notice it has read and to the
  way PID1 ended. In the mapping a notice that the launcher reads is the request to stop,
  whether PID1 hears of it or not; SIGKILL to the namespace may end the main process and
  reports nothing; and what PID1 returns is reported when the launcher reaps it, as the
  cause acted on, as what PID1 says, or as a failure.
  `VerdictIsHonest`, here and in DirectLauncherProofs, is what the contract is good for,
  proved from its own steps and carried over by the refinement: a cause that is reported
  exists and was acted on (`Honest`), and a verdict is never taken back (`OneVerdict`).
* **CgroupProofs**: all safety properties, for any number of runs, PIDs and limits.
  The invariant is about *holders*, the runs whose directory must still be theirs:
  a holder's directory exists and has no other holder. create_dir, which fails on
  an existing name, is what keeps it. `CgroupKeepsLease` is the refinement of
  `DirectoryLease`: each step of a run leaves every other run's lease alone (`Unmoved`)
  and is quiet, takes, enters, leaves or drops; that cgroup.kill is the holder's own
  `Leave` needs the invariant. `LeaseIsExclusive` says what the lease is good for, from
  its own steps alone.
* **LaunchProofs**: all four invariants of the run, for every policy over any kinds of
  namespace and every call failing. The scripts are compositions of pieces that a policy
  switches on and off; the proofs see of them only the set of steps (`Steps`) and which
  set of steps comes before which (`Before`), both computed piece by piece
  (`StepsOfConcat`, `BeforeConcat`, and one lemma of facts per piece). A process is then
  its *place* in its script: it has made the calls up to there, and what it has left to
  do is the rest (`PlaceInv`). `BirthInv` says that nobody is born twice,
  `InheritedInv` what a child has from the one that forked it, `DescriptorInv` which
  descriptors are open and marked. `RunsRestricted` follows because execveat is the last
  step; `RefusedOnlyByPolicy` is `GrantedByOrder`: at every call and fork, what the kernel
  asks for is earlier in the script or inherited, and what is left is `Blamed`: a fault of
  the policy at the call that meets it, or a runtime without capabilities and without a
  user namespace.

* **MainProofs**: all six properties of run Main. Its first part are lemmas about
  `Configuration` for every policy and every width: `CheckedMul` is exact or empty; an
  unrefused policy's conversions are all exact; a quota is at least a millisecond. So what
  is accepted and not refused is taken by the kernel unless a limit is above `Largest`
  (`AcceptedIsTaken`), and every section is exactly what the policy lists (`LimitsAreExact`,
  `RightsAreExact`, `SyscallsAreExact`, `NamespaceIsExact`). The inductive invariants are one per
  question, each over few variables: `StageInv` (past a stage, its test was passed),
  `ContractInv` and `SuccessInv` (how status, asked causes, verdict, launcher's status
  and exit code determine each other), `LogInv` (the log is a prefix of `Story`, then
  what comes after the fork), `ReadInv` and `PathInv` (what was read so far is a prefix
  of the opened file's content, unless that file was written in place; and, unchanged,
  the path is the policy's), `ProgramInv` (what runs has the restrictions of the
  configuration). `ExecutedIsVerified` needs `ReadInv` block by block: equality with the
  approved content follows only at the end of file.

Every safety property that a run checks is thereby a theorem, and so are both
refinements of RunContract and that of DirectoryLease. Only model-checked are the
liveness properties (`HostReturns` of HostMonitor and of Launch, `LimitReported`,
`TimeoutTerminates`, `MainExitTerminates`, `SignalForwardedWhenPolling`,
`OutputLimitEnforced`, `CleanupEnds`): they need fairness and ENABLED, which the prover
does not have.

## 6. Not modelled

* The file access engine (`engine.rs`): main declares the module and calls nothing of it.
* Probes, test programs, scripts and example policies: workloads and inputs; they were
  read for the options in use.
* SHA-256 itself, and the contents of ID maps, environment and arguments, which no
  decision of the runtime depends on.
* The wording of messages and events, their times and scores; the statistics' values,
  which are printed and logged.
* Processor time: after one stream's end of file the host's poll returns at once and the
  loop spins, which an untimed model does not tell from waiting.

`Launch` leaves out the contents of what its calls are given (`Configuration` has the
values), which is why it is listed as partly modelled.

## 7. Plan

Done, in this order: HostMonitor; AppTree with Pid1Supervisor and DirectLauncher;
PidRuntime; Cgroup; Launch; RunContract with its refinements and the failures of
supervisors; Configuration; Identity; Main; DirectoryLease; the proofs of every safety
property and every refinement.

Next, in order of weight:

1. **Safety halves of the liveness properties**, as theorems: for `TimeoutTerminates`
   and `OutputLimitEnforced`, that a loop whose deadline is armed never blocks.
2. **The contract in Main**: that Main implements RunContract too, so that `Honest` carries
   over to the exit code and `SuccessInv` becomes shorter.
