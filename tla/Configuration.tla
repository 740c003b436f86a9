------------------------------ MODULE Configuration ------------------------------
(***************************************************************************)
(* From a policy to what the kernel is asked to enforce: load_policy's     *)
(* validation, prepare_sandbox, and the values that the restricting calls  *)
(* of runner.rs and cgroup.rs pass on.                                     *)
(*                                                                         *)
(* An Option is the set of its value, or {}.  A policy is a record of      *)
(* policy.rs's structures (MCMain!Base shows one); a hostname is its       *)
(* length and whether it has white space.                                  *)
(***************************************************************************)
EXTENDS Integers

CONSTANTS
    U64Max,          \* the largest u64
    Baseline,        \* the names of baseline_denied_syscalls
    StrictOnly,      \* the names strict_denied_syscalls adds
    KnownSyscalls,   \* the names libseccomp resolves
    Missing          \* the paths that canonicalize cannot resolve

ASSUME ConfigurationAssumption ==
    /\ U64Max \in Nat \ {0}
    /\ Baseline \cup StrictOnly \subseteq KnownSyscalls

\* unwrap_or(false)
Enabled(opt) == TRUE \in opt

\* and_then(|value| value.field)
Of(opt, field) == UNION {x[field] : x \in opt}

Default(opt, value) == IF opt = {} THEN {value} ELSE opt

IsOption(opt, S) == opt \subseteq S /\ \A v, w \in opt : v = w

U64 == 0..U64Max
U16 == 0..65535

ResourcesTypeOK(res) ==
    /\ \A field \in {"timeout_seconds", "max_output_kb", "memory_mb", "max_processes"} :
           IsOption(res[field], U64)
    /\ IsOption(res.rlimit, res.rlimit) /\ IsOption(res.cgroup, res.cgroup)
    /\ \A rlimit \in res.rlimit :
        /\ IsOption(rlimit.enabled, BOOLEAN)
        /\ IsOption(rlimit.cpu_seconds, U64) /\ IsOption(rlimit.max_file_size_mb, U64)
    /\ \A cgroup \in res.cgroup :
        IsOption(cgroup.enabled, BOOLEAN) /\ IsOption(cgroup.cpu_percent, U64)

\* What serde makes of the file, as far as the proofs need it.
PolicyTypeOK(pol) ==
    /\ IsOption(pol.resources, pol.resources)
    /\ \A res \in pol.resources : ResourcesTypeOK(res)
    /\ \A net \in pol.network :
        UNION (net.connect_tcp \cup net.bind_tcp) \subseteq U16
    /\ \A sec \in pol.seccomp : IsOption(sec.profile, {"none", "baseline", "strict"})
    /\ \A section \in {"seccomp", "namespace"} : IsOption(pol[section], pol[section])
    /\ \A ns \in pol.namespace : IsOption(ns.uts, ns.uts) /\ IsOption(ns.mount, ns.mount)

-----------------------------------------------------------------------------
(* policy.rs: what load_policy accepts.                                    *)

ValidResources(res) ==
    /\ 0 \notin res.max_output_kb \cup res.timeout_seconds \cup res.memory_mb
                \cup res.max_processes
    /\ \A rlimit \in res.rlimit :
        /\ 0 \notin rlimit.max_file_size_mb \cup rlimit.cpu_seconds
        /\ Enabled(rlimit.enabled) =>
               rlimit.cpu_seconds \cup rlimit.max_file_size_mb
               \cup res.memory_mb \cup res.max_processes # {}
    /\ \A cgroup \in res.cgroup :
        /\ 0 \notin cgroup.cpu_percent
        /\ Enabled(cgroup.enabled) =>
               cgroup.cpu_percent \cup res.memory_mb \cup res.max_processes # {}

Lists == {"read_allow", "write_allow", "exec_allow", "deny"}

ValidPolicy(pol) ==
    /\ pol.version = 1
    /\ pol.default_action \in {"allow", "deny"}
    /\ \E list \in Lists : pol.filesystem[list] # {}
    /\ \A res \in pol.resources : ValidResources(res)
    /\ \A net \in pol.network : 0 \notin UNION (net.connect_tcp \cup net.bind_tcp)

ValidSeccompNames(pol) ==
    \A names \in Of(pol.seccomp, "deny") : names \subseteq KnownSyscalls

\* len() is in bytes; blank: it has white space, or nothing else.
ValidHostname(pol) ==
    \A uts \in Of(pol.namespace, "uts") :
        /\ uts.hostname # {}
        /\ \A name \in uts.hostname : name.len \in 1..64 /\ ~name.blank

ValidMountPolicy(pol) ==
    \A mount \in Of(pol.namespace, "mount") :
        /\ Enabled(mount.private_tmp) => Enabled(mount.enabled)
        /\ mount.tmp_size_mb \subseteq 1..1024

\* Mutant: one of the four checks is not called.
WithoutHostname(pol) == ValidPolicy(pol) /\ ValidSeccompNames(pol) /\ ValidMountPolicy(pol)

\* load_policy, for a file that parses.
Accepted(pol) ==
    /\ ValidPolicy(pol) /\ ValidSeccompNames(pol)
    /\ ValidHostname(pol) /\ ValidMountPolicy(pol)

-----------------------------------------------------------------------------
(* sandbox.rs: prepare_sandbox.                                            *)

\* Mutant: saturating_mul.
SaturatingMul(a, b) == {IF a <= U64Max \div b THEN a * b ELSE U64Max}

\* None is the overflow.
CheckedMul(a, b) == IF a <= U64Max \div b THEN {a * b} ELSE {}

Kilobytes(opt) == UNION {CheckedMul(kb, 1024) : kb \in opt}

Megabytes(opt) == Kilobytes(Kilobytes(opt))

Overflows(opt, converted) == opt # {} /\ converted = {}

\* memory_mb is looked at only where there is an rlimit or a cgroup.
ResourcesOverflow(res) ==
    \/ Overflows(res.max_output_kb, Kilobytes(res.max_output_kb))
    \/ /\ res.rlimit \cup res.cgroup # {}
       /\ Overflows(res.memory_mb, Megabytes(res.memory_mb))
    \/ \E rlimit \in res.rlimit :
           Overflows(rlimit.max_file_size_mb, Megabytes(rlimit.max_file_size_mb))

\* The error returns of prepare_sandbox; the deny list is not resolved.
Refused(pol) ==
    \/ \E list \in Lists \ {"deny"} : pol.filesystem[list] \cap Missing # {}
    \/ \E res \in pol.resources : ResourcesOverflow(res)

RlimitConfig(pol) ==
    LET rlimit == Of(pol.resources, "rlimit")
    IN  [enabled |-> Enabled(Of(rlimit, "enabled")),
         memory_bytes |-> IF rlimit = {} THEN {} ELSE Megabytes(Of(pol.resources, "memory_mb")),
         max_processes |-> IF rlimit = {} THEN {} ELSE Of(pol.resources, "max_processes"),
         cpu_seconds |-> Of(rlimit, "cpu_seconds"),
         max_file_size_bytes |-> Megabytes(Of(rlimit, "max_file_size_mb"))]

CgroupConfig(pol) ==
    LET cgroup == Of(pol.resources, "cgroup")
    IN  [enabled |-> Enabled(Of(cgroup, "enabled")),
         memory_bytes |-> IF cgroup = {} THEN {} ELSE Megabytes(Of(pol.resources, "memory_mb")),
         max_processes |-> IF cgroup = {} THEN {} ELSE Of(pol.resources, "max_processes"),
         cpu_percent |-> Of(cgroup, "cpu_percent")]

Profile(profile) ==
    IF profile = "baseline" THEN Baseline
    ELSE IF profile = "strict" THEN Baseline \cup StrictOnly ELSE {}

\* build_denied_syscall
DeniedSyscalls(pol) ==
    UNION ({Profile(p) : p \in Of(pol.seccomp, "profile")} \cup Of(pol.seccomp, "deny"))

\* A PID namespace brings a mount namespace.
NamespaceConfig(pol) ==
    LET uts == Of(pol.namespace, "uts")
        mount == Of(pol.namespace, "mount")
        pid == Enabled(Of(pol.namespace, "pid"))
    IN  [hostname |-> IF Enabled(Of(uts, "enabled")) THEN Of(uts, "hostname") ELSE {},
         pid |-> pid,
         mount |-> Enabled(Of(mount, "enabled")) \/ pid,
         private_tmp |-> Enabled(Of(mount, "private_tmp")),
         tmp_size_mb |-> Default(Of(mount, "tmp_size_mb"), 32)]

SandboxConfig(pol) ==
    [read_allow |-> pol.filesystem.read_allow,
     write_allow |-> pol.filesystem.write_allow,
     exec_allow |-> pol.filesystem.exec_allow,
     timeout_seconds |-> Of(pol.resources, "timeout_seconds"),
     max_output_bytes |-> Kilobytes(Of(pol.resources, "max_output_kb")),
     rlimit |-> RlimitConfig(pol),
     cgroup |-> CgroupConfig(pol),
     network |-> pol.network # {},
     connect_tcp |-> UNION Of(pol.network, "connect_tcp"),
     bind_tcp |-> UNION Of(pol.network, "bind_tcp"),
     seccomp |-> pol.seccomp # {},
     denied_syscalls |-> DeniedSyscalls(pol),
     namespace |-> NamespaceConfig(pol)]

-----------------------------------------------------------------------------
(* What reaches the kernel.                                                *)

Values(what, opt) == {<<what, value>> : value \in opt}

\* apply_resource_limits
Rlimits(config) ==
    LET rlimit == config.rlimit
    IN  IF rlimit.enabled
        THEN Values("CPU", rlimit.cpu_seconds \ {0})
             \cup Values("AS", rlimit.memory_bytes \ {0})
             \cup Values("FSIZE", rlimit.max_file_size_bytes)
             \cup Values("NPROC", rlimit.max_processes)
        ELSE {}

Period == 100000

\* The quota of cpu.max for each period.
Quota(opt) == {q \div 100 : q \in UNION {CheckedMul(percent, Period) : percent \in opt}}

\* apply_cpu_limit's only error of its own; the directory has been created by then.
QuotaOverflows(config) ==
    config.cgroup.enabled
    /\ Overflows(config.cgroup.cpu_percent, Quota(config.cgroup.cpu_percent))

\* apply_cgroup_limits
CgroupValues(config) ==
    LET cgroup == config.cgroup
    IN  IF cgroup.enabled
        THEN Values("memory.max", cgroup.memory_bytes)
             \cup Values("pids.max", cgroup.max_processes)
             \cup Values("cpu.max", Quota(cgroup.cpu_percent))
        ELSE {}

\* apply_landlock_sandbox.  from_read includes Execute.
LandlockRules(config) ==
    config.read_allow \X {"read_file", "read_dir", "execute"}
    \cup config.write_allow \X {"read_file", "read_dir", "write"}
    \cup config.exec_allow \X {"read_file", "execute"}

\* Without a network policy TCP is not handled: every port is open.
TcpRules(config) ==
    [handled |-> config.network,
     allowed |-> config.connect_tcp \X {"connect"} \cup config.bind_tcp \X {"bind"}]

Restrictions(config) ==
    [rlimits |-> Rlimits(config),
     cgroup |-> CgroupValues(config),
     files |-> LandlockRules(config),
     tcp |-> TcpRules(config),
     syscalls |-> config.denied_syscalls,
     hostname |-> config.namespace.hostname,
     tmp |-> IF config.namespace.mount /\ config.namespace.private_tmp
             THEN config.namespace.tmp_size_mb ELSE {}]
=============================================================================
