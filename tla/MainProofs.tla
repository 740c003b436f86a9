------------------------------- MODULE MainProofs -------------------------------
(***************************************************************************)
(* What the conversions of Configuration give for every accepted policy    *)
(* that prepare_sandbox does not refuse, and then the invariants of Main   *)
(* for every policy, every set of files and every width of a number.       *)
(* StageInv ties main's stage to what has been decided so far; the others  *)
(* build on it.                                                            *)
(***************************************************************************)
EXTENDS Main, SequenceTheorems, TLAPS

-----------------------------------------------------------------------------
(* The conversions.                                                        *)

\* and_then keeps what holds of every value of the field.
LEMMA OfIsIn ==
    ASSUME NEW opt, NEW field, NEW v, v \in Of(opt, field)
    PROVE  \E x \in opt : v \in x[field]
BY DEF Of

\* checked_mul gives the product or nothing.
LEMMA CheckedMulGives ==
    ASSUME NEW a \in Nat, NEW b \in Nat \ {0}, NEW v \in CheckedMul(a, b)
    PROVE  v = a * b
BY DEF CheckedMul

\* What is in kilobytes is a multiple of 1024, of a value that was given.
LEMMA KilobytesGives ==
    ASSUME NEW opt \in SUBSET Nat, NEW v \in Kilobytes(opt)
    PROVE  \E kb \in opt : v = kb * 1024
BY CheckedMulGives DEF Kilobytes

\* The same in megabytes.
LEMMA MegabytesGives ==
    ASSUME NEW opt \in SUBSET Nat, NEW v \in Megabytes(opt)
    PROVE  \E mb \in opt : v = mb * 1024 * 1024
<1>1. \A kb \in Kilobytes(opt) : \E mb \in opt : kb = mb * 1024
  BY CheckedMulGives DEF Kilobytes
<1>2. \A kb \in Kilobytes(opt) : kb \in Nat
  BY <1>1
<1>3. PICK kb \in Kilobytes(opt) : v = kb * 1024
  <2>1. Kilobytes(opt) \subseteq Nat
    BY <1>2
  <2> QED
    BY <2>1, KilobytesGives DEF Megabytes
<1>4. PICK mb \in opt : kb = mb * 1024
  BY <1>1
<1> QED
  BY <1>3, <1>4

\* A percentage of the period of cpu.max is a whole number of milliseconds.
LEMMA QuotaGives ==
    ASSUME NEW opt \in SUBSET Nat, NEW v \in Quota(opt)
    PROVE  \E percent \in opt : v = percent * 1000
<1>1. PICK percent \in opt : \E q \in CheckedMul(percent, Period) : v = q \div 100
  BY DEF Quota
<1>2. v = (percent * 100000) \div 100
  BY <1>1, CheckedMulGives DEF Period
<1> QED
  BY <1>2

-----------------------------------------------------------------------------
(* What validation leaves: no number of an accepted policy is zero.        *)

Positive == U64 \ {0}

LEMMA PositiveIsNat == Positive \subseteq Nat \ {0}
BY ConfigurationAssumption DEF Positive, U64

\* Every resources section has its type and passed its checks.
LEMMA ResourcesAreValid ==
    ASSUME NEW pol, PolicyTypeOK(pol), Accepted(pol), NEW res \in pol.resources
    PROVE  ResourcesTypeOK(res) /\ ValidResources(res)
BY DEF PolicyTypeOK, Accepted, ValidPolicy

\* The numbers of the resources section itself.
LEMMA ResourceNumbers ==
    ASSUME NEW pol, PolicyTypeOK(pol), Accepted(pol),
           NEW field \in {"timeout_seconds", "max_output_kb", "memory_mb", "max_processes"}
    PROVE  Of(pol.resources, field) \subseteq Positive
<1> SUFFICES ASSUME NEW v \in Of(pol.resources, field) PROVE v \in Positive
  OBVIOUS
<1>1. PICK res \in pol.resources : v \in res[field]
  BY DEF Of
<1>2. ResourcesTypeOK(res) /\ ValidResources(res)
  BY ResourcesAreValid
<1>3. IsOption(res[field], U64)
  BY <1>2 DEF ResourcesTypeOK
<1>4. v \in U64
  BY <1>1, <1>3 DEF IsOption
<1>5. v # 0
  BY <1>1, <1>2 DEF ValidResources
<1> QED
  BY <1>4, <1>5 DEF Positive

\* Those of its rlimit section.
LEMMA RlimitNumbers ==
    ASSUME NEW pol, PolicyTypeOK(pol), Accepted(pol),
           NEW field \in {"cpu_seconds", "max_file_size_mb"}
    PROVE  Of(Of(pol.resources, "rlimit"), field) \subseteq Positive
<1> SUFFICES ASSUME NEW v \in Of(Of(pol.resources, "rlimit"), field) PROVE v \in Positive
  OBVIOUS
<1>1. PICK rlimit \in Of(pol.resources, "rlimit") : v \in rlimit[field]
  BY DEF Of
<1>2. PICK res \in pol.resources : rlimit \in res.rlimit
  BY DEF Of
<1>3. ResourcesTypeOK(res) /\ ValidResources(res)
  BY ResourcesAreValid
<1>4. IsOption(rlimit[field], U64)
  BY <1>2, <1>3 DEF ResourcesTypeOK
<1>5. v \in U64
  BY <1>1, <1>4 DEF IsOption
<1>6. v # 0
  BY <1>1, <1>2, <1>3 DEF ValidResources
<1> QED
  BY <1>5, <1>6 DEF Positive

\* That of its cgroup section.
LEMMA CgroupNumbers ==
    ASSUME NEW pol, PolicyTypeOK(pol), Accepted(pol)
    PROVE  Of(Of(pol.resources, "cgroup"), "cpu_percent") \subseteq Positive
<1> SUFFICES ASSUME NEW v \in Of(Of(pol.resources, "cgroup"), "cpu_percent")
             PROVE  v \in Positive
  OBVIOUS
<1>1. PICK cgroup \in Of(pol.resources, "cgroup") : v \in cgroup.cpu_percent
  BY DEF Of
<1>2. PICK res \in pol.resources : cgroup \in res.cgroup
  BY DEF Of
<1>3. ResourcesTypeOK(res) /\ ValidResources(res)
  BY ResourcesAreValid
<1>4. IsOption(cgroup.cpu_percent, U64)
  BY <1>2, <1>3 DEF ResourcesTypeOK
<1>5. v \in U64
  BY <1>1, <1>4 DEF IsOption
<1>6. v # 0
  BY <1>1, <1>2, <1>3 DEF ValidResources
<1> QED
  BY <1>5, <1>6 DEF Positive

-----------------------------------------------------------------------------
(* Every value that reaches the kernel is one it takes.                    *)

LEMMA PositiveMegabytes ==
    ASSUME NEW opt \in SUBSET Positive
    PROVE  Megabytes(opt) \subseteq Nat \ {0}
<1> SUFFICES ASSUME NEW v \in Megabytes(opt) PROVE v \in Nat \ {0}
  OBVIOUS
<1>1. \A mb \in opt : mb \in Nat \ {0}
  BY PositiveIsNat
<1>2. opt \subseteq Nat
  BY <1>1
<1>3. PICK mb \in opt : v = mb * 1024 * 1024
  BY <1>2, MegabytesGives
<1> QED
  BY <1>1, <1>3

\* setrlimit: no limit is 0, which would end the program at its first step.
LEMMA RlimitsArePositive ==
    ASSUME NEW pol, PolicyTypeOK(pol), Accepted(pol),
           NEW limit \in Rlimits(SandboxConfig(pol))
    PROVE  limit[2] \in Nat \ {0} /\ limit[1] \in LimitNames \ {"cpu.max"}
<1> DEFINE rlimit == RlimitConfig(pol)
<1>1. SandboxConfig(pol).rlimit = rlimit
  BY DEF SandboxConfig
<1>2. /\ rlimit.cpu_seconds \subseteq Nat \ {0}
      /\ rlimit.max_processes \subseteq Nat \ {0}
  BY PositiveIsNat, RlimitNumbers, ResourceNumbers DEF RlimitConfig
<1>3. rlimit.memory_bytes \subseteq Nat \ {0}
  BY ResourceNumbers, PositiveMegabytes DEF RlimitConfig
<1>4. rlimit.max_file_size_bytes \subseteq Nat \ {0}
  BY RlimitNumbers, PositiveMegabytes DEF RlimitConfig
<1> HIDE DEF rlimit
<1>5. \E what \in {"CPU", "AS", "FSIZE", "NPROC"} : \E value :
                       /\ limit = <<what, value>>
                       /\ value \in rlimit.cpu_seconds \cup rlimit.memory_bytes
                              \cup rlimit.max_file_size_bytes \cup rlimit.max_processes
  BY <1>1 DEF Rlimits, Values
<1> QED
  BY <1>2, <1>3, <1>4, <1>5 DEF LimitNames

\* The files of the control group: cpu.max wants a millisecond at least.
LEMMA CgroupValuesAreTaken ==
    ASSUME NEW pol, PolicyTypeOK(pol), Accepted(pol),
           NEW value \in CgroupValues(SandboxConfig(pol))
    PROVE  /\ value[1] \in LimitNames
           /\ value[2] \in Nat /\ value[2] >= (IF value[1] = "cpu.max" THEN 1000 ELSE 1)
<1> DEFINE cgroup == CgroupConfig(pol)
<1>1. SandboxConfig(pol).cgroup = cgroup
  BY DEF SandboxConfig
<1>2. cgroup.max_processes \subseteq Nat \ {0}
  BY PositiveIsNat, ResourceNumbers DEF CgroupConfig
<1>3. cgroup.memory_bytes \subseteq Nat \ {0}
  BY ResourceNumbers, PositiveMegabytes DEF CgroupConfig
<1>4. cgroup.cpu_percent \subseteq Nat \ {0}
  BY PositiveIsNat, CgroupNumbers DEF CgroupConfig
<1> HIDE DEF cgroup
<1>5. value \in Values("memory.max", cgroup.memory_bytes)
                \cup Values("pids.max", cgroup.max_processes)
                \cup Values("cpu.max", Quota(cgroup.cpu_percent))
  BY <1>1 DEF CgroupValues
<1>6. CASE value \in Values("memory.max", cgroup.memory_bytes)
  BY <1>3, <1>6 DEF Values, LimitNames
<1>7. CASE value \in Values("pids.max", cgroup.max_processes)
  BY <1>2, <1>7 DEF Values, LimitNames
<1>8. CASE value \in Values("cpu.max", Quota(cgroup.cpu_percent))
  <2>1. PICK quota \in Quota(cgroup.cpu_percent) : value = <<"cpu.max", quota>>
    BY <1>8 DEF Values
  <2>2. cgroup.cpu_percent \subseteq Nat
    BY <1>4
  <2>3. PICK percent \in cgroup.cpu_percent : quota = percent * 1000
    BY <2>2, QuotaGives
  <2> QED
    BY <1>4, <2>1, <2>3 DEF LimitNames
<1> QED
  BY <1>5, <1>6, <1>7, <1>8

\* The rules of Landlock: a port of 0 would mean any.
LEMMA PortsAreTaken ==
    ASSUME NEW pol, PolicyTypeOK(pol), Accepted(pol),
           NEW rule \in TcpRules(SandboxConfig(pol)).allowed
    PROVE  rule \in (U16 \ {0}) \X {"connect", "bind"}
<1> DEFINE connect == UNION Of(pol.network, "connect_tcp")
           bind == UNION Of(pol.network, "bind_tcp")
<1>1. TcpRules(SandboxConfig(pol)).allowed = connect \X {"connect"} \cup bind \X {"bind"}
  BY DEF TcpRules, SandboxConfig
<1>2. PICK port \in connect \cup bind : \E right \in {"connect", "bind"} : rule = <<port, right>>
  BY <1>1
<1>3. PICK net \in pol.network : \E ports \in net.connect_tcp \cup net.bind_tcp : port \in ports
  <2>1. CASE port \in connect
    BY <2>1 DEF Of
  <2>2. CASE port \in bind
    BY <2>2 DEF Of
  <2> QED
    BY <1>2, <2>1, <2>2
<1>4. port \in U16
  BY <1>3 DEF PolicyTypeOK
<1>5. port # 0
  BY <1>3 DEF Accepted, ValidPolicy
<1> QED
  BY <1>2, <1>4, <1>5

\* seccomp: libseccomp resolves every name.
LEMMA SyscallsAreKnown ==
    ASSUME NEW pol, Accepted(pol)
    PROVE  SandboxConfig(pol).denied_syscalls \subseteq KnownSyscalls
<1>1. \A names \in Of(pol.seccomp, "deny") : names \subseteq KnownSyscalls
  BY DEF Accepted, ValidSeccompNames
<1>2. \A profile : Profile(profile) \subseteq KnownSyscalls
  BY ConfigurationAssumption DEF Profile
<1>3. DeniedSyscalls(pol) \subseteq KnownSyscalls
  BY <1>1, <1>2 DEF DeniedSyscalls
<1> QED
  BY <1>3 DEF SandboxConfig

\* sethostname.
LEMMA HostnameIsTaken ==
    ASSUME NEW pol, Accepted(pol), NEW name \in SandboxConfig(pol).namespace.hostname
    PROVE  name.len \in 1..64
<1>1. name \in Of(Of(pol.namespace, "uts"), "hostname")
  BY DEF SandboxConfig, NamespaceConfig
<1>2. PICK uts \in Of(pol.namespace, "uts") : name \in uts.hostname
  BY <1>1 DEF Of
<1> QED
  BY <1>2 DEF Accepted, ValidHostname

\* The private /tmp: size=0m would have no limit.
LEMMA TmpHasSize ==
    ASSUME NEW pol, Accepted(pol)
    PROVE  0 \notin SandboxConfig(pol).namespace.tmp_size_mb
<1>1. SandboxConfig(pol).namespace.tmp_size_mb
         = Default(Of(Of(pol.namespace, "mount"), "tmp_size_mb"), 32)
  BY DEF SandboxConfig, NamespaceConfig
<1>2. ASSUME NEW mount \in Of(pol.namespace, "mount") PROVE 0 \notin mount.tmp_size_mb
  BY DEF Accepted, ValidMountPolicy
<1>3. 0 \notin Of(Of(pol.namespace, "mount"), "tmp_size_mb")
  BY <1>2, OfIsIn
<1> QED
  BY <1>1, <1>3 DEF Default

-----------------------------------------------------------------------------
(* Nothing is lost or changed on the way.                                  *)

\* The field of a section that is there.
LEMMA OfSection ==
    ASSUME NEW opt, IsOption(opt, opt), NEW x \in opt, NEW field
    PROVE  Of(opt, field) = x[field]
<1>1. opt = {x}
  BY DEF IsOption
<1> QED
  BY <1>1 DEF Of

InMegabytes(opt) == {mb * (1024 * 1024) : mb \in opt}

\* What does not overflow is converted exactly.
LEMMA MegabytesAreExact ==
    ASSUME NEW opt \in SUBSET Positive, IsOption(opt, U64), ~Overflows(opt, Megabytes(opt))
    PROVE  Megabytes(opt) = InMegabytes(opt)
<1>1. opt \in SUBSET Nat /\ \A mb \in opt : mb \in Nat
  BY PositiveIsNat
<1>2. ASSUME NEW v \in Megabytes(opt) PROVE v \in InMegabytes(opt)
  <2>1. PICK mb \in opt : v = mb * 1024 * 1024
    BY <1>1, MegabytesGives
  <2>2. v = mb * (1024 * 1024)
    BY <1>1, <2>1
  <2> QED
    BY <2>2 DEF InMegabytes
<1>3. ASSUME NEW v \in InMegabytes(opt) PROVE v \in Megabytes(opt)
  <2>1. PICK mb \in opt : v = mb * (1024 * 1024)
    BY DEF InMegabytes
  <2>2. PICK w \in Megabytes(opt) : TRUE
    BY <2>1 DEF Overflows
  <2>3. PICK kb \in opt : w = kb * 1024 * 1024
    BY <1>1, MegabytesGives
  <2>4. kb = mb
    BY DEF IsOption
  <2>5. w = v
    BY <1>1, <2>1, <2>3, <2>4
  <2> QED
    BY <2>5
<1> QED
  BY <1>2, <1>3

InMilliseconds(opt) == {percent * 1000 : percent \in opt}

\* The same for the quota of cpu.max.
LEMMA QuotaIsExact ==
    ASSUME NEW opt \in SUBSET Positive, IsOption(opt, U64), ~Overflows(opt, Quota(opt))
    PROVE  Quota(opt) = InMilliseconds(opt)
<1>1. opt \in SUBSET Nat /\ \A percent \in opt : percent \in Nat
  BY PositiveIsNat
<1>2. ASSUME NEW v \in Quota(opt) PROVE v \in InMilliseconds(opt)
  BY <1>1, QuotaGives DEF InMilliseconds
<1>3. ASSUME NEW v \in InMilliseconds(opt) PROVE v \in Quota(opt)
  <2>1. PICK percent \in opt : v = percent * 1000
    BY DEF InMilliseconds
  <2>2. PICK w \in Quota(opt) : TRUE
    BY <2>1 DEF Overflows
  <2>3. PICK other \in opt : w = other * 1000
    BY <1>1, QuotaGives
  <2>4. other = percent
    BY DEF IsOption
  <2> QED
    BY <2>1, <2>3, <2>4
<1> QED
  BY <1>2, <1>3

\* The rlimits of a policy that has them, without loss.
LEMMA RlimitConfigIsExact ==
    ASSUME NEW pol, PolicyTypeOK(pol), Accepted(pol), ~Refused(pol),
           NEW res \in pol.resources, NEW rlimit \in res.rlimit
    PROVE  RlimitConfig(pol) = [enabled |-> Enabled(rlimit.enabled),
                                memory_bytes |-> InMegabytes(res.memory_mb),
                                max_processes |-> res.max_processes,
                                cpu_seconds |-> rlimit.cpu_seconds,
                                max_file_size_bytes |-> InMegabytes(rlimit.max_file_size_mb)]
<1>1. IsOption(pol.resources, pol.resources)
  BY DEF PolicyTypeOK
<1>2. ResourcesTypeOK(res) /\ ~ResourcesOverflow(res)
  BY ResourcesAreValid DEF Refused
<1>3. IsOption(res.rlimit, res.rlimit)
  BY <1>2 DEF ResourcesTypeOK
<1>4. /\ Of(pol.resources, "rlimit") = res.rlimit
      /\ Of(pol.resources, "memory_mb") = res.memory_mb
      /\ Of(pol.resources, "max_processes") = res.max_processes
  BY <1>1, OfSection
<1>5. /\ Of(res.rlimit, "enabled") = rlimit.enabled
      /\ Of(res.rlimit, "cpu_seconds") = rlimit.cpu_seconds
      /\ Of(res.rlimit, "max_file_size_mb") = rlimit.max_file_size_mb
  BY <1>3, OfSection
<1>6. res.memory_mb \in SUBSET Positive /\ rlimit.max_file_size_mb \in SUBSET Positive
  BY <1>4, <1>5, ResourceNumbers, RlimitNumbers
<1>7. IsOption(res.memory_mb, U64) /\ IsOption(rlimit.max_file_size_mb, U64)
  BY <1>2 DEF ResourcesTypeOK
<1>8. /\ ~Overflows(res.memory_mb, Megabytes(res.memory_mb))
      /\ ~Overflows(rlimit.max_file_size_mb, Megabytes(rlimit.max_file_size_mb))
  BY <1>2 DEF ResourcesOverflow
<1>9. /\ Megabytes(res.memory_mb) = InMegabytes(res.memory_mb)
      /\ Megabytes(rlimit.max_file_size_mb) = InMegabytes(rlimit.max_file_size_mb)
  BY <1>6, <1>7, <1>8, MegabytesAreExact
<1> QED
  BY <1>4, <1>5, <1>9 DEF RlimitConfig

\* The limits of the control group of a policy that has one, without loss.
LEMMA CgroupConfigIsExact ==
    ASSUME NEW pol, PolicyTypeOK(pol), Accepted(pol), ~Refused(pol),
           NEW res \in pol.resources, NEW cgroup \in res.cgroup
    PROVE  /\ CgroupConfig(pol) = [enabled |-> Enabled(cgroup.enabled),
                                   memory_bytes |-> InMegabytes(res.memory_mb),
                                   max_processes |-> res.max_processes,
                                   cpu_percent |-> cgroup.cpu_percent]
           /\ Enabled(cgroup.enabled) /\ ~QuotaOverflows(SandboxConfig(pol)) =>
                  Quota(cgroup.cpu_percent) = InMilliseconds(cgroup.cpu_percent)
<1>1. IsOption(pol.resources, pol.resources)
  BY DEF PolicyTypeOK
<1>2. ResourcesTypeOK(res) /\ ~ResourcesOverflow(res)
  BY ResourcesAreValid DEF Refused
<1>3. IsOption(res.cgroup, res.cgroup)
  BY <1>2 DEF ResourcesTypeOK
<1>4. /\ Of(pol.resources, "cgroup") = res.cgroup
      /\ Of(pol.resources, "memory_mb") = res.memory_mb
      /\ Of(pol.resources, "max_processes") = res.max_processes
  BY <1>1, OfSection
<1>5. /\ Of(res.cgroup, "enabled") = cgroup.enabled
      /\ Of(res.cgroup, "cpu_percent") = cgroup.cpu_percent
  BY <1>3, OfSection
<1>6. res.memory_mb \in SUBSET Positive /\ cgroup.cpu_percent \in SUBSET Positive
  BY <1>4, <1>5, ResourceNumbers, CgroupNumbers
<1>7. IsOption(res.memory_mb, U64) /\ IsOption(cgroup.cpu_percent, U64)
  BY <1>2 DEF ResourcesTypeOK
<1>8. ~Overflows(res.memory_mb, Megabytes(res.memory_mb))
  BY <1>2 DEF ResourcesOverflow
<1>9. Megabytes(res.memory_mb) = InMegabytes(res.memory_mb)
  BY <1>6, <1>7, <1>8, MegabytesAreExact
<1>10. CgroupConfig(pol) = [enabled |-> Enabled(cgroup.enabled),
                            memory_bytes |-> InMegabytes(res.memory_mb),
                            max_processes |-> res.max_processes,
                            cpu_percent |-> cgroup.cpu_percent]
  BY <1>4, <1>5, <1>9 DEF CgroupConfig
<1>11. SandboxConfig(pol).cgroup = CgroupConfig(pol)
  BY DEF SandboxConfig
<1>12. ASSUME Enabled(cgroup.enabled), ~QuotaOverflows(SandboxConfig(pol))
       PROVE  Quota(cgroup.cpu_percent) = InMilliseconds(cgroup.cpu_percent)
  <2>1. ~Overflows(cgroup.cpu_percent, Quota(cgroup.cpu_percent))
    BY <1>10, <1>11, <1>12 DEF QuotaOverflows
  <2> QED
    BY <1>6, <1>7, <2>1, QuotaIsExact
<1> QED
  BY <1>10, <1>12

-----------------------------------------------------------------------------
(* The inductive invariant.                                                *)

\* A run keeps its command line and its policy.
LEMMA InputStays ==
    ASSUME [Next]_vars
    PROVE  /\ input' = input
           /\ policy' = policy
           /\ config' = config
           /\ Accepted(policy)' = Accepted(policy)
           /\ Refused(policy)' = Refused(policy)
           /\ CgroupIsSet' = CgroupIsSet
           /\ KernelTakes(Restrictions(config))' = KernelTakes(Restrictions(config))
           /\ Faulty' = Faulty
           /\ Story' = Story
<1>1. input' = input
  BY DEF Next, vars, run, HostSteps, ChildSteps, OthersStep, CheckCli, LoadPolicy, Identify,
         ReportIdentity, Prepare, Announce, Spawn, Monitor, Report, Execute, SetupFails,
         Supervise, SupervisionFails, LauncherEnds
<1> QED
  BY <1>1 DEF policy, config, Story, CgroupIsSet, InRange, KernelTakes, Faulty

Stages == {"cli", "policy", "identity", "prepare", "announce", "spawn", "monitor",
           "report", "ended"}

\* What has been decided by the time main is at a stage, and what the child shows of it.
StageInv ==
    /\ input \in Inputs
    /\ stage \in Stages
    /\ ipc \in {"open", "canonicalize", "compare", "hash", "verified", "refused"}
    /\ stage \in {"cli", "policy"} => ipc = "open"
    /\ stage \in {"identity", "prepare", "announce", "spawn"} => Accepted(policy)
    /\ stage \in {"prepare", "announce", "spawn"} => ipc = "verified"
    /\ stage \in {"announce", "spawn"} => ~Refused(policy)
    /\ child = "unborn" => stage \notin {"monitor", "report"} /\ verdict = "none"
    /\ child # "unborn" =>
        /\ stage \in {"monitor", "report", "ended"}
        /\ ipc = "verified"
        /\ Accepted(policy) /\ ~Refused(policy) /\ CgroupIsSet
    /\ child = "failed" => Faulty \/ ~KernelTakes(Restrictions(config))
    /\ child \in {"unborn", "setup", "running", "failed"}
    /\ child = "running" <=> program # {}
    /\ status # "none" => program # {}
    /\ launcher # {} => verdict # "none"

LEMMA StageStep == StageInv /\ [Next]_vars => StageInv'
<1> SUFFICES ASSUME StageInv, [Next]_vars PROVE StageInv'
  OBVIOUS
<1>0. /\ input' = input
      /\ Accepted(policy)' = Accepted(policy)
      /\ Refused(policy)' = Refused(policy)
      /\ CgroupIsSet' = CgroupIsSet
      /\ KernelTakes(Restrictions(config))' = KernelTakes(Restrictions(config))
      /\ Faulty' = Faulty
  BY InputStays
<1> USE DEF StageInv, Stages, run, files, identity, executable
<1>1. CASE CheckCli
  BY <1>0, <1>1 DEF CheckCli, Decide, Allow, Deny
<1>2. CASE LoadPolicy
  BY <1>0, <1>2 DEF LoadPolicy, Decide, Allow, Deny
<1>3. CASE Identify
  BY <1>0, <1>3 DEF Identify, CheckIdentity, Open, Canonicalize, Compare, ReadBlock,
                    CheckHash, IdentityFails
<1>4. CASE ReportIdentity
  BY <1>0, <1>4 DEF ReportIdentity, Allow, Deny
<1>5. CASE Prepare
  BY <1>0, <1>5 DEF Prepare, Decide, Allow, Deny
<1>6. CASE Announce
  BY <1>0, <1>6 DEF Announce, Allow
<1>7. CASE Spawn
  BY <1>0, <1>7 DEF Spawn, Deny
<1>8. CASE Monitor
  BY <1>0, <1>8 DEF Monitor, Deny
<1>9. CASE Report
  BY <1>0, <1>9 DEF Report, Deny
<1>10. CASE Execute
  BY <1>0, <1>10 DEF Execute
<1>11. CASE SetupFails
  BY <1>0, <1>11 DEF SetupFails
<1>12. CASE Supervise
  BY <1>0, <1>12 DEF Supervise, Contract!HostNotifies, Contract!DeadlinePasses,
         Contract!MainEnds, Contract!Report, Contract!Ask, Contract!MayEnd, Contract!Cause
<1>13. CASE SupervisionFails
  BY <1>0, <1>13 DEF SupervisionFails, Contract!Fails
<1>14. CASE LauncherEnds
  BY <1>0, <1>14 DEF LauncherEnds
<1>15. CASE OthersStep
  BY <1>0, <1>15 DEF OthersStep
<1>16. CASE UNCHANGED vars
  BY <1>0, <1>16 DEF vars
<1> QED
  BY <1>1, <1>2, <1>3, <1>4, <1>5, <1>6, <1>7, <1>8, <1>9, <1>10, <1>11, <1>12, <1>13,
     <1>14, <1>15, <1>16 DEF Next, HostSteps, ChildSteps

LEMMA StageAlways == Spec => []StageInv
<1>1. Init => StageInv
  BY DEF Init, IdentityInit, Contract!Init, StageInv, Stages
<1> QED
  BY <1>1, StageStep, PTL DEF Spec

-----------------------------------------------------------------------------
(* The policy.                                                             *)

\* What an accepted policy leads to, the kernel takes, unless it is too large.
LEMMA AcceptedIsTaken ==
    ASSUME NEW pol, PolicyTypeOK(pol), Accepted(pol),
           TooLarge(Rlimits(SandboxConfig(pol)) \cup CgroupValues(SandboxConfig(pol))) = {}
    PROVE  KernelTakes(Restrictions(SandboxConfig(pol)))
<1> DEFINE sandbox == SandboxConfig(pol)
<1>0. \A limit \in Rlimits(sandbox) \cup CgroupValues(sandbox) : ~(limit[2] > Largest[limit[1]])
  BY DEF TooLarge
<1>1. ASSUME NEW limit \in Rlimits(sandbox) PROVE InRange(limit)
  <2>1. limit[2] \in Nat \ {0} /\ limit[1] \in LimitNames \ {"cpu.max"}
    BY RlimitsArePositive
  <2>2. Largest[limit[1]] \in Nat
    BY <2>1, MainAssumption
  <2> QED
    BY <1>0, <2>1, <2>2 DEF InRange
<1>2. ASSUME NEW value \in CgroupValues(sandbox) PROVE InRange(value)
  <2>1. /\ value[1] \in LimitNames
        /\ value[2] \in Nat /\ value[2] >= (IF value[1] = "cpu.max" THEN 1000 ELSE 1)
    BY CgroupValuesAreTaken
  <2>2. Largest[value[1]] \in Nat
    BY <2>1, MainAssumption
  <2> QED
    BY <1>0, <2>1, <2>2 DEF InRange
<1>3. TcpRules(sandbox).allowed \subseteq (U16 \ {0}) \X {"connect", "bind"}
  BY PortsAreTaken
<1>4. sandbox.denied_syscalls \subseteq KnownSyscalls
  BY SyscallsAreKnown
<1>5. \A name \in sandbox.namespace.hostname : name.len \in 1..64
  BY HostnameIsTaken
<1>6. 0 \notin sandbox.namespace.tmp_size_mb
  BY TmpHasSize
<1> HIDE DEF sandbox
<1>7. KernelTakes(Restrictions(sandbox))
  <2> DEFINE r == Restrictions(sandbox)
  <2>1. /\ r.rlimits = Rlimits(sandbox)
        /\ r.cgroup = CgroupValues(sandbox)
        /\ r.tcp = TcpRules(sandbox)
        /\ r.syscalls = sandbox.denied_syscalls
        /\ r.hostname = sandbox.namespace.hostname
    BY DEF Restrictions
  <2>2. 0 \notin r.tmp
    BY <1>6 DEF Restrictions
  <2> HIDE DEF r
  <2> QED
    BY <1>1, <1>2, <1>3, <1>4, <1>5, <2>1, <2>2 DEF KernelTakes, r
<1> QED
  BY <1>7 DEF sandbox

\* runner.rs, sandbox.rs, cgroup.rs: whatever combination of options and numbers
\* load_policy and prepare_sandbox let pass, the kernel refuses nothing of it but a limit
\* above its largest, and the child of a run without faults fails at such an rlimit only.
THEOREM ApplicableAlways == Spec => []AcceptedIsApplicable
<1>1. StageInv => AcceptedIsApplicable
  <2> DEFINE restrictions == Restrictions(config)
  <2>1. restrictions.rlimits = Rlimits(config) /\ restrictions.cgroup = CgroupValues(config)
    BY DEF Restrictions
  <2> HIDE DEF restrictions
  <2>2. ASSUME StageInv, Accepted(policy)
        PROVE  \/ TooLarge(restrictions.rlimits \cup restrictions.cgroup) # {}
               \/ KernelTakes(restrictions)
    <3>1. PolicyTypeOK(policy)
      BY <2>2, MainAssumption DEF StageInv, policy
    <3> QED
      BY <2>1, <2>2, <3>1, AcceptedIsTaken DEF config, restrictions
  <2>3. ASSUME StageInv, stage \in {"announce", "spawn", "monitor", "report"}
        PROVE  Accepted(policy)
    BY <2>3 DEF StageInv
  <2>4. ASSUME StageInv, child = "failed", ~Faulty PROVE TooLarge(restrictions.rlimits) # {}
    <3>1. Accepted(policy) /\ CgroupIsSet /\ ~KernelTakes(restrictions)
      BY <2>4 DEF StageInv, restrictions
    <3>2. PICK limit \in restrictions.rlimits \cup restrictions.cgroup :
              limit[2] > Largest[limit[1]]
      BY <2>2, <2>4, <3>1 DEF TooLarge
    <3>3. CASE limit \in restrictions.rlimits
      BY <3>2, <3>3 DEF TooLarge
    <3>4. CASE limit \in restrictions.cgroup
      <4>1. InRange(limit)
        BY <2>1, <3>1, <3>4 DEF CgroupIsSet
      <4>2. limit[1] \in LimitNames
        <5>1. PolicyTypeOK(policy)
          BY <2>4, MainAssumption DEF StageInv, policy
        <5> QED
          BY <2>1, <3>1, <3>4, <5>1, CgroupValuesAreTaken DEF config
      <4>3. Largest[limit[1]] \in Nat
        BY <4>2, MainAssumption
      <4> QED
        BY <3>2, <4>1, <4>3 DEF InRange
    <3> QED
      BY <3>3, <3>4
  <2> QED
    BY <2>2, <2>3, <2>4 DEF AcceptedIsApplicable, restrictions
<1> QED
  BY <1>1, StageAlways, PTL

\* What the program was started with.
ProgramInv ==
    \A app \in program :
        /\ app.file = opened
        /\ app.content = content[opened]
        /\ app.restrictions = Restrictions(config)

LEMMA ProgramStep == StageInv /\ ProgramInv /\ [Next]_vars => ProgramInv'
<1> SUFFICES ASSUME StageInv, ProgramInv, [Next]_vars PROVE ProgramInv'
  OBVIOUS
<1>0. config' = config
  BY InputStays
<1>1. CASE program = {} /\ Execute
  BY <1>0, <1>1 DEF Execute, Executed, files, identity, executable, ProgramInv
<1>2. CASE UNCHANGED <<program, opened, content>>
  BY <1>0, <1>2 DEF ProgramInv
<1>3. CASE program = {} /\ UNCHANGED program
  BY <1>3 DEF ProgramInv
<1>4. CASE HostSteps
  <2>1. UNCHANGED <<program, content>>
    BY <1>4 DEF HostSteps, CheckCli, LoadPolicy, Identify, ReportIdentity, Prepare, Announce,
                Spawn, Monitor, Report, run, files
  <2>2. CASE Identify
    BY <2>1, <2>2, <1>3 DEF Identify, StageInv
  <2>3. CASE ~Identify
    BY <1>2, <1>4, <2>1, <2>3 DEF HostSteps, CheckCli, LoadPolicy, ReportIdentity, Prepare,
         Announce, Spawn, Monitor, Report, identity, executable
  <2> QED
    BY <2>2, <2>3
<1>5. CASE ChildSteps
  <2>1. CASE Execute
    BY <1>1, <2>1 DEF Execute, StageInv
  <2>2. CASE ~Execute
    BY <1>2, <1>5, <2>2 DEF ChildSteps, SetupFails, Supervise, SupervisionFails, LauncherEnds,
                             files, identity, executable
  <2> QED
    BY <2>1, <2>2
<1>6. CASE OthersStep
  BY <1>3, <1>6 DEF OthersStep, run
<1>7. CASE UNCHANGED vars
  BY <1>2, <1>7 DEF vars, run, files, identity, executable
<1> QED
  BY <1>4, <1>5, <1>6, <1>7 DEF Next

LEMMA ProgramAlways == Spec => []ProgramInv
<1>1. Init => ProgramInv
  BY DEF Init, ProgramInv
<1> QED
  BY <1>1, StageAlways, ProgramStep, PTL DEF Spec

\* A section is there in one of several ways.
LEMMA EnabledSection ==
    ASSUME NEW opt, IsOption(opt, opt), NEW x \in opt
    PROVE  (\E y \in opt : Enabled(y.enabled)) <=> Enabled(x.enabled)
BY DEF IsOption

\* InUnits reads back what Values has written.
LEMMA InUnitsOf ==
    ASSUME NEW what, NEW opt \in SUBSET Nat, NEW values,
           values = {n * Unit(what) : n \in opt}
    PROVE  InUnits(Values(what, values)) = Amounts(what, opt)
<1>1. \A n \in Nat : (n * Unit(what)) \div Unit(what) = n /\ (n * Unit(what)) % Unit(what) = 0
  BY DEF Unit, MB
<1>2. ASSUME NEW u \in InUnits(Values(what, values)) PROVE u \in Amounts(what, opt)
  <2>1. PICK l \in Values(what, values) :
            u = <<l[1], l[2] \div Unit(l[1]), l[2] % Unit(l[1])>>
    BY DEF InUnits
  <2>2. PICK n \in opt : l = <<what, n * Unit(what)>>
    BY DEF Values
  <2>3. n \in Nat /\ l[1] = what /\ l[2] = n * Unit(what)
    BY <2>2
  <2>4. u = <<what, n, 0>>
    BY <1>1, <2>1, <2>3
  <2> QED
    BY <2>4 DEF Amounts
<1>3. ASSUME NEW u \in Amounts(what, opt) PROVE u \in InUnits(Values(what, values))
  <2>1. PICK n \in opt : u = <<what, n, 0>>
    BY DEF Amounts
  <2> DEFINE l == <<what, n * Unit(what)>>
  <2>2. l \in Values(what, values) /\ l[1] = what /\ l[2] = n * Unit(what)
    BY DEF Values
  <2> HIDE DEF l
  <2>3. u = <<l[1], l[2] \div Unit(l[1]), l[2] % Unit(l[1])>>
    BY <1>1, <2>1, <2>2
  <2> QED
    BY <2>2, <2>3 DEF InUnits
<1> QED
  BY <1>2, <1>3

LEMMA InUnitsOfUnion == \A S, T : InUnits(S \cup T) = InUnits(S) \cup InUnits(T)
BY DEF InUnits

\* Where there is an amount, there is a limit.
LEMMA SomeLimit ==
    ASSUME NEW limits, NEW what, NEW opt, opt # {}, Amounts(what, opt) \subseteq InUnits(limits)
    PROVE  limits # {}
BY DEF Amounts, InUnits

\* The amounts of an accepted policy's resources are positive.
LEMMA SectionNumbers ==
    ASSUME NEW pol, PolicyTypeOK(pol), Accepted(pol), NEW res \in pol.resources
    PROVE  /\ res.memory_mb \subseteq Nat \ {0}
           /\ res.max_processes \subseteq Nat \ {0}
           /\ \A rlimit \in res.rlimit :
                /\ rlimit.cpu_seconds \subseteq Nat \ {0}
                /\ rlimit.max_file_size_mb \subseteq Nat \ {0}
           /\ \A cgroup \in res.cgroup : cgroup.cpu_percent \subseteq Nat \ {0}
<1>1. IsOption(pol.resources, pol.resources)
  BY DEF PolicyTypeOK
<1>2. IsOption(res.rlimit, res.rlimit) /\ IsOption(res.cgroup, res.cgroup)
  BY ResourcesAreValid DEF ResourcesTypeOK
<1>3. \A field : Of(pol.resources, field) = res[field]
  BY <1>1, OfSection
<1>4. res.memory_mb \subseteq Nat \ {0} /\ res.max_processes \subseteq Nat \ {0}
  BY <1>3, ResourceNumbers, PositiveIsNat
<1>5. ASSUME NEW rlimit \in res.rlimit, NEW field \in {"cpu_seconds", "max_file_size_mb"}
      PROVE  rlimit[field] \subseteq Nat \ {0}
  <2>1. Of(res.rlimit, field) = rlimit[field]
    BY <1>2, OfSection
  <2>2. Of(Of(pol.resources, "rlimit"), field) \subseteq Positive
    BY RlimitNumbers
  <2> QED
    BY <1>3, <2>1, <2>2, PositiveIsNat
<1>6. ASSUME NEW cgroup \in res.cgroup PROVE cgroup.cpu_percent \subseteq Nat \ {0}
  <2>1. Of(res.cgroup, "cpu_percent") = cgroup.cpu_percent
    BY <1>2, OfSection
  <2> QED
    BY <1>3, <2>1, CgroupNumbers, PositiveIsNat
<1> QED
  BY <1>4, <1>5, <1>6

\* The rlimits that a section gives, read back in the policy's units.
LEMMA RlimitsAsWritten ==
    ASSUME PolicyTypeOK(policy), Accepted(policy), ~Refused(policy),
           NEW res \in policy.resources, NEW rlimit \in res.rlimit
    PROVE  /\ Enabled(rlimit.enabled) =>
                  /\ Rlimits(config) # {}
                  /\ InUnits(Rlimits(config)) = Amounts("CPU", rlimit.cpu_seconds)
                                                \cup Amounts("AS", res.memory_mb)
                                                \cup Amounts("FSIZE", rlimit.max_file_size_mb)
                                                \cup Amounts("NPROC", res.max_processes)
           /\ ~Enabled(rlimit.enabled) => Rlimits(config) = {}
<1>1. RlimitConfig(policy) = [enabled |-> Enabled(rlimit.enabled),
                              memory_bytes |-> InMegabytes(res.memory_mb),
                              max_processes |-> res.max_processes,
                              cpu_seconds |-> rlimit.cpu_seconds,
                              max_file_size_bytes |-> InMegabytes(rlimit.max_file_size_mb)]
  BY RlimitConfigIsExact
<1>2. config.rlimit = RlimitConfig(policy)
  BY DEF config, SandboxConfig
<1>3. CASE ~Enabled(rlimit.enabled)
  BY <1>1, <1>2, <1>3 DEF Rlimits
<1>4. CASE Enabled(rlimit.enabled)
  <2>1. /\ res.memory_mb \subseteq Nat \ {0} /\ res.max_processes \subseteq Nat \ {0}
        /\ rlimit.cpu_seconds \subseteq Nat \ {0} /\ rlimit.max_file_size_mb \subseteq Nat \ {0}
    BY SectionNumbers
  <2>2. rlimit.cpu_seconds \ {0} = rlimit.cpu_seconds
        /\ InMegabytes(res.memory_mb) \ {0} = InMegabytes(res.memory_mb)
    BY <2>1 DEF InMegabytes
  <2>3. Rlimits(config) = Values("CPU", rlimit.cpu_seconds)
                          \cup Values("AS", InMegabytes(res.memory_mb))
                          \cup Values("FSIZE", InMegabytes(rlimit.max_file_size_mb))
                          \cup Values("NPROC", res.max_processes)
    BY <1>1, <1>2, <1>4, <2>2 DEF Rlimits
  <2>4. /\ rlimit.cpu_seconds = {n * Unit("CPU") : n \in rlimit.cpu_seconds}
        /\ res.max_processes = {n * Unit("NPROC") : n \in res.max_processes}
        /\ InMegabytes(res.memory_mb) = {n * Unit("AS") : n \in res.memory_mb}
        /\ InMegabytes(rlimit.max_file_size_mb)
              = {n * Unit("FSIZE") : n \in rlimit.max_file_size_mb}
    BY <2>1 DEF Unit, MB, InMegabytes
  <2>5. /\ InUnits(Values("CPU", rlimit.cpu_seconds)) = Amounts("CPU", rlimit.cpu_seconds)
        /\ InUnits(Values("AS", InMegabytes(res.memory_mb))) = Amounts("AS", res.memory_mb)
        /\ InUnits(Values("FSIZE", InMegabytes(rlimit.max_file_size_mb)))
              = Amounts("FSIZE", rlimit.max_file_size_mb)
        /\ InUnits(Values("NPROC", res.max_processes)) = Amounts("NPROC", res.max_processes)
    BY <2>1, <2>4, InUnitsOf
  <2>6. rlimit.cpu_seconds \cup rlimit.max_file_size_mb
        \cup res.memory_mb \cup res.max_processes # {}
    BY <1>4, ResourcesAreValid DEF ValidResources
  <2>7. InUnits(Rlimits(config)) = InUnits(Values("CPU", rlimit.cpu_seconds))
                                   \cup InUnits(Values("AS", InMegabytes(res.memory_mb)))
                                   \cup InUnits(Values("FSIZE",
                                                       InMegabytes(rlimit.max_file_size_mb)))
                                   \cup InUnits(Values("NPROC", res.max_processes))
    <3> DEFINE C == Values("CPU", rlimit.cpu_seconds)
               A == Values("AS", InMegabytes(res.memory_mb))
               F == Values("FSIZE", InMegabytes(rlimit.max_file_size_mb))
               N == Values("NPROC", res.max_processes)
    <3> HIDE DEF C, A, F, N
    <3>1. InUnits(C \cup A \cup F \cup N) = InUnits(C \cup A \cup F) \cup InUnits(N)
      BY InUnitsOfUnion
    <3>2. InUnits(C \cup A \cup F) = InUnits(C \cup A) \cup InUnits(F)
      BY InUnitsOfUnion
    <3>3. InUnits(C \cup A) = InUnits(C) \cup InUnits(A)
      BY InUnitsOfUnion
    <3>4. InUnits(C \cup A \cup F \cup N)
             = InUnits(C) \cup InUnits(A) \cup InUnits(F) \cup InUnits(N)
      BY <3>1, <3>2, <3>3
    <3> QED
      BY <2>3, <3>4 DEF C, A, F, N
  <2>8. InUnits(Rlimits(config)) = Amounts("CPU", rlimit.cpu_seconds)
                                   \cup Amounts("AS", res.memory_mb)
                                   \cup Amounts("FSIZE", rlimit.max_file_size_mb)
                                   \cup Amounts("NPROC", res.max_processes)
    BY <2>5, <2>7
  <2>9. Rlimits(config) # {}
    <3>1. /\ Amounts("CPU", rlimit.cpu_seconds) \subseteq InUnits(Rlimits(config))
          /\ Amounts("AS", res.memory_mb) \subseteq InUnits(Rlimits(config))
          /\ Amounts("FSIZE", rlimit.max_file_size_mb) \subseteq InUnits(Rlimits(config))
          /\ Amounts("NPROC", res.max_processes) \subseteq InUnits(Rlimits(config))
      BY <2>8
    <3>2. \/ rlimit.cpu_seconds # {} \/ res.memory_mb # {}
          \/ rlimit.max_file_size_mb # {} \/ res.max_processes # {}
      BY <2>6
    <3> QED
      BY <3>1, <3>2, SomeLimit
  <2> QED
    BY <1>4, <2>8, <2>9
<1> QED
  BY <1>3, <1>4

\* The same for the files of the control group.
LEMMA CgroupAsWritten ==
    ASSUME PolicyTypeOK(policy), Accepted(policy), ~Refused(policy), ~QuotaOverflows(config),
           NEW res \in policy.resources, NEW cgroup \in res.cgroup
    PROVE  /\ Enabled(cgroup.enabled) =>
                  /\ CgroupValues(config) # {}
                  /\ InUnits(CgroupValues(config)) = Amounts("memory.max", res.memory_mb)
                                                     \cup Amounts("pids.max", res.max_processes)
                                                     \cup Amounts("cpu.max", cgroup.cpu_percent)
           /\ ~Enabled(cgroup.enabled) => CgroupValues(config) = {}
<1>1. CgroupConfig(policy) = [enabled |-> Enabled(cgroup.enabled),
                              memory_bytes |-> InMegabytes(res.memory_mb),
                              max_processes |-> res.max_processes,
                              cpu_percent |-> cgroup.cpu_percent]
  BY CgroupConfigIsExact
<1>2. config.cgroup = CgroupConfig(policy)
  BY DEF config, SandboxConfig
<1>3. CASE ~Enabled(cgroup.enabled)
  BY <1>1, <1>2, <1>3 DEF CgroupValues
<1>4. CASE Enabled(cgroup.enabled)
  <2>1. /\ res.memory_mb \subseteq Nat \ {0} /\ res.max_processes \subseteq Nat \ {0}
        /\ cgroup.cpu_percent \subseteq Nat \ {0}
    BY SectionNumbers
  <2>2. Quota(cgroup.cpu_percent) = InMilliseconds(cgroup.cpu_percent)
    BY <1>4, CgroupConfigIsExact DEF config
  <2>3. CgroupValues(config) = Values("memory.max", InMegabytes(res.memory_mb))
                               \cup Values("pids.max", res.max_processes)
                               \cup Values("cpu.max", InMilliseconds(cgroup.cpu_percent))
    BY <1>1, <1>2, <1>4, <2>2 DEF CgroupValues
  <2>4. /\ InMegabytes(res.memory_mb) = {n * Unit("memory.max") : n \in res.memory_mb}
        /\ res.max_processes = {n * Unit("pids.max") : n \in res.max_processes}
        /\ InMilliseconds(cgroup.cpu_percent)
              = {n * Unit("cpu.max") : n \in cgroup.cpu_percent}
    BY <2>1 DEF Unit, MB, InMegabytes, InMilliseconds
  <2>5. /\ InUnits(Values("memory.max", InMegabytes(res.memory_mb)))
              = Amounts("memory.max", res.memory_mb)
        /\ InUnits(Values("pids.max", res.max_processes)) = Amounts("pids.max", res.max_processes)
        /\ InUnits(Values("cpu.max", InMilliseconds(cgroup.cpu_percent)))
              = Amounts("cpu.max", cgroup.cpu_percent)
    BY <2>1, <2>4, InUnitsOf
  <2>6. cgroup.cpu_percent \cup res.memory_mb \cup res.max_processes # {}
    BY <1>4, ResourcesAreValid DEF ValidResources
  <2>7. InUnits(CgroupValues(config))
           = InUnits(Values("memory.max", InMegabytes(res.memory_mb)))
             \cup InUnits(Values("pids.max", res.max_processes))
             \cup InUnits(Values("cpu.max", InMilliseconds(cgroup.cpu_percent)))
    <3> DEFINE M == Values("memory.max", InMegabytes(res.memory_mb))
               P == Values("pids.max", res.max_processes)
               C == Values("cpu.max", InMilliseconds(cgroup.cpu_percent))
    <3> HIDE DEF M, P, C
    <3>1. InUnits(M \cup P \cup C) = InUnits(M \cup P) \cup InUnits(C)
      BY InUnitsOfUnion
    <3>2. InUnits(M \cup P) = InUnits(M) \cup InUnits(P)
      BY InUnitsOfUnion
    <3>3. InUnits(M \cup P \cup C) = InUnits(M) \cup InUnits(P) \cup InUnits(C)
      BY <3>1, <3>2
    <3> QED
      BY <2>3, <3>3 DEF M, P, C
  <2>8. InUnits(CgroupValues(config)) = Amounts("memory.max", res.memory_mb)
                                        \cup Amounts("pids.max", res.max_processes)
                                        \cup Amounts("cpu.max", cgroup.cpu_percent)
    BY <2>5, <2>7
  <2>9. CgroupValues(config) # {}
    <3>1. /\ Amounts("memory.max", res.memory_mb) \subseteq InUnits(CgroupValues(config))
          /\ Amounts("pids.max", res.max_processes) \subseteq InUnits(CgroupValues(config))
          /\ Amounts("cpu.max", cgroup.cpu_percent) \subseteq InUnits(CgroupValues(config))
      BY <2>8
    <3>2. res.memory_mb # {} \/ res.max_processes # {} \/ cgroup.cpu_percent # {}
      BY <2>6
    <3> QED
      BY <3>1, <3>2, SomeLimit
  <2> QED
    BY <1>4, <2>8, <2>9
<1> QED
  BY <1>3, <1>4

\* Without a section there is no limit of its kind.
LEMMA NoSectionNoLimit ==
    ASSUME NEW pol
    PROVE  /\ Of(pol.resources, "rlimit") = {} => Rlimits(SandboxConfig(pol)) = {}
           /\ Of(pol.resources, "cgroup") = {} => CgroupValues(SandboxConfig(pol)) = {}
<1>1. SandboxConfig(pol).rlimit.enabled = Enabled(Of(Of(pol.resources, "rlimit"), "enabled"))
      /\ SandboxConfig(pol).cgroup.enabled = Enabled(Of(Of(pol.resources, "cgroup"), "enabled"))
  BY DEF SandboxConfig, RlimitConfig, CgroupConfig
<1>2. ~Enabled(Of({}, "enabled"))
  BY DEF Of, Enabled
<1> QED
  BY <1>1, <1>2 DEF Rlimits, CgroupValues

\* Of the enabled sections' limits nothing is left out, and nothing is added.
LEMMA LimitsAreExact ==
    ASSUME PolicyTypeOK(policy), Accepted(policy), ~Refused(policy), ~QuotaOverflows(config)
    PROVE  LimitsAsWritten(Restrictions(config))
<1>1. Restrictions(config).rlimits = Rlimits(config)
      /\ Restrictions(config).cgroup = CgroupValues(config)
  BY DEF Restrictions
<1>2. Rlimits(config) # {} <=>
          \E res \in policy.resources : \E rlimit \in res.rlimit : Enabled(rlimit.enabled)
  <2>1. ASSUME NEW res \in policy.resources, NEW rlimit \in res.rlimit, Enabled(rlimit.enabled)
        PROVE  Rlimits(config) # {}
    BY <2>1, RlimitsAsWritten
  <2>2. ASSUME Rlimits(config) # {}
        PROVE  \E res \in policy.resources : \E rlimit \in res.rlimit : Enabled(rlimit.enabled)
    <3>1. PICK rlimit \in Of(policy.resources, "rlimit") : TRUE
      BY <2>2, NoSectionNoLimit DEF config
    <3>2. PICK res \in policy.resources : rlimit \in res.rlimit
      BY DEF Of
    <3> QED
      BY <2>2, <3>2, RlimitsAsWritten
  <2> QED
    BY <2>1, <2>2
<1>3. CgroupValues(config) # {} <=>
          \E res \in policy.resources : \E cgroup \in res.cgroup : Enabled(cgroup.enabled)
  <2>1. ASSUME NEW res \in policy.resources, NEW cgroup \in res.cgroup, Enabled(cgroup.enabled)
        PROVE  CgroupValues(config) # {}
    BY <2>1, CgroupAsWritten
  <2>2. ASSUME CgroupValues(config) # {}
        PROVE  \E res \in policy.resources : \E cgroup \in res.cgroup : Enabled(cgroup.enabled)
    <3>1. PICK cgroup \in Of(policy.resources, "cgroup") : TRUE
      BY <2>2, NoSectionNoLimit DEF config
    <3>2. PICK res \in policy.resources : cgroup \in res.cgroup
      BY DEF Of
    <3> QED
      BY <2>2, <3>2, CgroupAsWritten
  <2> QED
    BY <2>1, <2>2
<1>4. ASSUME NEW res \in policy.resources, NEW rlimit \in res.rlimit, Enabled(rlimit.enabled)
      PROVE  InUnits(Rlimits(config)) = Amounts("CPU", rlimit.cpu_seconds)
                                        \cup Amounts("AS", res.memory_mb)
                                        \cup Amounts("FSIZE", rlimit.max_file_size_mb)
                                        \cup Amounts("NPROC", res.max_processes)
  BY <1>4, RlimitsAsWritten
<1>5. ASSUME NEW res \in policy.resources, NEW cgroup \in res.cgroup, Enabled(cgroup.enabled)
      PROVE  InUnits(CgroupValues(config)) = Amounts("memory.max", res.memory_mb)
                                             \cup Amounts("pids.max", res.max_processes)
                                             \cup Amounts("cpu.max", cgroup.cpu_percent)
  BY <1>5, CgroupAsWritten
<1> QED
  BY <1>1, <1>2, <1>3, <1>4, <1>5 DEF LimitsAsWritten

\* The rights over files and ports are the listed ones, for any policy.
LEMMA RightsAreExact == RightsAsListed(Restrictions(config))
<1> DEFINE fs == policy.filesystem
           files_ == Restrictions(config).files
           tcp == Restrictions(config).tcp
<1>1. files_ = fs.read_allow \X {"read_file", "read_dir", "execute"}
               \cup fs.write_allow \X {"read_file", "read_dir", "write"}
               \cup fs.exec_allow \X {"read_file", "execute"}
  BY DEF config, SandboxConfig, Restrictions, LandlockRules
<1>0. tcp = TcpRules(config)
  BY DEF Restrictions
<1>2. tcp.handled <=> policy.network # {}
  <2>1. tcp.handled = config.network
    BY <1>0 DEF TcpRules
  <2>2. config.network = (policy.network # {})
    BY DEF config, SandboxConfig
  <2> HIDE DEF tcp
  <2> QED
    BY <2>1, <2>2
<1>8. tcp.allowed = (UNION Of(policy.network, "connect_tcp")) \X {"connect"}
                    \cup (UNION Of(policy.network, "bind_tcp")) \X {"bind"}
  <2>1. config.connect_tcp = UNION Of(policy.network, "connect_tcp")
        /\ config.bind_tcp = UNION Of(policy.network, "bind_tcp")
    BY DEF config, SandboxConfig
  <2> QED
    BY <1>0, <2>1 DEF TcpRules
<1> HIDE DEF fs, files_, tcp
<1>3. \A S, T, right : Having(S \cup T, right) = Having(S, right) \cup Having(T, right)
  BY DEF Having
<1>4. \A S, T, right : Having(S \X T, right) = (IF right \in T THEN S ELSE {})
  <2> SUFFICES ASSUME NEW S, NEW T, NEW right
               PROVE  Having(S \X T, right) = (IF right \in T THEN S ELSE {})
    OBVIOUS
  <2>1. ASSUME NEW x \in Having(S \X T, right) PROVE right \in T /\ x \in S
    BY DEF Having
  <2>2. ASSUME right \in T, NEW x \in S PROVE x \in Having(S \X T, right)
    <3>1. <<x, right>> \in S \X T
      BY <2>2
    <3>2. <<x, right>>[1] = x /\ <<x, right>>[2] = right
      OBVIOUS
    <3> QED
      BY <3>1, <3>2 DEF Having
  <2> QED
    BY <2>1, <2>2
<1>5. /\ Having(files_, "read_file") = fs.read_allow \cup fs.write_allow \cup fs.exec_allow
      /\ Having(files_, "read_dir") = fs.read_allow \cup fs.write_allow
      /\ Having(files_, "execute") = fs.read_allow \cup fs.exec_allow
      /\ Having(files_, "write") = fs.write_allow
  <2> DEFINE R == fs.read_allow \X {"read_file", "read_dir", "execute"}
             W == fs.write_allow \X {"read_file", "read_dir", "write"}
             X == fs.exec_allow \X {"read_file", "execute"}
  <2>1. \A right : Having(R, right)
                      = IF right \in {"read_file", "read_dir", "execute"} THEN fs.read_allow ELSE {}
    BY <1>4
  <2>2. \A right : Having(W, right)
                      = IF right \in {"read_file", "read_dir", "write"} THEN fs.write_allow ELSE {}
    BY <1>4
  <2>3. \A right : Having(X, right)
                      = IF right \in {"read_file", "execute"} THEN fs.exec_allow ELSE {}
    BY <1>4
  <2>4. files_ = R \cup W \cup X
    BY <1>1
  <2> HIDE DEF R, W, X
  <2>5. ASSUME NEW right
        PROVE  Having(files_, right) = Having(R, right) \cup Having(W, right) \cup Having(X, right)
    <3>1. Having(R \cup W \cup X, right) = Having(R \cup W, right) \cup Having(X, right)
      BY <1>3
    <3>2. Having(R \cup W, right) = Having(R, right) \cup Having(W, right)
      BY <1>3
    <3> QED
      BY <2>4, <3>1, <3>2
  <2> QED
    BY <2>1, <2>2, <2>3, <2>5
<1>6. /\ Having(tcp.allowed, "connect") = UNION Of(policy.network, "connect_tcp")
      /\ Having(tcp.allowed, "bind") = UNION Of(policy.network, "bind_tcp")
  <2> DEFINE connect == UNION Of(policy.network, "connect_tcp")
             bind == UNION Of(policy.network, "bind_tcp")
  <2>1. tcp.allowed = connect \X {"connect"} \cup bind \X {"bind"}
    BY <1>8
  <2> HIDE DEF connect, bind
  <2>2. \A right : Having(connect \X {"connect"}, right) = IF right \in {"connect"} THEN connect ELSE {}
    BY <1>4
  <2>3. \A right : Having(bind \X {"bind"}, right) = IF right \in {"bind"} THEN bind ELSE {}
    BY <1>4
  <2>4. \A right : Having(tcp.allowed, right)
                      = Having(connect \X {"connect"}, right) \cup Having(bind \X {"bind"}, right)
    BY <1>3, <2>1
  <2>5. Having(tcp.allowed, "connect") = connect /\ Having(tcp.allowed, "bind") = bind
    BY <2>2, <2>3, <2>4
  <2> QED
    BY <2>5 DEF connect, bind
<1>7. \A field : UNION Of(policy.network, field) = Ports(field)
  BY DEF Of, Ports
<1> QED
  BY <1>2, <1>5, <1>6, <1>7 DEF RightsAsListed, fs, files_, tcp

LEMMA UnionOfTwo ==
    ASSUME NEW S, NEW T
    PROVE  UNION (S \cup T) = (UNION S) \cup (UNION T)
<1>1. ASSUME NEW x \in UNION (S \cup T) PROVE x \in (UNION S) \cup (UNION T)
  OBVIOUS
<1>2. ASSUME NEW x \in (UNION S) \cup (UNION T) PROVE x \in UNION (S \cup T)
  OBVIOUS
<1> QED
  BY <1>1, <1>2

\* The denied calls are the listed ones.
LEMMA SyscallsAreExact ==
    ASSUME PolicyTypeOK(policy)
    PROVE  SyscallsAsListed(Restrictions(config))
<1> DEFINE Denied(sec) ==
        (UNION sec.deny)
        \cup (IF sec.profile \cap {"baseline", "strict"} # {} THEN Baseline ELSE {})
        \cup (IF "strict" \in sec.profile THEN StrictOnly ELSE {})
<1>1. Restrictions(config).syscalls = DeniedSyscalls(policy)
  BY DEF config, SandboxConfig, Restrictions
<1>2. CASE policy.seccomp = {}
  BY <1>1, <1>2 DEF SyscallsAsListed, DeniedSyscalls, Of
<1>3. ASSUME NEW sec \in policy.seccomp PROVE SyscallsAsListed(Restrictions(config))
  <2>1. policy.seccomp = {sec} /\ IsOption(sec.profile, {"none", "baseline", "strict"})
    BY DEF PolicyTypeOK, IsOption
  <2>2. Of(policy.seccomp, "profile") = sec.profile /\ Of(policy.seccomp, "deny") = sec.deny
    BY <2>1 DEF Of
  <2>3. DeniedSyscalls(policy) = (UNION {Profile(p) : p \in sec.profile}) \cup (UNION sec.deny)
    <3>1. UNION ({Profile(p) : p \in sec.profile} \cup sec.deny)
             = (UNION {Profile(p) : p \in sec.profile}) \cup (UNION sec.deny)
      BY UnionOfTwo
    <3>2. DeniedSyscalls(policy) = UNION ({Profile(p) : p \in sec.profile} \cup sec.deny)
      BY <2>2 DEF DeniedSyscalls
    <3> QED
      BY <3>1, <3>2
  <2>4. UNION {Profile(p) : p \in sec.profile}
           = (IF sec.profile \cap {"baseline", "strict"} # {} THEN Baseline ELSE {})
             \cup (IF "strict" \in sec.profile THEN StrictOnly ELSE {})
    <3>1. CASE sec.profile = {}
      BY <3>1
    <3>2. ASSUME NEW p \in sec.profile
          PROVE  sec.profile = {p} /\ p \in {"none", "baseline", "strict"}
      BY <2>1 DEF IsOption
    <3>3. ASSUME NEW p \in sec.profile
          PROVE  UNION {Profile(q) : q \in sec.profile} = Profile(p)
      BY <3>2
    <3> QED
      BY <3>1, <3>2, <3>3 DEF Profile
  <2>5. DeniedSyscalls(policy) = Denied(sec)
    <3> DEFINE base == IF sec.profile \cap {"baseline", "strict"} # {} THEN Baseline ELSE {}
               more == IF "strict" \in sec.profile THEN StrictOnly ELSE {}
               given == UNION {Profile(p) : p \in sec.profile}
               own == UNION sec.deny
    <3>1. DeniedSyscalls(policy) = given \cup own
      BY <2>3
    <3>2. given = base \cup more
      BY <2>4
    <3>3. Denied(sec) = own \cup base \cup more
      OBVIOUS
    <3> HIDE DEF base, more, given, own, Denied
    <3> QED
      BY <3>1, <3>2, <3>3
  <2>6. UNION {Denied(s) : s \in policy.seccomp} = Denied(sec)
    BY <2>1
  <2> QED
    BY <1>1, <2>5, <2>6 DEF SyscallsAsListed
<1> QED
  BY <1>2, <1>3

\* The hostname and the private /tmp are the ones asked for.
LEMMA NamespaceIsExact ==
    ASSUME PolicyTypeOK(policy), Accepted(policy)
    PROVE  NamespaceAsWritten(Restrictions(config))
<1> DEFINE uts_ == Of(policy.namespace, "uts")
           mount_ == Of(policy.namespace, "mount")
           r == Restrictions(config)
<1>1. /\ r.hostname = IF Enabled(Of(uts_, "enabled")) THEN Of(uts_, "hostname") ELSE {}
      /\ r.tmp = IF /\ Enabled(Of(mount_, "enabled")) \/ Enabled(Of(policy.namespace, "pid"))
                    /\ Enabled(Of(mount_, "private_tmp"))
                 THEN Default(Of(mount_, "tmp_size_mb"), 32) ELSE {}
  BY DEF config, SandboxConfig, NamespaceConfig, Restrictions
<1>2. ASSUME NEW field \in {"uts", "mount"}
      PROVE  LET sections == Of(policy.namespace, field) IN IsOption(sections, sections)
  <2>1. \A ns \in policy.namespace : IsOption(ns[field], ns[field])
    BY DEF PolicyTypeOK
  <2>2. IsOption(policy.namespace, policy.namespace)
    BY DEF PolicyTypeOK
  <2> QED
    BY <2>1, <2>2 DEF IsOption, Of
<1>3. IsOption(uts_, uts_) /\ IsOption(mount_, mount_)
  BY <1>2
<1>4. ASSUME NEW mount \in mount_
      PROVE  /\ Enabled(mount.private_tmp) => Enabled(mount.enabled)
             /\ mount.tmp_size_mb \subseteq 1..1024
  BY DEF Accepted, ValidMountPolicy
<1> HIDE DEF uts_, mount_, r
<1>5. r.hostname = UNION {uts.hostname : uts \in {u \in uts_ : Enabled(u.enabled)}}
  <2>1. CASE uts_ = {}
    BY <1>1, <2>1 DEF Of, Enabled
  <2>2. ASSUME NEW uts \in uts_
        PROVE  r.hostname = UNION {u.hostname : u \in {v \in uts_ : Enabled(v.enabled)}}
    <3>1. uts_ = {uts}
      BY <1>3 DEF IsOption
    <3>2. \A field : Of(uts_, field) = uts[field]
      BY <1>3, OfSection
    <3> QED
      BY <1>1, <3>1, <3>2
  <2> QED
    BY <2>1, <2>2
<1>6. CASE mount_ = {}
  <2>1. r.tmp = {}
    BY <1>1, <1>6 DEF Of, Enabled
  <2> QED
    BY <1>5, <1>6, <2>1 DEF NamespaceAsWritten, uts_, mount_, r, Of
<1>7. ASSUME NEW mount \in mount_ PROVE NamespaceAsWritten(r)
  <2>1. mount_ = {mount}
    BY <1>3 DEF IsOption
  <2>2. \A field : Of(mount_, field) = mount[field]
    BY <1>3, OfSection
  <2>3. r.tmp = IF Enabled(mount.private_tmp) THEN Default(mount.tmp_size_mb, 32) ELSE {}
    BY <1>1, <1>4, <2>2
  <2>4. Default(mount.tmp_size_mb, 32)
           = IF mount.tmp_size_mb = {} THEN {32} ELSE mount.tmp_size_mb
    BY DEF Default
  <2>5. /\ r.tmp # {} <=> \E m \in mount_ : Enabled(m.private_tmp)
        /\ \A m \in mount_ : r.tmp \subseteq (IF m.tmp_size_mb = {} THEN {32} ELSE m.tmp_size_mb)
    BY <2>1, <2>3, <2>4
  <2> QED
    BY <1>5, <2>5 DEF NamespaceAsWritten, uts_, mount_, Of
<1> QED
  BY <1>6, <1>7 DEF r

\* runner.rs, cgroup.rs, sandbox.rs: a program that runs, runs under exactly the limits,
\* rights, denied calls, hostname and /tmp of its policy's enabled sections.
THEOREM PolicyInForceAlways == Spec => []PolicyInForce
<1>1. StageInv /\ ProgramInv => PolicyInForce
  <2> SUFFICES ASSUME StageInv, ProgramInv, NEW app \in program
               PROVE  /\ LimitsAsWritten(app.restrictions)
                      /\ RightsAsListed(app.restrictions)
                      /\ SyscallsAsListed(app.restrictions)
                      /\ NamespaceAsWritten(app.restrictions)
    BY DEF PolicyInForce
  <2>1. app.restrictions = Restrictions(config)
    BY DEF ProgramInv
  <2>2. PolicyTypeOK(policy)
    BY MainAssumption DEF StageInv, policy
  <2>3. Accepted(policy) /\ ~Refused(policy) /\ ~QuotaOverflows(config)
    BY DEF StageInv, CgroupIsSet
  <2> QED
    BY <2>1, <2>2, <2>3, LimitsAreExact, RightsAreExact, SyscallsAreExact, NamespaceIsExact
<1> QED
  BY <1>1, StageAlways, ProgramAlways, PTL

-----------------------------------------------------------------------------
(* The log.                                                                *)

Events == {"cli_check", "policy_load", "identity_check", "sandbox_prepare",
           "resource_limits_configured", "network_policy_configration",
           "seccomp_configured", "app_spawn_attempt", "app_exit", "resource_limit_hit"}

Entries == Events \X {"allow", "deny"}

Count == Len(log)
Total == Len(Story)

\* What the proofs use of the story.
LEMMA StoryShape ==
    /\ Total \in Nat /\ Total > 4
    /\ DOMAIN Story = 1..Total
    /\ Story[1] = "cli_check" /\ Story[2] = "policy_load"
    /\ Story[3] = "identity_check" /\ Story[4] = "sandbox_prepare"
    /\ \A i \in 1..Total : Story[i] \in Events \ {"app_exit"}
<1>1. CASE config.network
  BY <1>1 DEF Story, Events, Total
<1>2. CASE ~config.network
  BY <1>2 DEF Story, Events, Total
<1> QED
  BY <1>1, <1>2

\* One more entry.
LEMMA EntryGives ==
    ASSUME log \in Seq(Entries), NEW event \in Events, NEW decision \in {"allow", "deny"}
    PROVE  /\ Entry(event, decision) \in Seq(Entries)
           /\ Len(Entry(event, decision)) = Count + 1
           /\ DOMAIN Entry(event, decision) = 1..Count + 1
           /\ \A i \in 1..Count : Entry(event, decision)[i] = log[i]
           /\ Entry(event, decision)[Count + 1] = <<event, decision>>
<1>1. <<event, decision>> \in Entries
  BY DEF Entries
<1> QED
  BY <1>1, AppendProperties, LenProperties DEF Entry, Count

Tells == \A i \in 1..Count : log[i] = <<Story[i], "allow">>

\* The log up to a stage, the whole story under a program, a refusal at the end of a run
\* that failed, and consent to a run only at its end.
LogInv ==
    /\ log \in Seq(Entries)
    /\ stage = "cli" => Count = 0
    /\ stage = "policy" => Count = 1
    /\ stage = "identity" => Count = 2
    /\ stage = "prepare" => Count = 3
    /\ stage = "announce" => Count >= 4 /\ Count < Total
    /\ stage = "spawn" => Count = Total
    /\ stage \in {"cli", "policy", "identity", "prepare", "announce", "spawn"} => Tells
    /\ child # "unborn" =>
        /\ Count >= Total
        /\ \A i \in 1..Total : log[i] = <<Story[i], "allow">>
    /\ exit_code \notin {{}, {0}} /\ ~Faulty => Count > 0 /\ log[Count][2] = "deny"
    /\ stage # "ended" => exit_code = {}
    /\ Logged("app_exit", "allow") => exit_code # {}

LEMMA LogGrows ==
    ASSUME LogInv, NEW event \in Events, NEW decision \in {"allow", "deny"},
           log' = Entry(event, decision)
    PROVE  /\ log' \in Seq(Entries)
           /\ Count \in Nat /\ Count' = Count + 1
           /\ \A i \in 1..Count : log'[i] = log[i]
           /\ log'[Count'] = <<event, decision>>
           /\ Logged("app_exit", "allow")' =>
                  Logged("app_exit", "allow") \/ <<event, decision>> = <<"app_exit", "allow">>
<1>1. log \in Seq(Entries)
  BY DEF LogInv
<1>2. Count \in Nat /\ DOMAIN log = 1..Count
  BY <1>1, LenProperties DEF Count
<1>3. /\ log' \in Seq(Entries)
      /\ Count' = Count + 1
      /\ DOMAIN log' = 1..Count + 1
      /\ \A i \in 1..Count : log'[i] = log[i]
      /\ log'[Count + 1] = <<event, decision>>
  BY <1>1, EntryGives DEF Count
<1> QED
  BY <1>2, <1>3 DEF Logged

LEMMA LogStays ==
    ASSUME UNCHANGED log
    PROVE  Count' = Count
BY DEF Count

\* An entry of the story.
LEMMA StoryGrows ==
    ASSUME LogInv, Story' = Story, Total' = Total, NEW event, event = Story[Count + 1],
           Count < Total, Tells, log' = Entry(event, "allow")
    PROVE  /\ log' \in Seq(Entries)
           /\ Count' = Count + 1
           /\ Tells'
           /\ Logged("app_exit", "allow")' => Logged("app_exit", "allow")
<1>1. Count \in Nat
  BY LenProperties DEF LogInv, Count
<1>2. event \in Events \ {"app_exit"}
  BY <1>1, StoryShape
<1>3. /\ log' \in Seq(Entries)
      /\ Count' = Count + 1
      /\ \A i \in 1..Count : log'[i] = log[i]
      /\ log'[Count'] = <<event, "allow">>
      /\ Logged("app_exit", "allow")' =>
             Logged("app_exit", "allow") \/ <<event, "allow">> = <<"app_exit", "allow">>
  BY <1>2, LogGrows
<1>4. Tells'
  BY <1>1, <1>3 DEF Tells
<1> QED
  BY <1>2, <1>3, <1>4

\* A refusal.
LEMMA RefusalGrows ==
    ASSUME LogInv, Story' = Story, Total' = Total, NEW event \in Events, log' = Entry(event, "deny")
    PROVE  /\ log' \in Seq(Entries)
           /\ Count' > 0 /\ log'[Count'][2] = "deny"
           /\ Count' = Count + 1 /\ Count \in Nat
           /\ \A i \in 1..Count : log'[i] = log[i]
           /\ Logged("app_exit", "allow")' => Logged("app_exit", "allow")
BY LogGrows

\* What follows a program's story leaves it as it is.
LEMMA StoryStays ==
    ASSUME LogInv, child # "unborn", Count \in Nat, Count' = Count + 1,
           \A i \in 1..Count : log'[i] = log[i]
    PROVE  /\ Count' >= Total
           /\ \A i \in 1..Total : log'[i] = <<Story[i], "allow">>
<1>1. /\ Count >= Total
      /\ \A i \in 1..Total : log[i] = <<Story[i], "allow">>
  BY DEF LogInv
<1>2. Total \in Nat
  BY StoryShape
<1> QED
  BY <1>1, <1>2

\* The ways on and out.
LEMMA AllowKeepsLog ==
    ASSUME StageInv, LogInv, Story' = Story, Total' = Total, input' = input,
           NEW event, event = Story[Count + 1], NEW next, Allow(event, next),
           stage \in {"cli", "policy", "identity", "prepare", "announce"},
           child' = child,
           \/ stage = "cli" /\ next = "policy"
           \/ stage = "policy" /\ next = "identity"
           \/ stage = "identity" /\ next = "prepare"
           \/ stage = "prepare" /\ next = "announce"
           \/ /\ stage = "announce"
              /\ next = IF Count + 1 = Total THEN "spawn" ELSE "announce"
    PROVE  LogInv'
<1>0. Count \in Nat
  BY LenProperties DEF LogInv, Count
<1>1. Count < Total
  <2>1. Total \in Nat /\ Total > 4
    BY StoryShape
  <2> QED
    BY <1>0, <2>1 DEF LogInv
<1>4. /\ Tells
      /\ child = "unborn"
      /\ exit_code = {}
  BY DEF LogInv, StageInv
<1>2. CASE log' = Entry(event, "allow") /\ stage' = next /\ UNCHANGED exit_code
  <2>1. /\ log' \in Seq(Entries)
        /\ Count' = Count + 1
        /\ Tells'
        /\ Logged("app_exit", "allow")' => Logged("app_exit", "allow")
    BY <1>1, <1>2, <1>4, StoryGrows
  <2> QED
    BY <1>0, <1>1, <1>2, <1>4, <2>1, StoryShape DEF LogInv
<1>3. CASE Faulty /\ stage' = "ended" /\ exit_code' = {1} /\ UNCHANGED log
  BY <1>4, <1>3 DEF LogInv, Faulty, Logged
<1> QED
  BY <1>2, <1>3 DEF Allow

LEMMA DenyKeepsLog ==
    ASSUME StageInv, LogInv, Story' = Story, Total' = Total, input' = input,
           NEW event \in Events, Deny(event), child' = child
    PROVE  LogInv'
<1>1. Total \in Nat
  BY StoryShape
<1>2. stage' = "ended" /\ exit_code' # {}
  BY DEF Deny
<1>3. CASE log' = Entry(event, "deny")
  <2>1. /\ log' \in Seq(Entries)
        /\ Count' > 0 /\ log'[Count'][2] = "deny"
        /\ Count' = Count + 1 /\ Count \in Nat
        /\ \A i \in 1..Count : log'[i] = log[i]
    BY <1>3, RefusalGrows
  <2>2. ASSUME child' # "unborn"
        PROVE  /\ Count' >= Total
               /\ \A i \in 1..Total : log'[i] = <<Story[i], "allow">>
    BY <2>1, <2>2, StoryStays
  <2> QED
    BY <1>2, <2>1, <2>2 DEF LogInv
<1>4. CASE Faulty /\ UNCHANGED log
  BY <1>1, <1>2, <1>4, LogStays DEF LogInv, Faulty, Logged
<1> QED
  BY <1>3, <1>4 DEF Deny

LEMMA LogStep == StageInv /\ LogInv /\ [Next]_vars => LogInv'
<1> SUFFICES ASSUME StageInv, LogInv, [Next]_vars PROVE LogInv'
  OBVIOUS
<1>0. input' = input /\ Story' = Story /\ Total' = Total
  BY InputStays DEF Total
<1>a. Count \in Nat
  BY LenProperties DEF LogInv, Count
<1>b. {"cli_check", "policy_load", "identity_check", "sandbox_prepare", "app_exit",
       "resource_limit_hit"} \subseteq Events
  BY DEF Events
<1>1. CASE CheckCli
  <2>1. stage = "cli" /\ child' = child
    BY <1>1 DEF CheckCli, run
  <2>2. CASE Allow("cli_check", "policy")
    <3>1. Count + 1 = 1
      BY <2>1 DEF LogInv
    <3>2. Story[Count + 1] = "cli_check"
      BY <3>1, StoryShape
    <3> QED
      BY <1>0, <2>1, <2>2, <3>2, AllowKeepsLog
  <2>3. CASE Deny("cli_check")
    BY <1>0, <1>b, <2>1, <2>3, DenyKeepsLog
  <2> QED
    BY <1>1, <2>2, <2>3 DEF CheckCli, Decide
<1>2. CASE LoadPolicy
  <2>1. stage = "policy" /\ child' = child
    BY <1>2 DEF LoadPolicy, run
  <2>2. CASE Allow("policy_load", "identity")
    <3>1. Count + 1 = 2
      BY <2>1 DEF LogInv
    <3>2. Story[Count + 1] = "policy_load"
      BY <3>1, StoryShape
    <3> QED
      BY <1>0, <2>1, <2>2, <3>2, AllowKeepsLog
  <2>3. CASE Deny("policy_load")
    BY <1>0, <1>b, <2>1, <2>3, DenyKeepsLog
  <2> QED
    BY <1>2, <2>2, <2>3 DEF LoadPolicy, Decide
<1>4. CASE ReportIdentity
  <2>1. stage = "identity" /\ child' = child
    BY <1>4 DEF ReportIdentity, run
  <2>2. CASE Allow("identity_check", "prepare")
    <3>1. Count + 1 = 3
      BY <2>1 DEF LogInv
    <3>2. Story[Count + 1] = "identity_check"
      BY <3>1, StoryShape
    <3> QED
      BY <1>0, <2>1, <2>2, <3>2, AllowKeepsLog
  <2>3. CASE Deny("identity_check")
    BY <1>0, <1>b, <2>1, <2>3, DenyKeepsLog
  <2> QED
    BY <1>4, <2>2, <2>3 DEF ReportIdentity
<1>5. CASE Prepare
  <2>1. stage = "prepare" /\ child' = child
    BY <1>5 DEF Prepare, run
  <2>2. CASE Allow("sandbox_prepare", "announce")
    <3>1. Count + 1 = 4
      BY <2>1 DEF LogInv
    <3>2. Story[Count + 1] = "sandbox_prepare"
      BY <3>1, StoryShape
    <3> QED
      BY <1>0, <2>1, <2>2, <3>2, AllowKeepsLog
  <2>3. CASE Deny("sandbox_prepare")
    BY <1>0, <1>b, <2>1, <2>3, DenyKeepsLog
  <2> QED
    BY <1>5, <2>2, <2>3 DEF Prepare, Decide
<1>6. CASE Announce
  <2>1. /\ stage = "announce" /\ child' = child
        /\ Allow(Story[Count + 1], IF Count + 1 = Total THEN "spawn" ELSE "announce")
    BY <1>6 DEF Announce, run, Count, Total
  <2> QED
    BY <1>0, <2>1, AllowKeepsLog
<1>7. CASE Spawn
  <2>1. CASE Deny("app_exit") /\ UNCHANGED child
    BY <1>0, <1>b, <2>1, DenyKeepsLog
  <2>2. CASE stage' = "monitor" /\ child' = "setup" /\ UNCHANGED <<log, exit_code>>
    BY <1>0, <1>7, <2>2, StoryShape, LogStays DEF Spawn, LogInv, Tells, Logged, Faulty
  <2> QED
    BY <1>7, <2>1, <2>2 DEF Spawn
<1>8. CASE Monitor
  <2>1. CASE Deny("app_exit")
    BY <1>0, <1>8, <1>b, <2>1, DenyKeepsLog DEF Monitor, run
  <2>2. CASE stage' = "report" /\ UNCHANGED <<log, exit_code>>
    BY <1>0, <1>8, <2>2, LogStays DEF Monitor, run, LogInv, Tells, Logged, Faulty
  <2> QED
    BY <1>8, <2>1, <2>2 DEF Monitor
<1>9. CASE Report
  <2>1. ASSUME NEW event \in Events, Deny(event) PROVE LogInv'
    BY <1>0, <1>9, <2>1, DenyKeepsLog DEF Report, run
  <2>2. CASE /\ log' = Entry("app_exit", "allow") /\ stage' = "ended"
             /\ exit_code' = {0} \/ (Faulty /\ exit_code' = {101})
    <3>1. /\ log' \in Seq(Entries)
          /\ Count' = Count + 1
          /\ \A i \in 1..Count : log'[i] = log[i]
      BY <1>b, <2>2, LogGrows
    <3> QED
      <4>1. ASSUME child' # "unborn"
            PROVE  /\ Count' >= Total
                   /\ \A i \in 1..Total : log'[i] = <<Story[i], "allow">>
        BY <1>9, <1>a, <3>1, <4>1, StoryStays DEF Report, run
      <4> QED
        BY <1>0, <2>2, <3>1, <4>1 DEF LogInv, Faulty
  <2>3. CASE Faulty /\ exit_code' = {1} /\ stage' = "ended" /\ UNCHANGED log
    BY <1>0, <1>9, <2>3, StoryShape, LogStays DEF Report, run, LogInv, Faulty, Logged
  <2> QED
    BY <1>9, <1>b, <2>1, <2>2, <2>3 DEF Report
<1>11. CASE SetupFails
  <2>1. /\ child # "unborn" /\ child' = "failed"
        /\ UNCHANGED <<stage, exit_code>>
        /\ log' = Entry("app_exit", "deny") \/ UNCHANGED log
        /\ log' = Entry("app_exit", "deny") \/ (Faulty /\ UNCHANGED log)
    BY <1>11 DEF SetupFails
  <2>2. stage \in {"monitor", "report", "ended"}
    BY <2>1 DEF StageInv
  <2>3. CASE log' = Entry("app_exit", "deny")
    <3>1. /\ log' \in Seq(Entries)
          /\ Count' > 0 /\ log'[Count'][2] = "deny"
          /\ Count' = Count + 1 /\ Count \in Nat
          /\ \A i \in 1..Count : log'[i] = log[i]
          /\ Logged("app_exit", "allow")' => Logged("app_exit", "allow")
      BY <1>0, <1>b, <2>3, RefusalGrows
    <3> QED
      <4>1. /\ Count' >= Total
            /\ \A i \in 1..Total : log'[i] = <<Story[i], "allow">>
        BY <2>1, <3>1, StoryStays
      <4> QED
        BY <1>0, <2>1, <2>2, <3>1, <4>1 DEF LogInv, Faulty
  <2>4. CASE UNCHANGED log
    BY <1>0, <2>1, <2>2, <2>4, LogStays DEF LogInv, Logged, Faulty
  <2> QED
    BY <2>1, <2>3, <2>4
<1>12. CASE /\ UNCHANGED <<stage, log, exit_code>>
            /\ child' = child \/ (child # "unborn" /\ child' # "unborn")
  BY <1>0, <1>12, LogStays DEF LogInv, Tells, Logged, Faulty
<1>13. CASE Execute
  BY <1>12, <1>13 DEF Execute
<1>14. CASE Identify \/ Supervise \/ SupervisionFails \/ LauncherEnds \/ OthersStep
            \/ UNCHANGED vars
  BY <1>12, <1>14 DEF Identify, Supervise, SupervisionFails, LauncherEnds, OthersStep, vars, run
<1> QED
  BY <1>1, <1>2, <1>4, <1>5, <1>6, <1>7, <1>8, <1>9, <1>11, <1>13, <1>14
     DEF Next, HostSteps, ChildSteps

LEMMA LogAlways == Spec => []LogInv
<1>1. Init => LogInv
  <2> SUFFICES ASSUME Init PROVE LogInv
    OBVIOUS
  <2>1. log = <<>> /\ stage = "cli" /\ exit_code = {} /\ child = "unborn"
    BY DEF Init
  <2>2. log \in Seq(Entries) /\ Count = 0 /\ DOMAIN log = {}
    BY <2>1 DEF Count
  <2> QED
    BY <2>1, <2>2 DEF LogInv, Tells, Logged
<1> QED
  BY <1>1, StageAlways, LogStep, PTL DEF Spec

\* main.rs: an application that runs has every stage's consent before it in the log, and
\* a run that fails has a refusal at its end.
THEOREM LogTellsTheRunAlways == Spec => []LogTellsTheRun
<1>1. StageInv /\ LogInv => LogTellsTheRun
  <2> SUFFICES ASSUME StageInv, LogInv PROVE LogTellsTheRun
    OBVIOUS
  <2>1. ASSUME program # {}
        PROVE  /\ Len(log) >= Len(Story)
               /\ \A i \in DOMAIN Story : log[i] = <<Story[i], "allow">>
    <3>1. child # "unborn"
      BY <2>1 DEF StageInv
    <3>2. Count >= Total /\ \A i \in 1..Total : log[i] = <<Story[i], "allow">>
      BY <3>1 DEF LogInv
    <3>3. DOMAIN Story = 1..Total
      BY StoryShape
    <3> QED
      BY <3>2, <3>3 DEF Count, Total
  <2>2. ASSUME exit_code \notin {{}, {0}}, ~Faulty
        PROVE  log # <<>> /\ log[Len(log)][2] = "deny"
    <3>1. Count > 0 /\ log[Count][2] = "deny"
      BY <2>2 DEF LogInv
    <3> QED
      BY <3>1 DEF Count
  <2> QED
    BY <2>1, <2>2 DEF LogTellsTheRun
<1> QED
  BY <1>1, StageAlways, LogAlways, PTL

-----------------------------------------------------------------------------
(* The verdict and the exit codes.                                         *)

Verdicts == Statuses \cup {"none", "error", "TimedOut", "OutputLimitExceeded"}

\* How the launcher may end.
Ends(v) == {Exited(LauncherCode(v)), Exited(101), Killed(SIGKILL), Killed(SIGINT)}

\* A status in the verdict is the application's, which nobody asked to stop; how the
\* launcher ends follows from its verdict, unless it panics or is killed.
ContractInv ==
    /\ status \in Statuses \cup {"none"}
    /\ verdict \in Verdicts
    /\ asked \subseteq {"limit", "timeout"}
    /\ verdict \in Statuses => verdict = status /\ asked = {}
    /\ launcher = {} \/ \E end \in Ends(verdict) : launcher = {end}

LEMMA ContractStep == StageInv /\ ContractInv /\ [Next]_vars => ContractInv'
<1> SUFFICES ASSUME StageInv, ContractInv, [Next]_vars PROVE ContractInv'
  OBVIOUS
<1>0. {"none", "error", "TimedOut", "OutputLimitExceeded"} \cap Statuses = {}
  BY MainAssumption
<1>1. CASE UNCHANGED <<launcher, asked, status, verdict>>
  BY <1>1 DEF ContractInv
<1>2. CASE HostSteps \/ OthersStep \/ UNCHANGED vars \/ Execute
  BY <1>1, <1>2 DEF HostSteps, CheckCli, LoadPolicy, Identify, ReportIdentity, Prepare, Announce,
       Spawn, Monitor, Report, OthersStep, vars, run, Execute
<1>3. CASE SetupFails
  <2>1. UNCHANGED <<launcher, asked, status>>
        /\ verdict' = IF verdict = "none" THEN "error" ELSE verdict
    BY <1>3 DEF SetupFails
  <2>2. CASE verdict = "none"
    <3>1. launcher = {}
      BY <2>2 DEF StageInv
    <3> QED
      BY <1>0, <2>1, <2>2, <3>1 DEF ContractInv, Verdicts
  <2>3. CASE verdict # "none"
    BY <1>1, <2>1, <2>3
  <2> QED
    BY <2>2, <2>3
<1>4. CASE Supervise
  <2>0. UNCHANGED launcher
    BY <1>4 DEF Supervise
  <2>1. CASE Contract!HostNotifies \/ Contract!DeadlinePasses
    BY <1>1, <2>0, <2>1 DEF Contract!HostNotifies, Contract!DeadlinePasses
  <2>2. CASE Contract!MainEnds
    <3>1. status = "none" /\ status' \in Statuses /\ UNCHANGED <<asked, verdict>>
      BY <2>2 DEF Contract!MainEnds
    <3> QED
      BY <1>0, <2>0, <3>1 DEF ContractInv
  <2>3. ASSUME NEW cause \in {"limit", "timeout"}, Contract!Ask(cause) PROVE ContractInv'
    <3>1. /\ verdict \in {"none", "error"} /\ asked' = asked \cup {cause}
          /\ status' \in Statuses \cup {"none"}
          /\ UNCHANGED verdict
      BY <2>3 DEF Contract!Ask, Contract!MayEnd, ContractInv
    <3> QED
      BY <1>0, <2>0, <3>1 DEF ContractInv
  <2>4. CASE Contract!Report
    <3>1. /\ verdict = "none" /\ status # "none" /\ UNCHANGED <<asked, status>>
          /\ verdict' = IF "limit" \in asked THEN "OutputLimitExceeded"
                        ELSE IF "timeout" \in asked THEN "TimedOut" ELSE status
      BY <2>4 DEF Contract!Report, Contract!Cause
    <3>2. launcher = {}
      BY <3>1 DEF StageInv
    <3>3. verdict' \in Verdicts
      BY <3>1 DEF ContractInv, Verdicts
    <3>4. verdict' \in Statuses => verdict' = status /\ asked = {}
      BY <1>0, <3>1 DEF ContractInv
    <3> QED
      BY <2>0, <3>1, <3>2, <3>3, <3>4 DEF ContractInv
  <2> QED
    BY <1>4, <2>1, <2>2, <2>3, <2>4 DEF Supervise
<1>5. CASE SupervisionFails
  <2>1. /\ verdict = "none" /\ verdict' = "error"
        /\ UNCHANGED <<launcher, asked, status>>
    BY <1>5 DEF SupervisionFails, Contract!Fails
  <2>2. launcher = {}
    BY <2>1 DEF StageInv
  <2> QED
    BY <1>0, <2>1, <2>2 DEF ContractInv, Verdicts
<1>6. CASE LauncherEnds
  <2>1. UNCHANGED <<asked, status, verdict>>
    BY <1>6 DEF LauncherEnds
  <2>2. \E end \in Ends(verdict) : launcher' = {end}
    BY <1>6 DEF LauncherEnds, Ends
  <2>3. \E end \in Ends(verdict') : launcher' = {end}
    BY <2>1, <2>2
  <2> QED
    BY <2>1, <2>3 DEF ContractInv
<1> QED
  BY <1>2, <1>3, <1>4, <1>5, <1>6 DEF Next, ChildSteps

LEMMA ContractAlways == Spec => []ContractInv
<1>1. Init => ContractInv
  BY DEF Init, Contract!Init, ContractInv, Verdicts
<1> QED
  BY <1>1, StageAlways, ContractStep, PTL DEF Spec

\* Success is reported for a launcher that exited with 0 only.
SuccessInv == exit_code = {0} \/ Logged("app_exit", "allow") => Exited(0) \in launcher

LEMMA SuccessStep == StageInv /\ LogInv /\ SuccessInv /\ [Next]_vars => SuccessInv'
<1> SUFFICES ASSUME StageInv, LogInv, SuccessInv, [Next]_vars PROVE SuccessInv'
  OBVIOUS
<1>1. launcher \subseteq launcher'
  BY DEF Next, HostSteps, ChildSteps, CheckCli, LoadPolicy, Identify, ReportIdentity, Prepare,
         Announce, Spawn, Monitor, Report, Execute, SetupFails, Supervise, SupervisionFails,
         LauncherEnds, OthersStep, vars, run
<1>a. Exited(0)' = Exited(0)
  BY DEF Exited
<1>2. CASE /\ exit_code' # {0} \/ UNCHANGED exit_code
           /\ Logged("app_exit", "allow")' => Logged("app_exit", "allow")
  BY <1>1, <1>2, <1>a DEF SuccessInv
<1>3. CASE Report /\ Exited(0) \in launcher
  BY <1>1, <1>3, <1>a DEF SuccessInv
<1>4. ASSUME UNCHANGED <<log, exit_code>> PROVE SuccessInv'
  BY <1>2, <1>4 DEF Logged
<1>5. ASSUME NEW event \in Events, Deny(event) PROVE SuccessInv'
  <2>1. exit_code' # {0}
    BY <1>5 DEF Deny
  <2>2. CASE log' = Entry(event, "deny")
    BY <1>2, <2>1, <2>2, LogGrows
  <2>3. CASE UNCHANGED log
    BY <1>2, <2>1, <2>3 DEF Logged
  <2> QED
    BY <1>5, <2>2, <2>3 DEF Deny
<1>6. ASSUME NEW event \in Events, event # "app_exit", NEW next, Allow(event, next)
      PROVE  SuccessInv'
  <2>1. exit_code' # {0} \/ UNCHANGED exit_code
    BY <1>6 DEF Allow
  <2>2. CASE log' = Entry(event, "allow")
    BY <1>2, <1>6, <2>1, <2>2, LogGrows
  <2>3. CASE UNCHANGED log
    BY <1>2, <2>1, <2>3 DEF Logged
  <2> QED
    BY <1>6, <2>2, <2>3 DEF Allow
<1>b. {"cli_check", "policy_load", "identity_check", "sandbox_prepare", "app_exit",
       "resource_limit_hit"} \subseteq Events
  BY DEF Events
<1>7. CASE CheckCli
  BY <1>5, <1>6, <1>7, <1>b DEF CheckCli, Decide
<1>8. CASE LoadPolicy
  BY <1>5, <1>6, <1>8, <1>b DEF LoadPolicy, Decide
<1>9. CASE ReportIdentity
  BY <1>5, <1>6, <1>9, <1>b DEF ReportIdentity
<1>10. CASE Prepare
  BY <1>5, <1>6, <1>10, <1>b DEF Prepare, Decide
<1>11. CASE Announce
  <2>1. /\ stage = "announce"
        /\ Allow(Story[Count + 1], IF Count + 1 = Total THEN "spawn" ELSE "announce")
    BY <1>11 DEF Announce, Count, Total
  <2>2. Count \in Nat
    BY LenProperties DEF LogInv, Count
  <2>3. Count < Total
    BY <2>1 DEF LogInv
  <2>4. Story[Count + 1] \in Events \ {"app_exit"}
    BY <2>2, <2>3, StoryShape
  <2> QED
    BY <1>6, <2>1, <2>4
<1>12. CASE Spawn
  BY <1>4, <1>5, <1>12, <1>b DEF Spawn
<1>13. CASE Monitor
  BY <1>4, <1>5, <1>13, <1>b DEF Monitor
<1>14. CASE Report
  <2>1. CASE Exited(0) \in launcher
    BY <1>3, <1>14, <2>1
  <2>2. CASE Exited(0) \notin launcher
    BY <1>5, <1>14, <1>b, <2>2 DEF Report
  <2> QED
    BY <2>1, <2>2
<1>15. CASE SetupFails
  <2>1. CASE log' = Entry("app_exit", "deny")
    BY <1>2, <1>15, <1>b, <2>1, LogGrows DEF SetupFails
  <2>2. CASE UNCHANGED log
    BY <1>4, <1>15, <2>2 DEF SetupFails
  <2> QED
    BY <1>15, <2>1, <2>2 DEF SetupFails
<1>16. CASE Identify \/ Execute \/ Supervise \/ SupervisionFails \/ LauncherEnds \/ OthersStep
            \/ UNCHANGED vars
  BY <1>4, <1>16 DEF Identify, Execute, Supervise, SupervisionFails, LauncherEnds, OthersStep,
                     vars
<1> QED
  BY <1>7, <1>8, <1>9, <1>10, <1>11, <1>12, <1>13, <1>14, <1>15, <1>16
     DEF Next, HostSteps, ChildSteps

LEMMA SuccessInvAlways == Spec => []SuccessInv
<1>1. Init => SuccessInv
  <2> SUFFICES ASSUME Init PROVE SuccessInv
    OBVIOUS
  <2>1. log = <<>> /\ exit_code = {}
    BY DEF Init
  <2>2. DOMAIN log = {}
    BY <2>1
  <2> QED
    BY <2>1, <2>2 DEF SuccessInv, Logged
<1> QED
  BY <1>1, StageAlways, LogAlways, SuccessStep, PTL DEF Spec

\* main.rs, runner.rs: a launcher that exits with 0 has the application's own 0 to report.
LEMMA ZeroIsTheApplications ==
    ASSUME StageInv, ContractInv, Exited(0) \in launcher
    PROVE  verdict \in Statuses \ Signalled /\ Number[verdict] = 0
<1>1. Exited(0) \in Ends(verdict)
  BY DEF ContractInv
<1>2. Exited(0) = Exited(LauncherCode(verdict))
  BY <1>1 DEF Ends, Exited, Killed
<1>3. LauncherCode(verdict) = 0
  BY <1>2 DEF Exited
<1>4. verdict # "none"
  BY DEF StageInv
<1>5. verdict \in Statuses
  BY <1>3, <1>4 DEF ContractInv, Verdicts, LauncherCode
<1>6. ExitCode(verdict) = 0
  BY <1>3, <1>5, MainAssumption DEF LauncherCode
<1>7. verdict \notin Signalled
  <2> SUFFICES ASSUME verdict \in Signalled PROVE FALSE
    OBVIOUS
  <2>1. Number[verdict] \in 1..64 /\ 128 + Number[verdict] = 0
    BY <1>6, MainAssumption DEF ExitCode
  <2> QED
    BY <2>1
<1> QED
  BY <1>5, <1>6, <1>7 DEF ExitCode

\* main.rs, runner.rs: the success that main reports is the application's.
THEOREM SuccessAlways == Spec => []SuccessIsTheApplications
<1>1. StageInv /\ ContractInv /\ SuccessInv => SuccessIsTheApplications
  <2> SUFFICES ASSUME StageInv, ContractInv, Exited(0) \in launcher
               PROVE  /\ program # {}
                      /\ status \in Statuses \ Signalled /\ Number[status] = 0
                      /\ asked = {}
    BY DEF SuccessInv, SuccessIsTheApplications
  <2>1. verdict \in Statuses \ Signalled /\ Number[verdict] = 0
    BY ZeroIsTheApplications
  <2>2. status = verdict /\ asked = {}
    BY <2>1 DEF ContractInv
  <2>3. status # "none"
    BY <2>1, <2>2, MainAssumption
  <2> QED
    BY <2>1, <2>2, <2>3 DEF StageInv
<1> QED
  BY <1>1, StageAlways, ContractAlways, SuccessInvAlways, PTL

\* The exit codes of main, which ends with one.
ExitInv == IF stage = "ended" THEN exit_code \in {{0}, {1}, {101}} ELSE exit_code = {}

LEMMA ExitStep == StageInv /\ ExitInv /\ [Next]_vars => ExitInv'
<1> SUFFICES ASSUME StageInv, ExitInv, [Next]_vars PROVE ExitInv'
  OBVIOUS
<1>1. CASE UNCHANGED <<stage, exit_code>>
  BY <1>1 DEF ExitInv
<1>2. ASSUME NEW event, Deny(event) PROVE ExitInv'
  BY <1>2 DEF Deny, ExitInv
<1>3. ASSUME NEW event, NEW next, Allow(event, next), stage # "ended", next # "ended"
      PROVE  ExitInv'
  BY <1>3 DEF Allow, ExitInv
<1>4. CASE CheckCli
  BY <1>2, <1>3, <1>4 DEF CheckCli, Decide
<1>5. CASE LoadPolicy
  BY <1>2, <1>3, <1>5 DEF LoadPolicy, Decide
<1>6. CASE ReportIdentity
  BY <1>2, <1>3, <1>6 DEF ReportIdentity
<1>7. CASE Prepare
  BY <1>2, <1>3, <1>7 DEF Prepare, Decide
<1>8. CASE Announce
  BY <1>3, <1>8 DEF Announce
<1>9. CASE Spawn
  BY <1>2, <1>9 DEF Spawn, ExitInv
<1>10. CASE Monitor
  BY <1>2, <1>10 DEF Monitor, ExitInv
<1>11. CASE Report
  BY <1>2, <1>11 DEF Report, ExitInv
<1>12. CASE Identify \/ ChildSteps \/ OthersStep \/ UNCHANGED vars
  BY <1>1, <1>12 DEF Identify, ChildSteps, Execute, SetupFails, Supervise, SupervisionFails,
                     LauncherEnds, OthersStep, vars
<1> QED
  BY <1>4, <1>5, <1>6, <1>7, <1>8, <1>9, <1>10, <1>11, <1>12 DEF Next, HostSteps

LEMMA ExitAlways == Spec => []ExitInv
<1>1. Init => ExitInv
  BY DEF Init, ExitInv
<1> QED
  BY <1>1, StageAlways, ExitStep, PTL DEF Spec

LEMMA LauncherCodeIsByte ==
    ASSUME NEW v \in Verdicts \ {"none"}
    PROVE  LauncherCode(v) \in 0..255
<1>1. CASE v \in Statuses
  <2>1. LauncherCode(v) = ExitCode(v)
    BY <1>1, MainAssumption DEF LauncherCode
  <2>2. CASE v \in Signalled
    <3>1. Number[v] \in 1..64 /\ LauncherCode(v) = 128 + Number[v]
      BY <2>1, <2>2, MainAssumption DEF ExitCode
    <3> QED
      BY <3>1
  <2>3. CASE v \notin Signalled
    BY <1>1, <2>1, <2>3, MainAssumption DEF ExitCode
  <2> QED
    BY <2>2, <2>3
<1>2. CASE v \notin Statuses
  BY <1>2 DEF LauncherCode, Verdicts
<1> QED
  BY <1>1, <1>2

\* The variables of the whole program have their types.
THEOREM TypeAlways == Spec => []TypeOK
<1>1. StageInv /\ LogInv /\ ContractInv /\ ExitInv => TypeOK
  <2> SUFFICES ASSUME StageInv, LogInv, ContractInv, ExitInv PROVE TypeOK
    OBVIOUS
  <2>1. \A i \in DOMAIN log : log[i][2] \in {"allow", "deny"}
    <3>1. log \in Seq(Entries) /\ DOMAIN log = 1..Len(log)
      BY LenProperties DEF LogInv
    <3>2. ASSUME NEW i \in DOMAIN log PROVE log[i] \in Entries
      BY <3>1, ElementOfSeq
    <3> QED
      BY <3>2 DEF Entries
  <2>2. IsOption(exit_code, 0..255) /\ (stage = "ended" <=> exit_code # {})
    BY DEF ExitInv, IsOption
  <2>3. /\ IsOption(launcher, launcher)
        /\ \A end \in launcher : end.kind \in {"Exited", "Signaled"} /\ end.number \in 0..255
    <3>1. CASE launcher = {}
      BY <3>1 DEF IsOption
    <3>2. CASE launcher # {}
      <4>1. verdict \in Verdicts \ {"none"}
        BY <3>2 DEF StageInv, ContractInv
      <4>2. LauncherCode(verdict) \in 0..255
        BY <4>1, LauncherCodeIsByte
      <4>3. PICK end \in Ends(verdict) : launcher = {end}
        BY <3>2 DEF ContractInv
      <4>4. end.kind \in {"Exited", "Signaled"} /\ end.number \in 0..255
        BY <4>2 DEF Ends, Exited, Killed, SIGKILL, SIGINT
      <4> QED
        BY <4>3, <4>4 DEF IsOption
    <3> QED
      BY <3>1, <3>2
  <2>4. asked \subseteq {"limit", "timeout"} /\ status \in Statuses \cup {"none"}
    BY DEF ContractInv
  <2> QED
    BY <2>1, <2>2, <2>3, <2>4 DEF TypeOK, StageInv, Stages
<1> QED
  BY <1>1, StageAlways, LogAlways, ContractAlways, ExitAlways, PTL

-----------------------------------------------------------------------------
(* The executable.                                                         *)

Done == Len(read)
Size == Len(content[opened])

\* What has been read of the open file so far is what the file holds, unless it was
\* written in place since; all of it, once it is verified.
ReadInv ==
    /\ content \in [Files -> Contents]
    /\ at \in [Places -> Files \cup {Nothing}]
    /\ link \in [{"cli", "policy"} -> Places]
    /\ read \in Seq(Blocks)
    /\ ipc = "open" => opened = Nothing /\ touched = {}
    /\ ipc \in {"canonicalize", "compare", "hash", "verified"} => opened \in Files
    /\ ipc \in {"open", "canonicalize", "compare"} => read = <<>>
    /\ ipc = "hash" /\ opened \notin touched =>
        /\ Done <= Size
        /\ \A i \in 1..Done : read[i] = content[opened][i]
    /\ ipc = "verified" /\ opened \notin touched => content[opened] = Approved

LEMMA FileHoldsBlocks ==
    ASSUME ReadInv, opened \in Files
    PROVE  /\ content[opened] \in Seq(Blocks)
           /\ Done \in Nat /\ Size \in Nat
<1>1. content[opened] \in Seq(Blocks)
  BY IdentityAssumption DEF ReadInv
<1> QED
  BY <1>1, LenProperties DEF ReadInv, Done, Size

\* A step of check_identity.
LEMMA IdentifyKeepsRead ==
    ASSUME ReadInv, CheckIdentity \/ IdentityFails, UNCHANGED files
    PROVE  ReadInv'
<1> USE DEF files, executable
<1>1. CASE Open
  <2>1. opened' = at[link["cli"]] /\ opened' \in Files \cup {Nothing}
    BY <1>1 DEF Open, Resolve, ReadInv
  <2>2. ipc' = IF opened' = Nothing THEN "refused" ELSE "canonicalize"
    BY <1>1 DEF Open
  <2> QED
    BY <1>1, <2>1, <2>2 DEF Open, ReadInv
<1>2. CASE Canonicalize
  BY <1>2 DEF Canonicalize, ReadInv
<1>3. CASE Compare
  <2>1. ipc' = "refused" \/ (ipc' = "hash" /\ SamePlace)
    BY <1>3 DEF Compare
  <2>2. opened \in Files /\ read = <<>> /\ UNCHANGED executable
    BY <1>3 DEF Compare, ReadInv
  <2>3. Done' = 0 /\ Size' \in Nat
    <3>1. Done = 0 /\ Done' = Done /\ Size' = Size
      BY <2>2 DEF Done, Size
    <3> QED
      BY <2>2, <3>1, FileHoldsBlocks
  <2> QED
    BY <1>3, <2>1, <2>2, <2>3 DEF ReadInv
<1>4. CASE ReadBlock
  <2>1. /\ ipc = "hash" /\ Done < Size
        /\ read' = Append(read, content[opened][Done + 1])
        /\ UNCHANGED <<ipc, opened, path>>
    BY <1>4 DEF ReadBlock, Done, Size
  <2>2. opened \in Files
    BY <2>1 DEF ReadInv
  <2>3. content[opened] \in Seq(Blocks) /\ Done \in Nat /\ Size \in Nat
    BY <2>2, FileHoldsBlocks
  <2>4. content[opened][Done + 1] \in Blocks
    <3>1. Done + 1 \in 1..Size
      BY <2>1, <2>3
    <3> QED
      BY <2>3, <3>1, ElementOfSeq DEF Size
  <2>5. /\ read' \in Seq(Blocks)
        /\ Len(read') = Len(read) + 1
        /\ \A i \in 1..Len(read) : read'[i] = read[i]
        /\ read'[Len(read) + 1] = content[opened][Done + 1]
    <3>1. read \in Seq(Blocks)
      BY DEF ReadInv
    <3> QED
      BY <2>1, <2>4, <3>1, AppendProperties
  <2>6. /\ Done' = Done + 1 /\ Size' = Size
        /\ \A i \in 1..Done : read'[i] = read[i]
        /\ read'[Done + 1] = content[opened][Done + 1]
    BY <2>1, <2>5 DEF Done, Size
  <2>7. ASSUME opened \notin touched
        PROVE  Done' <= Size' /\ \A i \in 1..Done' : read'[i] = content[opened][i]
    <3>1. \A i \in 1..Done : read[i] = content[opened][i]
      BY <2>1, <2>7 DEF ReadInv
    <3>2. Done' <= Size'
      BY <2>1, <2>3, <2>6
    <3>3. ASSUME NEW i \in 1..Done' PROVE read'[i] = content[opened][i]
      <4>1. i \in 1..Done \/ i = Done + 1
        BY <2>3, <2>6
      <4> QED
        BY <2>6, <3>1, <4>1
    <3> QED
      BY <3>2, <3>3
  <2> QED
    BY <2>1, <2>2, <2>5, <2>7 DEF ReadInv
<1>5. CASE CheckHash
  <2>1. /\ ipc = "hash" /\ Done >= Size
        /\ ipc' = IF read = Approved THEN "verified" ELSE "refused"
        /\ UNCHANGED executable
    BY <1>5 DEF CheckHash, Done, Size
  <2>2. opened \in Files
    BY <2>1 DEF ReadInv
  <2>3. content[opened] \in Seq(Blocks) /\ Done \in Nat /\ Size \in Nat
    BY <2>2, FileHoldsBlocks
  <2>4. ASSUME opened \notin touched, read = Approved PROVE content[opened] = Approved
    <3>1. Done <= Size /\ \A i \in 1..Done : read[i] = content[opened][i]
      BY <2>1, <2>4 DEF ReadInv
    <3>2. Done = Size
      BY <2>1, <2>3, <3>1
    <3>3. read \in Seq(Blocks)
      BY DEF ReadInv
    <3>4. read = content[opened]
      BY <2>3, <3>1, <3>2, <3>3, SeqEqual DEF Done, Size
    <3> QED
      BY <2>4, <3>4
  <2> QED
    BY <2>1, <2>2, <2>4 DEF ReadInv
<1>6. CASE IdentityFails
  BY <1>6 DEF IdentityFails, ReadInv
<1> QED
  BY <1>1, <1>2, <1>3, <1>4, <1>5, <1>6 DEF CheckIdentity

\* A step of the others.
LEMMA OthersKeepRead ==
    ASSUME ReadInv, Others, UNCHANGED <<ipc, opened, read>>
    PROVE  ReadInv'
<1>0. Done' = Done
  BY DEF Done
<1>1. CASE Retarget
  <2>1. link' \in [{"cli", "policy"} -> Places] /\ UNCHANGED <<at, content, touched>>
    BY <1>1 DEF Retarget, ReadInv
  <2>2. Size' = Size
    BY <2>1 DEF Size
  <2> QED
    BY <1>0, <2>1, <2>2 DEF ReadInv
<1>2. CASE Replace
  <2>1. at' \in [Places -> Files \cup {Nothing}] /\ UNCHANGED <<link, content, touched>>
    BY <1>2 DEF Replace, ReadInv
  <2>2. Size' = Size
    BY <2>1 DEF Size
  <2> QED
    BY <1>0, <2>1, <2>2 DEF ReadInv
<1>3. CASE Overwrite
  <2>1. PICK file \in Files, new \in Contents :
            /\ content' = [content EXCEPT ![file] = new]
            /\ touched' = touched \cup ({file} \cap {opened})
            /\ UNCHANGED <<link, at>>
    BY <1>3 DEF Overwrite
  <2>2. content' \in [Files -> Contents]
    BY <2>1 DEF ReadInv
  <2>3. CASE opened \in Files
    <3>1. opened \notin touched' => opened \notin touched /\ content'[opened] = content[opened]
      BY <2>1, <2>3 DEF ReadInv
    <3>2. opened \notin touched' => Size' = Size
      BY <3>1 DEF Size
    <3>3. ipc # "open"
      BY <2>3, IdentityAssumption DEF ReadInv
    <3> QED
      BY <1>0, <2>1, <2>2, <2>3, <3>1, <3>2, <3>3 DEF ReadInv
  <2>4. CASE opened \notin Files
    <3>1. touched' = touched
      BY <2>1, <2>4
    <3> QED
      BY <2>1, <2>2, <2>4, <3>1 DEF ReadInv
  <2> QED
    BY <2>3, <2>4
<1> QED
  BY <1>1, <1>2, <1>3 DEF Others

LEMMA ReadStep == ReadInv /\ [Next]_vars => ReadInv'
<1> SUFFICES ASSUME ReadInv, [Next]_vars PROVE ReadInv'
  OBVIOUS
<1>1. CASE UNCHANGED <<files, identity>>
  <2>1. Done' = Done /\ Size' = Size
    BY <1>1 DEF Done, Size, files, identity, executable
  <2> QED
    BY <1>1, <2>1 DEF ReadInv, files, identity, executable
<1>2. CASE Identify
  BY <1>2, IdentifyKeepsRead DEF Identify
<1>3. CASE OthersStep
  BY <1>3, OthersKeepRead DEF OthersStep, identity, executable
<1>4. CASE HostSteps /\ ~Identify
  BY <1>1, <1>4 DEF HostSteps, CheckCli, LoadPolicy, ReportIdentity, Prepare, Announce, Spawn,
                    Monitor, Report
<1>5. CASE ChildSteps
  BY <1>1, <1>5 DEF ChildSteps, Execute, SetupFails, Supervise, SupervisionFails, LauncherEnds
<1>6. CASE UNCHANGED vars
  BY <1>1, <1>6 DEF vars
<1> QED
  BY <1>2, <1>3, <1>4, <1>5, <1>6 DEF Next

LEMMA ReadAlways == Spec => []ReadInv
<1>1. Init => ReadInv
  <2> SUFFICES ASSUME Init PROVE ReadInv
    OBVIOUS
  <2>1. /\ ipc = "open" /\ opened = Nothing /\ touched = {} /\ read = <<>>
        /\ content \in [Files -> Contents]
        /\ at \in [Places -> Files \cup {Nothing}]
        /\ link \in [{"cli", "policy"} -> Places]
    BY DEF Init, IdentityInit
  <2> QED
    BY <2>1, EmptySeq DEF ReadInv
<1> QED
  BY <1>1, ReadStep, PTL DEF Spec

\* If nobody has changed anything yet, the two names lead to the place that was hashed.
PathInv ==
    /\ changes \in Nat /\ changes <= input.changes
    /\ input \in Inputs
    /\ changes = input.changes =>
        /\ ipc \in {"compare", "hash", "verified"} => path = link["cli"]
        /\ ipc \in {"hash", "verified"} => link["policy"] = path

LEMMA PathStep == PathInv /\ [Next]_vars => PathInv'
<1> SUFFICES ASSUME PathInv, [Next]_vars PROVE PathInv'
  OBVIOUS
<1>0. input' = input /\ input.changes \in Nat
  BY InputStays, MainAssumption DEF PathInv
<1>1. CASE UNCHANGED <<files, identity>>
  BY <1>0, <1>1 DEF PathInv, files, identity, executable
<1>2. CASE Identify
  BY <1>0, <1>2 DEF Identify, CheckIdentity, Open, Canonicalize, Compare, SamePlace, ReadBlock,
                    CheckHash, IdentityFails, PathInv, files, executable
<1>3. CASE OthersStep
  <2>1. changes > 0 /\ changes' = changes - 1
    BY <1>3 DEF OthersStep, Others, Retarget, Replace, Overwrite, Change
  <2> QED
    BY <1>0, <2>1 DEF PathInv
<1>4. CASE HostSteps /\ ~Identify
  BY <1>1, <1>4 DEF HostSteps, CheckCli, LoadPolicy, ReportIdentity, Prepare, Announce, Spawn,
                    Monitor, Report
<1>5. CASE ChildSteps
  BY <1>1, <1>5 DEF ChildSteps, Execute, SetupFails, Supervise, SupervisionFails, LauncherEnds
<1>6. CASE UNCHANGED vars
  BY <1>1, <1>6 DEF vars
<1> QED
  BY <1>2, <1>3, <1>4, <1>5, <1>6 DEF Next

LEMMA PathAlways == Spec => []PathInv
<1>1. Init => PathInv
  BY MainAssumption DEF Init, IdentityInit, PathInv
<1> QED
  BY <1>1, PathStep, PTL DEF Spec

\* identity.rs, runner.rs: the program that runs is the file that was opened and hashed,
\* and holds the approved content unless it was written in place since.
THEOREM ExecutedIsVerifiedAlways == Spec => []ExecutedIsVerified
<1>1. StageInv /\ ProgramInv /\ ReadInv /\ PathInv => ExecutedIsVerified
  <2> SUFFICES ASSUME StageInv, ProgramInv, ReadInv, PathInv, NEW app \in program
               PROVE  /\ app.file = opened
                      /\ opened \notin touched => app.content = Approved
                      /\ changes = input.changes => link["cli"] = link["policy"]
    BY DEF ExecutedIsVerified
  <2>1. ipc = "verified"
    BY DEF StageInv
  <2>2. app.file = opened /\ app.content = content[opened]
    BY DEF ProgramInv
  <2> QED
    BY <2>1, <2>2 DEF ReadInv, PathInv
<1> QED
  BY <1>1, StageAlways, ProgramAlways, ReadAlways, PathAlways, PTL
=============================================================================
