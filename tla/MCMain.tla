--------------------------------- MODULE MCMain ---------------------------------
(***************************************************************************)
(* The inputs of Main for TLC.  Base is a policy that uses every option;   *)
(* the others vary it in one place, over the boundaries of the checks.     *)
(***************************************************************************)
EXTENDS Main, TLC

MaxU64 == 2147483647          \* TLC's integers have 32 bits

FileSymmetry == Permutations(Places) \cup Permutations(Files)

MCApproved == <<"a", "b">>
MCContents == {<<"a", "b">>, <<"a">>, <<"x", "b">>}

MCNumber == [exit0 |-> 0, exit3 |-> 3, exit124 |-> 124, kill |-> 9, xfsz |-> 25, term |-> 15]

Base ==
    [version |-> 1, default_action |-> "deny",
     filesystem |-> [read_allow |-> {"usr"}, write_allow |-> {"out"}, exec_allow |-> {"bin"},
                     deny |-> {"lost"}],
     resources |-> {[timeout_seconds |-> {30}, max_output_kb |-> {1}, memory_mb |-> {64},
                     max_processes |-> {8},
                     rlimit |-> {[enabled |-> {TRUE}, cpu_seconds |-> {5},
                                  max_file_size_mb |-> {20}]},
                     cgroup |-> {[enabled |-> {TRUE}, cpu_percent |-> {50}]}]},
     network |-> {[connect_tcp |-> {{80}}, bind_tcp |-> {}]},
     seccomp |-> {[profile |-> {"baseline"}, deny |-> {{"fork"}}]},
     namespace |-> {[uts |-> {[enabled |-> {TRUE}, hostname |-> {[len |-> 7, blank |-> FALSE]}]},
                     ipc |-> {}, network |-> {}, pid |-> {TRUE},
                     mount |-> {[enabled |-> {TRUE}, private_tmp |-> {TRUE}, tmp_size_mb |-> {64}]}]}]

Opt(values) == {{}} \cup {{value} : value \in values}

Res == CHOOSE res \in Base.resources : TRUE
\* The hard limits of the runtime, and the kernel's own largest values, scaled.
MCLargest ==
    [what \in LimitNames |->
        CASE what = "CPU" -> 3600
          [] what = "NPROC" -> 1000
          [] what = "pids.max" -> 4194304
          [] what = "cpu.max" -> 10000000
          [] OTHER -> MaxU64]

Ns == CHOOSE ns \in Base.namespace : TRUE

WithResources(res) == [Base EXCEPT !.resources = {res}]
WithNamespace(ns) == [Base EXCEPT !.namespace = {ns}]

Rlimit(enabled, cpu, size) ==
    [enabled |-> enabled, cpu_seconds |-> cpu, max_file_size_mb |-> size]

\* The largest megabytes that fit, the first that overflow in the second and in the
\* first multiplication.
Sizes == {0, 1, 2047, 2048, 2097152}

FormPolicies ==
    {[Base EXCEPT !.version = v] : v \in {0, 2}}
    \cup {[Base EXCEPT !.default_action = "ask"],
          [Base EXCEPT !.filesystem.read_allow = {"lost"}],
          [Base EXCEPT !.filesystem = [list \in Lists |-> {}]]}

ResourcePolicies ==
    {[Base EXCEPT !.resources = {}]}
    \cup {WithResources([Res EXCEPT !.timeout_seconds = t]) : t \in Opt({0, 1, MaxU64})}
    \cup {WithResources([Res EXCEPT !.max_output_kb = kb]) : kb \in Opt({0, 2097151, 2097152})}
    \cup {WithResources([Res EXCEPT !.memory_mb = mb, !.rlimit = rlimit, !.cgroup = cgroup]) :
              mb \in Opt(Sizes), rlimit \in {{}, Res.rlimit}, cgroup \in {{}, Res.cgroup}}
    \cup {WithResources([Res EXCEPT !.memory_mb = {}, !.max_processes = n,
                                    !.rlimit = {Rlimit(e, cpu, size)}]) :
              n \in Opt({0, 1}), e \in Opt(BOOLEAN), cpu \in Opt({0, 1}), size \in Opt(Sizes)}
    \cup {WithResources([Res EXCEPT !.max_processes = {n}, !.rlimit = rlimit, !.cgroup = cgroup]) :
              n \in {1000, 1001, 4194304, 4194305}, cgroup \in {{}, Res.cgroup},
              rlimit \in {{}} \cup {{Rlimit({TRUE}, {cpu}, {})} : cpu \in {3600, 3601}}}
    \cup {WithResources([Res EXCEPT !.memory_mb = {}, !.max_processes = {},
                                    !.cgroup = {[enabled |-> e, cpu_percent |-> c]}]) :
              e \in Opt(BOOLEAN), c \in Opt({0, 1, 100, 10000, 10001, 21474, 21475})}

NetworkPolicies ==
    {[Base EXCEPT !.network = {}]}
    \cup {[Base EXCEPT !.network = {[connect_tcp |-> c, bind_tcp |-> b]}] :
              c \in Opt({{}, {0, 80}, {65535}}), b \in Opt({{}, {0}, {1}})}

SeccompPolicies ==
    {[Base EXCEPT !.seccomp = {}]}
    \cup {[Base EXCEPT !.seccomp = {[profile |-> p, deny |-> d]}] :
              p \in Opt({"none", "baseline", "strict"}), d \in Opt({{}, {"ptrace"}, {"no_call"}})}

Hostnames == {[len |-> n, blank |-> b] : n \in {1, 64, 65}, b \in BOOLEAN}
                \cup {[len |-> 0, blank |-> FALSE]}

NamespacePolicies ==
    {[Base EXCEPT !.namespace = {}]}
    \cup {WithNamespace([Ns EXCEPT !.uts = {[enabled |-> e, hostname |-> h]}]) :
              e \in Opt(BOOLEAN), h \in Opt(Hostnames)}
    \cup {WithNamespace([Ns EXCEPT !.pid = p, !.mount = m]) :
              p \in Opt(BOOLEAN),
              m \in Opt({[enabled |-> e, private_tmp |-> t, tmp_size_mb |-> mb] :
                             e \in Opt(BOOLEAN), t \in Opt(BOOLEAN), mb \in Opt({0, 1024, 1025})})}

AllPolicies ==
    FormPolicies \cup ResourcePolicies \cup NetworkPolicies \cup SeccompPolicies
    \cup NamespacePolicies

Arguments ==
    [length |-> 5, policy_first |-> TRUE, app_second |-> TRUE, policy_is_file |-> TRUE,
     separator |-> FALSE]

BadArguments ==
    {[Arguments EXCEPT !.length = n] : n \in {1, 4, 6}}
    \cup {[Arguments EXCEPT !.policy_first = FALSE], [Arguments EXCEPT !.app_second = FALSE],
          [Arguments EXCEPT !.policy_is_file = FALSE],
          [Arguments EXCEPT !.length = 6, !.separator = TRUE]}

Given(args, pol, n, faulty) ==
    [args |-> args, policy |-> pol, changes |-> n, faulty |-> faulty]

MCInputs ==
    {Given(Arguments, pol, 0, FALSE) : pol \in AllPolicies}
    \cup {Given(args, Base, 0, FALSE) : args \in BadArguments}
    \cup {Given(Arguments, [Base EXCEPT !.resources = {}], 0, TRUE),
          Given(Arguments, Base, 0, TRUE),
          Given(Arguments, [Base EXCEPT !.resources = {}, !.network = {}], 2, FALSE)}

\* resources has memory_mb and max_processes and neither rlimit nor cgroup, as in
\* policies/memory_limit_probe.json and policies/process_limit_probe.json.
ProbeRun ==
    {Given(Arguments, WithResources([field \in DOMAIN Res |->
                                        IF field = "memory_mb" THEN {64}
                                        ELSE IF field = "max_processes" THEN {32} ELSE {}]),
           0, FALSE)}
=============================================================================
