------------------------------ MODULE HostMonitor ------------------------------
(***************************************************************************)
(* The host side of secure-runtime: the loop of run_app that watches the   *)
(* launcher, drains the application's stdout and stderr pipes under one    *)
(* shared output budget, tells the launcher through the control pipe when  *)
(* the budget is exceeded, and collects and removes the cgroup at the end. *)
(*                                                                         *)
(* Bytes are counted, their values are not modelled.  The launcher and the *)
(* processes that hold the write ends are an environment here.             *)
(***************************************************************************)
EXTENDS Integers

CONSTANTS
    Limit,          \* max_output_bytes of the policy, or NoLimit
    NoLimit,        \* the policy sets no output limit
    ReadSize,       \* the buffer of one read (4096 in the code)
    PipeSize,       \* what a pipe holds before its writers block
    CounterMax,     \* u64::MAX, the largest value of total_bytes
    Supply,         \* bound: bytes the application may write in all
    CgroupEnabled,  \* the run has a cgroup of its own
    HostMayFail     \* forwarding, statistics, logging and cleanup may fail

ASSUME HostAssumption ==
    /\ NoLimit \notin Nat
    /\ Limit \in (Nat \ {0}) \cup {NoLimit}
    /\ ReadSize \in Nat \ {0}
    /\ PipeSize \in Nat \ {0}
    /\ CounterMax \in Nat
    /\ Supply \in Nat
    /\ CgroupEnabled \in BOOLEAN
    /\ HostMayFail \in BOOLEAN

Streams == {"stdout", "stderr"}

VARIABLES
    writers,          \* stream -> some process still holds its write end
    buf,              \* stream -> bytes written and not yet read
    supply,           \* bytes the application has not written yet
    launcher,         \* "running" or "exited"; an exited one holds no descriptor
    ctl,              \* messages in the control pipe
    hpc,              \* where the host is in its loop
    launcher_status,  \* launcher_status.is_some()
    revents,          \* stream -> the last poll reported POLLIN or POLLHUP
    open,             \* stream -> stdout_open, stderr_open
    total_bytes,
    forwarded,        \* bytes written to the host's own stdout and stderr
    limit_exceeded,
    output_limit_notified,
    cgroup,           \* the sandbox cgroup directory: "absent" or "present"
    result            \* what run_app returns: "none" yet, "ok", or the error

pipes == <<writers, buf, supply>>
monitor == <<revents, open, total_bytes, forwarded, limit_exceeded>>
host == <<hpc, launcher_status, monitor, output_limit_notified, cgroup, result>>
vars == <<pipes, launcher, ctl, host>>

Limited == Limit # NoLimit

\* What a total of n bytes leaves of the output: all of it, or the budget.
Capped(n) == IF Limited /\ n > Limit THEN Limit ELSE n

\* Mutant: a read is taken to fill its buffer.
FullBuffer(s) == ReadSize

\* min(available, size of the buffer): what one read takes out of a pipe.
ReadCount(s) == IF buf[s] < ReadSize THEN buf[s] ELSE ReadSize

\* Mutant: every read is granted the whole limit again.
WholeLimit == Limit

\* limit.saturating_sub(previous_total)
Remaining == IF total_bytes < Limit THEN Limit - total_bytes ELSE 0

\* bytes_to_forward
Allowed(n) == IF Limited /\ Remaining < n THEN Remaining ELSE n

\* Mutant: POLLHUP is not asked for, so an end of file is never reported.
OnlyPollin(s) == buf[s] > 0

\* What poll reports of a read end: POLLIN or POLLHUP.
Reported(s) == buf[s] > 0 \/ ~writers[s]

\* Mutant: a stream is read as long as it is open, whatever poll reported.
OpenOnly(s) == open[s]

\* The test before each read.
Ready(s) == open[s] /\ revents[s]

After(s) == IF s = "stdout" THEN "stderr" ELSE "notify"

Return(outcome) == hpc' = "returned" /\ result' = outcome

Init ==
    /\ writers = [s \in Streams |-> TRUE]
    /\ buf = [s \in Streams |-> 0]
    /\ supply = Supply
    /\ launcher = "running"
    /\ ctl = 0
    /\ hpc = "waitpid"
    /\ launcher_status = FALSE
    /\ revents = [s \in Streams |-> FALSE]
    /\ open = [s \in Streams |-> TRUE]
    /\ total_bytes = 0
    /\ forwarded = 0
    /\ limit_exceeded = FALSE
    /\ output_limit_notified = FALSE
    /\ cgroup = IF CgroupEnabled THEN "present" ELSE "absent"
    /\ result = "none"

-----------------------------------------------------------------------------
(* The environment: the application writes and closes, the launcher reads  *)
(* the control pipe and exits.                                             *)

\* When run_app has returned, the read ends are closed and a write fails.
AppWrites(s) ==
    /\ writers[s]
    /\ buf[s] < PipeSize
    /\ supply > 0
    /\ hpc # "returned"
    /\ buf' = [buf EXCEPT ![s] = @ + 1]
    /\ supply' = supply - 1
    /\ UNCHANGED <<writers, launcher, ctl, host>>

WritersClose(s) ==
    /\ writers[s]
    /\ writers' = [writers EXCEPT ![s] = FALSE]
    /\ UNCHANGED <<buf, supply, launcher, ctl, host>>

LauncherReads ==
    /\ launcher = "running"
    /\ ctl > 0
    /\ ctl' = ctl - 1
    /\ UNCHANGED <<pipes, launcher, host>>

LauncherExits ==
    /\ launcher = "running"
    /\ launcher' = "exited"
    /\ UNCHANGED <<pipes, ctl, host>>

-----------------------------------------------------------------------------
(* The host.                                                               *)

\* waitpid(child, WNOHANG), only until it has returned a status once.
WaitLauncher ==
    /\ hpc = "waitpid"
    /\ launcher_status' = (launcher_status \/ launcher = "exited")
    /\ hpc' = "poll"
    /\ UNCHANGED <<pipes, launcher, ctl, monitor, output_limit_notified, cgroup, result>>

\* poll both read ends, for at most 50 ms: the events are sampled here, once,
\* and used by both reads that follow.
Poll ==
    /\ hpc = "poll"
    /\ revents' = [s \in Streams |-> Reported(s)]
    /\ hpc' = "stdout"
    /\ UNCHANGED <<pipes, launcher, ctl, launcher_status, open, total_bytes, forwarded,
                   limit_exceeded, output_limit_notified, cgroup, result>>

\* waitpid, poll (an EINTR included) or a read fails.
CallFails ==
    /\ HostMayFail
    /\ hpc \in {"waitpid", "poll"} \/ \E s \in Streams : hpc = s /\ Ready(s)
    /\ Return("call failed")
    /\ UNCHANGED <<pipes, launcher, ctl, launcher_status, monitor, output_limit_notified, cgroup>>

SkipStream(s) ==
    /\ hpc = s
    /\ ~Ready(s)
    /\ hpc' = After(s)
    /\ UNCHANGED <<pipes, launcher, ctl, launcher_status, monitor, output_limit_notified,
                   cgroup, result>>

\* read returns 0: every write end is closed and the pipe is empty.
ReadEof(s) ==
    /\ hpc = s
    /\ Ready(s)
    /\ buf[s] = 0 /\ ~writers[s]
    /\ open' = [open EXCEPT ![s] = FALSE]
    /\ hpc' = After(s)
    /\ UNCHANGED <<pipes, launcher, ctl, launcher_status, revents, total_bytes, forwarded,
                   limit_exceeded, output_limit_notified, cgroup, result>>

\* The bytes leave the pipe; with an empty pipe and a writer left, read blocks.
TakeBytes(s) ==
    /\ hpc = s
    /\ Ready(s)
    /\ buf[s] > 0
    /\ buf' = [buf EXCEPT ![s] = @ - ReadCount(s)]
    /\ UNCHANGED <<writers, supply, launcher, ctl, launcher_status, revents, open,
                   output_limit_notified, cgroup>>

\* checked_add on the byte counter fails and run_app returns the error.
CounterOverflows(s) ==
    /\ TakeBytes(s)
    /\ total_bytes + ReadCount(s) > CounterMax
    /\ Return("overflow")
    /\ UNCHANGED <<total_bytes, forwarded, limit_exceeded>>

\* Count the bytes, forward what the budget still allows, flag the excess.
ReadBytes(s) ==
    /\ TakeBytes(s)
    /\ total_bytes + ReadCount(s) <= CounterMax
    /\ total_bytes' = total_bytes + ReadCount(s)
    /\ forwarded' = forwarded + Allowed(ReadCount(s))
    /\ limit_exceeded' = (limit_exceeded \/ (Limited /\ total_bytes' > Limit))
    /\ hpc' = After(s)
    /\ UNCHANGED result

\* The host's own stdout or stderr fails: the bytes are counted, a part of them
\* may have been written.
ForwardFails(s) ==
    /\ HostMayFail
    /\ TakeBytes(s)
    /\ total_bytes + ReadCount(s) <= CounterMax
    /\ Allowed(ReadCount(s)) > 0
    /\ total_bytes' = total_bytes + ReadCount(s)
    /\ \E written \in 0 .. Allowed(ReadCount(s)) : forwarded' = forwarded + written
    /\ Return("forward failed")
    /\ UNCHANGED limit_exceeded

\* Mutants: the notice is repeated, or waits for the launcher's status.
NotifyAgain == limit_exceeded
NotifyAtTheEnd == limit_exceeded /\ ~output_limit_notified /\ launcher_status

MustNotify == limit_exceeded /\ ~output_limit_notified

\* Mutants: the loop ends with the launcher, or with the pipes.
LauncherGone == launcher_status
PipesClosed == \A s \in Streams : ~open[s]

\* The loop ends when the launcher is reaped and both pipes reached their end.
Finished == launcher_status /\ \A s \in Streams : ~open[s]

EndOfIteration ==
    hpc' = IF ~Finished THEN "waitpid" ELSE IF CgroupEnabled THEN "stats" ELSE "succeed"

NothingToReport ==
    /\ hpc = "notify"
    /\ ~MustNotify
    /\ EndOfIteration
    /\ UNCHANGED <<pipes, launcher, ctl, launcher_status, monitor, output_limit_notified,
                   cgroup, result>>

SendLimitExceeded ==
    /\ hpc = "notify"
    /\ MustNotify
    /\ launcher = "running"
    /\ ctl' = ctl + 1
    /\ output_limit_notified' = TRUE
    /\ EndOfIteration
    /\ UNCHANGED <<pipes, launcher, launcher_status, monitor, cgroup, result>>

\* The launcher held the only read end: the write fails with EPIPE and run_app
\* returns the error before any cgroup work.
SendFails ==
    /\ hpc = "notify"
    /\ MustNotify
    /\ launcher = "exited"
    /\ Return("control pipe closed")
    /\ UNCHANGED <<pipes, launcher, ctl, launcher_status, monitor, output_limit_notified, cgroup>>

ReadStats ==
    /\ hpc = "stats"
    /\ \/ hpc' = "cleanup" /\ UNCHANGED result
       \/ HostMayFail /\ Return("statistics or log failed")
    /\ UNCHANGED <<pipes, launcher, ctl, launcher_status, monitor, output_limit_notified, cgroup>>

Cleanup ==
    /\ hpc = "cleanup"
    /\ \/ hpc' = "succeed" /\ cgroup' = "absent" /\ UNCHANGED result
       \/ HostMayFail /\ Return("cleanup failed") /\ UNCHANGED cgroup
    /\ UNCHANGED <<pipes, launcher, ctl, launcher_status, monitor, output_limit_notified>>

Succeed ==
    /\ hpc = "succeed"
    /\ Return("ok")
    /\ UNCHANGED <<pipes, launcher, ctl, launcher_status, monitor, output_limit_notified, cgroup>>

Drain(s) == SkipStream(s) \/ ReadEof(s) \/ ReadBytes(s) \/ CounterOverflows(s) \/ ForwardFails(s)

Host ==
    \/ WaitLauncher \/ Poll \/ CallFails
    \/ \E s \in Streams : Drain(s)
    \/ NothingToReport \/ SendLimitExceeded \/ SendFails
    \/ ReadStats \/ Cleanup \/ Succeed

Environment ==
    \/ \E s \in Streams : AppWrites(s) \/ WritersClose(s)
    \/ LauncherReads \/ LauncherExits

Next == Host \/ Environment

Spec == Init /\ [][Next]_vars
FairSpec == Spec /\ WF_vars(Host)

-----------------------------------------------------------------------------
(* Properties.                                                             *)

Failures == {"call failed", "overflow", "forward failed", "control pipe closed",
             "statistics or log failed", "cleanup failed"}

\* The variables have their types: a read never takes more than a pipe holds and
\* the byte counter never passes u64::MAX.
TypeOK ==
    /\ writers \in [Streams -> BOOLEAN]
    /\ buf \in [Streams -> 0 .. PipeSize]
    /\ supply \in 0 .. Supply
    /\ launcher \in {"running", "exited"}
    /\ ctl \in Nat
    /\ hpc \in {"waitpid", "poll", "notify", "stats", "cleanup", "succeed", "returned"} \cup Streams
    /\ launcher_status \in BOOLEAN
    /\ revents \in [Streams -> BOOLEAN]
    /\ open \in [Streams -> BOOLEAN]
    /\ total_bytes \in 0 .. CounterMax
    /\ forwarded \in Nat
    /\ limit_exceeded \in BOOLEAN
    /\ output_limit_notified \in BOOLEAN
    /\ cgroup \in {"present", "absent"}
    /\ result \in {"none", "ok"} \cup Failures

\* stdout and stderr share one budget: whatever the order of the reads, what has
\* been forwarded of both is the first max_output_bytes bytes read, never one more,
\* and never fewer unless the host's own stdout or stderr failed; the excess is
\* flagged exactly when there is some.
SharedBudget ==
    /\ forwarded <= Capped(total_bytes)
    /\ limit_exceeded => Limited /\ total_bytes > Limit
    /\ result # "forward failed" =>
        /\ forwarded = Capped(total_bytes)
        /\ Limited /\ total_bytes > Limit => limit_exceeded

\* The events used by a read are still true when it happens, although the other
\* stream was read and the application ran since poll: the host, which is alone
\* in watching the limit and the launcher, never blocks in read.
ReadNeverBlocks ==
    \A s \in Streams : hpc = s /\ Ready(s) => buf[s] > 0 \/ ~writers[s]

\* run_app succeeds only with every byte the application wrote read and counted,
\* and nobody left who could write another.
NoOutputLost ==
    result = "ok" =>
        /\ total_bytes = Supply - supply
        /\ \A s \in Streams : ~writers[s]

\* run_app succeeds only if the launcher has been reaped, it was told of an
\* exceeded limit, and the cgroup is removed.
CleanSuccess ==
    result = "ok" =>
        /\ launcher = "exited"
        /\ limit_exceeded => output_limit_notified
        /\ cgroup = "absent"

\* The control pipe carries at most one notice in a run, so the non-blocking write
\* never meets a full pipe ("Runtime control pipe is full", control.rs), and it
\* carries one only when the limit is really exceeded.
OneNotice ==
    /\ ctl <= 1
    /\ ctl = 1 => Limited /\ total_bytes > Limit

\* Once the launcher has exited and every write end is closed, run_app returns.
HostReturns ==
    (launcher = "exited" /\ \A s \in Streams : ~writers[s]) ~> (hpc = "returned")

\* An exceeded limit is reported to the launcher, or the run ends: a stream of
\* output, or a silent application, cannot hold the notice back.
LimitReported == limit_exceeded ~> (output_limit_notified \/ hpc = "returned")

\* README.md, "Cgroup v2 controls": "The sandbox cgroup is cleaned up after
\* execution."  Stated for runs in which no call of the host fails by itself.
CgroupAlwaysCleaned == hpc = "returned" => cgroup = "absent"
=============================================================================
