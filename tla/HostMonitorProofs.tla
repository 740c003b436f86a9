--------------------------- MODULE HostMonitorProofs ---------------------------
(***************************************************************************)
(* Safety of the host's loop for every limit, buffer size, pipe size,      *)
(* counter width and amount of output.  Inv adds to TypeOK what ties the   *)
(* host's bookkeeping to the pipes: the end of a stream is final, the      *)
(* sampled events stay true until they are used, and no byte disappears.   *)
(***************************************************************************)
EXTENDS HostMonitor, TLAPS

\* A stream counted as closed is empty and has no writer left.
EofIsFinal == \A s \in Streams : ~open[s] => ~writers[s] /\ buf[s] = 0

\* Events reported by poll hold until the read they announce.
EventsHold ==
    \A s \in Streams :
        (hpc = "stdout" \/ hpc = s) /\ revents[s] => buf[s] > 0 \/ ~writers[s]

\* Every byte written is in a pipe or has been counted.
NoByteLost ==
    result # "overflow" => supply + buf["stdout"] + buf["stderr"] + total_bytes = Supply

\* What the later stages of run_app rely on.
Stages ==
    /\ launcher_status => launcher = "exited"
    /\ output_limit_notified => limit_exceeded
    /\ ctl = 0 \/ (ctl = 1 /\ output_limit_notified)
    /\ result = "forward failed" => hpc = "returned"
    /\ result = "overflow" => hpc = "returned"
    /\ hpc \in {"stats", "cleanup", "succeed"} \/ result = "ok" =>
        Finished /\ (limit_exceeded => output_limit_notified)
    /\ (hpc = "succeed" \/ result = "ok") => cgroup = "absent"
    /\ result # "none" => hpc = "returned"
    /\ cgroup = "present" => CgroupEnabled

Inv == TypeOK /\ SharedBudget /\ EofIsFinal /\ EventsHold /\ NoByteLost /\ Stages

USE HostAssumption

\* What a read takes is part of the pipe, and not nothing if the pipe is not empty.
LEMMA ReadCountBounds ==
    ASSUME TypeOK, NEW s \in Streams, buf[s] > 0
    PROVE  ReadCount(s) \in 1 .. buf[s]
BY DEF TypeOK, ReadCount

\* The two branches of bytes_to_forward keep the forwarded prefix exact.
LEMMA BudgetArithmetic ==
    ASSUME TypeOK, NEW n \in Nat
    PROVE  /\ Allowed(n) \in 0 .. n
           /\ Capped(total_bytes) \in Nat
           /\ Capped(total_bytes + n) = Capped(total_bytes) + Allowed(n)
BY DEF TypeOK, Capped, Allowed, Remaining, Limited

\* The invariant holds initially.
LEMMA InvInit == Init => Inv
<1> SUFFICES ASSUME Init PROVE Inv
  OBVIOUS
<1>1. TypeOK
  <2>1. /\ writers \in [Streams -> BOOLEAN] /\ buf \in [Streams -> 0 .. PipeSize]
        /\ revents \in [Streams -> BOOLEAN] /\ open \in [Streams -> BOOLEAN]
    BY DEF Init
  <2>2. /\ supply \in 0 .. Supply /\ ctl \in Nat
        /\ total_bytes \in 0 .. CounterMax /\ forwarded \in Nat
    BY DEF Init
  <2>3. launcher \in {"running", "exited"} /\ cgroup \in {"present", "absent"}
    BY DEF Init
  <2>4. QED
    BY <2>1, <2>2, <2>3 DEF Init, TypeOK
<1>2. SharedBudget
  BY DEF Init, SharedBudget, Capped, Limited
<1>3. EofIsFinal /\ EventsHold /\ NoByteLost
  BY DEF Init, EofIsFinal, EventsHold, NoByteLost, Streams
<1>4. Stages
  BY DEF Init, Stages
<1>5. QED
  BY <1>1, <1>2, <1>3, <1>4 DEF Inv

\* The environment's steps: they only add bytes to a pipe that has a writer, close
\* write ends, take a notice, or end the launcher.
LEMMA InvEnvironment == Inv /\ Environment => Inv'
<1> SUFFICES ASSUME Inv, Environment PROVE Inv'
  OBVIOUS
<1>1. ASSUME NEW s \in Streams, AppWrites(s) PROVE Inv'
  <2> USE <1>1 DEF AppWrites, Inv, host, monitor
  <2>1. TypeOK'
    BY DEF TypeOK
  <2>2. SharedBudget'
    BY DEF SharedBudget, Capped, Limited
  <2>3. EofIsFinal' /\ EventsHold'
    BY DEF EofIsFinal, EventsHold, TypeOK
  <2>4. NoByteLost'
    BY DEF NoByteLost, TypeOK, Streams
  <2>5. Stages'
    BY DEF Stages, Finished
  <2>6. QED
    BY <2>1, <2>2, <2>3, <2>4, <2>5
<1>2. ASSUME NEW s \in Streams, WritersClose(s) PROVE Inv'
  <2> USE <1>2 DEF WritersClose, Inv, host, monitor
  <2>1. TypeOK'
    BY DEF TypeOK
  <2>2. EofIsFinal' /\ EventsHold'
    BY DEF EofIsFinal, EventsHold, TypeOK
  <2>3. (SharedBudget /\ NoByteLost /\ Stages)'
    BY DEF SharedBudget, Capped, Limited, NoByteLost, Stages, Finished
  <2>4. QED
    BY <2>1, <2>2, <2>3
<1>3. CASE LauncherReads
  <2> USE <1>3 DEF LauncherReads, Inv, host, monitor, pipes
  <2>1. TypeOK'
    BY DEF TypeOK
  <2>2. SharedBudget' /\ NoByteLost'
    BY DEF SharedBudget, Capped, Limited, NoByteLost
  <2>3. EofIsFinal' /\ EventsHold'
    BY DEF EofIsFinal, EventsHold
  <2>4. Stages'
    <3>1. ctl = 1 /\ ctl' = ctl - 1
      <4>1. ctl = 0 \/ ctl = 1
        BY Zenon DEF Stages
      <4>2. ctl > 0 /\ ctl' = ctl - 1
        OBVIOUS
      <4>3. QED
        BY ONLY <4>1, <4>2
    <3>2. ctl' = 0
      BY ONLY <3>1
    <3>3. QED
      BY <3>2 DEF Stages, Finished
  <2>5. QED
    BY <2>1, <2>2, <2>3, <2>4
<1>4. CASE LauncherExits
  <2> USE <1>4 DEF LauncherExits, Inv, host, monitor, pipes
  <2>1. TypeOK'
    BY DEF TypeOK
  <2>2. SharedBudget' /\ NoByteLost'
    BY DEF SharedBudget, Capped, Limited, NoByteLost
  <2>3. EofIsFinal' /\ EventsHold'
    BY DEF EofIsFinal, EventsHold
  <2>4. Stages'
    BY DEF Stages, Finished
  <2>5. QED
    BY <2>1, <2>2, <2>3, <2>4
<1>5. QED
  BY <1>1, <1>2, <1>3, <1>4 DEF Environment

\* The steps of the host that move no byte: polling the launcher and the pipes,
\* skipping a stream, the end of a stream.
LEMMA InvPolling ==
    ASSUME Inv, WaitLauncher \/ Poll \/ \E s \in Streams : SkipStream(s) \/ ReadEof(s)
    PROVE  Inv'
<1> USE DEF Inv, pipes, monitor, After
<1>1. CASE WaitLauncher
  <2> USE <1>1 DEF WaitLauncher
  <2>1. TypeOK' /\ EventsHold'
    BY DEF TypeOK, EventsHold, Streams
  <2>2. SharedBudget' /\ NoByteLost' /\ EofIsFinal'
    BY DEF SharedBudget, Capped, Limited, NoByteLost, EofIsFinal
  <2>3. Stages'
    BY DEF Stages, Finished
  <2>4. QED
    BY <2>1, <2>2, <2>3
<1>2. CASE Poll
  <2> USE <1>2 DEF Poll
  <2>1. TypeOK' /\ EventsHold'
    BY DEF TypeOK, EventsHold, Reported, Streams
  <2>2. SharedBudget' /\ NoByteLost' /\ EofIsFinal'
    BY DEF SharedBudget, Capped, Limited, NoByteLost, EofIsFinal
  <2>3. Stages'
    BY DEF Stages, Finished
  <2>4. QED
    BY <2>1, <2>2, <2>3
<1>3. ASSUME NEW s \in Streams, SkipStream(s) PROVE Inv'
  <2> USE <1>3 DEF SkipStream
  <2>1. TypeOK' /\ EventsHold'
    BY DEF TypeOK, EventsHold, Streams
  <2>2. SharedBudget' /\ NoByteLost' /\ EofIsFinal'
    BY DEF SharedBudget, Capped, Limited, NoByteLost, EofIsFinal
  <2>3. Stages'
    BY DEF Stages, Finished, Streams
  <2>4. QED
    BY <2>1, <2>2, <2>3
<1>4. ASSUME NEW s \in Streams, ReadEof(s) PROVE Inv'
  <2> USE <1>4 DEF ReadEof
  <2>1. TypeOK' /\ EventsHold'
    BY DEF TypeOK, EventsHold, Streams
  <2>2. SharedBudget' /\ NoByteLost' /\ EofIsFinal'
    BY DEF SharedBudget, Capped, Limited, NoByteLost, EofIsFinal, TypeOK
  <2>3. Stages'
    BY DEF Stages, Finished, Streams
  <2>4. QED
    BY <2>1, <2>2, <2>3
<1>5. QED
  BY <1>1, <1>2, <1>3, <1>4

\* A read takes at least one byte and no more than there is; the pipe of the other
\* stream, the writers, and the end of each stream are as they were.
LEMMA TakeFacts ==
    ASSUME Inv, NEW s \in Streams, TakeBytes(s)
    PROVE  /\ ReadCount(s) \in 1 .. buf[s]
           /\ buf' \in [Streams -> 0 .. PipeSize]
           /\ buf'["stdout"] + buf'["stderr"] + ReadCount(s) = buf["stdout"] + buf["stderr"]
           /\ EofIsFinal'
           /\ result = "none"
           /\ total_bytes + ReadCount(s) \in Nat
<1>1. TypeOK
  BY DEF Inv
<1>2. ReadCount(s) \in 1 .. buf[s]
  BY <1>1, ReadCountBounds DEF TakeBytes
<1>3. /\ buf' = [buf EXCEPT ![s] = @ - ReadCount(s)]
      /\ UNCHANGED <<writers, open>>
      /\ hpc = s /\ Ready(s)
  BY DEF TakeBytes
<1>4. /\ buf' \in [Streams -> 0 .. PipeSize]
      /\ buf'["stdout"] + buf'["stderr"] + ReadCount(s) = buf["stdout"] + buf["stderr"]
  BY <1>1, <1>2, <1>3 DEF TypeOK, Streams
<1>5. EofIsFinal'
  BY <1>1, <1>3 DEF Inv, EofIsFinal, TypeOK, Ready
<1>6. result = "none"
  BY <1>3 DEF Inv, Stages, Streams
<1>7. QED
  BY <1>1, <1>2, <1>4, <1>5, <1>6 DEF TypeOK

\* A counted read: the budget stays exact and the sum over pipes and counter holds.
LEMMA InvReadBytes == ASSUME Inv, NEW s \in Streams, ReadBytes(s) PROVE Inv'
<1> DEFINE n == ReadCount(s)
<1>1. /\ n \in 1 .. buf[s]
      /\ buf' \in [Streams -> 0 .. PipeSize]
      /\ buf'["stdout"] + buf'["stderr"] + n = buf["stdout"] + buf["stderr"]
      /\ EofIsFinal' /\ result = "none" /\ total_bytes + n \in Nat
  BY TakeFacts DEF ReadBytes
<1>2. n \in Nat /\ TypeOK
  BY <1>1 DEF Inv, TypeOK
<1>3. /\ Allowed(n) \in 0 .. n
      /\ Capped(total_bytes) \in Nat
      /\ Capped(total_bytes + n) = Capped(total_bytes) + Allowed(n)
  BY ONLY <1>2, BudgetArithmetic, HostAssumption
<1>4. /\ total_bytes' = total_bytes + n /\ total_bytes + n <= CounterMax
      /\ forwarded' = forwarded + Allowed(n)
      /\ limit_exceeded' = (limit_exceeded \/ (Limited /\ total_bytes' > Limit))
      /\ hpc' = After(s) /\ hpc = s
      /\ UNCHANGED <<writers, supply, launcher, ctl, launcher_status, revents, open,
                     output_limit_notified, cgroup, result>>
  BY DEF ReadBytes, TakeBytes
<1> HIDE DEF n
<1>5. TypeOK'
  <2>1. total_bytes' \in 0 .. CounterMax /\ forwarded' \in Nat
    BY <1>1, <1>2, <1>3, <1>4 DEF TypeOK
  <2>2. hpc' \in {"stderr", "notify"} /\ limit_exceeded' \in BOOLEAN
    BY <1>2, <1>4 DEF TypeOK, After
  <2>3. QED
    BY <1>1, <1>2, <1>4, <2>1, <2>2 DEF TypeOK, Streams
<1>6. SharedBudget'
  <2>1. Capped(total_bytes)' = Capped(total_bytes + n)
    BY <1>4 DEF Capped, Limited
  <2>2. forwarded = Capped(total_bytes) /\ (limit_exceeded <=> Limited /\ total_bytes > Limit)
    BY <1>1 DEF Inv, SharedBudget
  <2>3. forwarded' = Capped(total_bytes)'
    BY <1>3, <1>4, <2>1, <2>2
  <2>4. Limited /\ total_bytes > Limit => total_bytes' > Limit
    BY <1>2, <1>4 DEF TypeOK, Limited
  <2>5. limit_exceeded' <=> Limited /\ total_bytes' > Limit
    BY ONLY <1>4, <2>2, <2>4
  <2>6. forwarded' <= Capped(total_bytes)'
    BY ONLY <1>3, <2>1, <2>3
  <2>7. QED
    BY ONLY <2>3, <2>5, <2>6 DEF SharedBudget, Limited
<1>7. EventsHold'
  BY <1>2, <1>4 DEF Inv, EventsHold, TypeOK, ReadBytes, TakeBytes, After, Streams
<1>8. NoByteLost'
  BY <1>1, <1>2, <1>4 DEF Inv, NoByteLost, TypeOK, Streams
<1>9. Stages'
  BY <1>1, <1>4 DEF Inv, Stages, Finished, After, Streams
<1>10. QED
  BY <1>1, <1>5, <1>6, <1>7, <1>8, <1>9 DEF Inv

\* A read that ends the run: the counter would overflow, or forwarding fails.
LEMMA InvReadFails ==
    ASSUME Inv, NEW s \in Streams, CounterOverflows(s) \/ ForwardFails(s)
    PROVE  Inv'
<1> DEFINE n == ReadCount(s)
<1>1. TakeBytes(s) /\ hpc' = "returned"
  BY DEF CounterOverflows, ForwardFails, Return
<1>2. /\ n \in 1 .. buf[s]
      /\ buf' \in [Streams -> 0 .. PipeSize]
      /\ buf'["stdout"] + buf'["stderr"] + n = buf["stdout"] + buf["stderr"]
      /\ EofIsFinal' /\ result = "none" /\ total_bytes + n \in Nat
  BY <1>1, TakeFacts
<1>3. TypeOK /\ n \in Nat
  BY <1>2 DEF Inv, TypeOK
<1>4. /\ Allowed(n) \in 0 .. n
      /\ Capped(total_bytes) \in Nat
      /\ Capped(total_bytes + n) = Capped(total_bytes) + Allowed(n)
  BY ONLY <1>3, BudgetArithmetic, HostAssumption
<1>5. UNCHANGED <<writers, supply, launcher, ctl, launcher_status, revents, open,
                  output_limit_notified, cgroup>>
  BY <1>1 DEF TakeBytes
<1> HIDE DEF n
<1>6. EventsHold'
  BY <1>1 DEF EventsHold, Streams
<1>7. CASE CounterOverflows(s)
  <2>1. result' = "overflow" /\ UNCHANGED <<total_bytes, forwarded, limit_exceeded>>
    BY <1>7 DEF CounterOverflows, Return
  <2>2. TypeOK' /\ NoByteLost'
    BY <1>1, <1>2, <1>3, <1>5, <2>1 DEF TypeOK, Failures, NoByteLost
  <2>3. SharedBudget' /\ Stages'
    BY <1>1, <1>2, <1>5, <2>1 DEF Inv, SharedBudget, Stages, Capped, Limited
  <2>4. QED
    BY <1>2, <1>6, <2>2, <2>3 DEF Inv
<1>8. CASE ForwardFails(s)
  <2>1. /\ result' = "forward failed" /\ UNCHANGED limit_exceeded
        /\ total_bytes' = total_bytes + n /\ total_bytes + n <= CounterMax
    BY <1>8 DEF ForwardFails, Return, n
  <2>2. PICK written \in 0 .. Allowed(n) : forwarded' = forwarded + written
    BY <1>8 DEF ForwardFails, n
  <2>3. TypeOK'
    <3>1. total_bytes' \in 0 .. CounterMax /\ forwarded' \in Nat
      <4>1. written \in Nat
        BY ONLY <1>3, <1>4, <2>2
      <4>2. forwarded \in Nat /\ total_bytes' \in Nat
        BY <1>2, <1>3, <2>1 DEF TypeOK
      <4>3. forwarded' \in Nat
        BY ONLY <2>2, <4>1, <4>2
      <4>4. CounterMax \in Nat /\ total_bytes' <= CounterMax
        BY <2>1
      <4>5. QED
        BY ONLY <4>2, <4>3, <4>4
    <3>2. result' \in Failures
      BY <2>1 DEF Failures
    <3>3. QED
      BY <1>1, <1>2, <1>3, <1>5, <2>1, <3>1, <3>2 DEF TypeOK
  <2>4. NoByteLost'
    <3>1. supply + buf["stdout"] + buf["stderr"] + total_bytes = Supply
      BY <1>2 DEF Inv, NoByteLost
    <3>2. /\ supply \in Nat /\ total_bytes \in Nat
          /\ buf["stdout"] \in Nat /\ buf["stderr"] \in Nat
          /\ buf'["stdout"] \in Nat /\ buf'["stderr"] \in Nat
      BY <1>2, <1>3 DEF TypeOK, Streams
    <3>3. /\ buf'["stdout"] + buf'["stderr"] + n = buf["stdout"] + buf["stderr"]
          /\ supply' = supply /\ total_bytes' = total_bytes + n
      BY ONLY <1>2, <1>5, <2>1
    <3>4. supply' + buf'["stdout"] + buf'["stderr"] + total_bytes' = Supply
      BY ONLY <1>3, <3>1, <3>2, <3>3
    <3>5. QED
      BY <3>4 DEF NoByteLost
  <2>5. SharedBudget'
    <3>1. Capped(total_bytes)' = Capped(total_bytes) + Allowed(n)
      BY <1>4, <2>1 DEF Capped, Limited
    <3>2. forwarded <= Capped(total_bytes) /\ forwarded \in Nat
      BY <1>3 DEF Inv, SharedBudget, TypeOK
    <3>3. forwarded' <= Capped(total_bytes)'
      BY <1>4, <2>2, <3>1, <3>2
    <3>4. Limited /\ total_bytes > Limit => total_bytes' > Limit
      <4> SUFFICES ASSUME Limited, total_bytes > Limit PROVE total_bytes' > Limit
        OBVIOUS
      <4>1. total_bytes \in Nat /\ Limit \in Nat
        BY <1>3 DEF TypeOK, Limited
      <4>2. n \in Nat /\ total_bytes' = total_bytes + n /\ total_bytes > Limit
        BY <1>3, <2>1
      <4>3. QED
        BY ONLY <4>1, <4>2
    <3>5. limit_exceeded => Limited /\ total_bytes > Limit
      BY DEF Inv, SharedBudget
    <3>6. QED
      BY ONLY <2>1, <3>3, <3>4, <3>5 DEF SharedBudget, Limited
  <2>6. Stages'
    BY <1>1, <1>2, <1>5, <2>1 DEF Inv, Stages
  <2>7. QED
    BY <1>2, <1>6, <2>3, <2>4, <2>5, <2>6 DEF Inv
<1>9. QED
  BY <1>7, <1>8

\* The end of an iteration and what follows the loop.
LEMMA InvReporting ==
    ASSUME Inv,
           \/ NothingToReport \/ SendLimitExceeded \/ SendFails
           \/ ReadStats \/ Cleanup \/ Succeed \/ CallFails
    PROVE  Inv'
<1> USE DEF Inv, pipes, monitor
<1>1. /\ UNCHANGED <<pipes, launcher, launcher_status, monitor>>
      /\ hpc' \notin Streams
  BY DEF NothingToReport, SendLimitExceeded, SendFails, ReadStats, Cleanup, Succeed,
         CallFails, EndOfIteration, Return, Streams
<1>2. EofIsFinal' /\ EventsHold'
  BY <1>1 DEF EofIsFinal, EventsHold, Streams
<1>3. CASE NothingToReport
  <2>1. TypeOK' /\ NoByteLost'
    BY <1>3 DEF NothingToReport, EndOfIteration, TypeOK, NoByteLost
  <2>2. SharedBudget'
    BY <1>3 DEF NothingToReport, SharedBudget, Capped, Limited
  <2>3. Stages'
    BY <1>3 DEF NothingToReport, EndOfIteration, Stages, Finished, MustNotify, TypeOK
  <2>4. QED
    BY <1>2, <2>1, <2>2, <2>3
<1>4. CASE SendLimitExceeded
  <2>1. TypeOK' /\ NoByteLost'
    BY <1>4 DEF SendLimitExceeded, EndOfIteration, TypeOK, NoByteLost
  <2>2. SharedBudget'
    BY <1>4 DEF SendLimitExceeded, SharedBudget, Capped, Limited
  <2>3. ctl' = 1 /\ output_limit_notified' /\ limit_exceeded'
    <3>1. ctl = 0
      BY <1>4, Zenon DEF SendLimitExceeded, Stages, MustNotify
    <3>2. ctl' = ctl + 1 /\ output_limit_notified' /\ limit_exceeded'
      BY <1>4 DEF SendLimitExceeded, MustNotify
    <3>3. QED
      BY ONLY <3>1, <3>2
  <2>4. Stages'
    BY <1>4, <2>3 DEF SendLimitExceeded, EndOfIteration, Stages, Finished, TypeOK
  <2>5. QED
    BY <1>2, <2>1, <2>2, <2>4
<1>5. CASE SendFails
  BY <1>2, <1>5 DEF SendFails, Return, TypeOK, Failures, NoByteLost, SharedBudget, Capped,
                    Limited, Stages
<1>6. CASE ReadStats
  BY <1>2, <1>6 DEF ReadStats, Return, TypeOK, Failures, NoByteLost, SharedBudget, Capped,
                    Limited, Stages, Finished
<1>7. CASE Cleanup
  BY <1>2, <1>7 DEF Cleanup, Return, TypeOK, Failures, NoByteLost, SharedBudget, Capped,
                    Limited, Stages, Finished
<1>8. CASE Succeed
  BY <1>2, <1>8 DEF Succeed, Return, TypeOK, NoByteLost, SharedBudget, Capped,
                    Limited, Stages, Finished
<1>9. CASE CallFails
  <2>1. hpc # "returned" /\ result' = "call failed" /\ hpc' = "returned"
    BY <1>9 DEF CallFails, Return, Streams
  <2>2. UNCHANGED <<supply, buf, writers, open, revents, total_bytes, forwarded, limit_exceeded,
                    launcher, ctl, launcher_status, output_limit_notified, cgroup>>
    BY <1>9 DEF CallFails
  <2>3. TypeOK'
    BY <2>1, <2>2 DEF TypeOK, Failures
  <2>4. NoByteLost'
    <3>1. result = "none"
      BY <2>1 DEF Stages
    <3>2. QED
      BY <2>2, <3>1 DEF NoByteLost
  <2>5. SharedBudget' /\ Stages'
    BY <2>1, <2>2 DEF SharedBudget, Capped, Limited, Stages
  <2>6. QED
    BY <1>2, <2>3, <2>4, <2>5
<1>10. QED
  BY <1>3, <1>4, <1>5, <1>6, <1>7, <1>8, <1>9

\* Inv is inductive.
LEMMA InvNext == Inv /\ [Next]_vars => Inv'
<1> SUFFICES ASSUME Inv, [Next]_vars PROVE Inv'
  OBVIOUS
<1>1. CASE Environment
  BY <1>1, InvEnvironment
<1>2. CASE Host
  BY <1>2, InvPolling, InvReadBytes, InvReadFails, InvReporting DEF Host, Drain
<1>3. CASE UNCHANGED vars
  BY <1>3 DEF vars, pipes, host, monitor, Inv, TypeOK, SharedBudget, Capped, Limited,
              EofIsFinal, EventsHold, NoByteLost, Stages, Finished
<1>4. QED
  BY <1>1, <1>2, <1>3 DEF Next

\* Inv holds in every reachable state.
THEOREM Invariance == Spec => []Inv
BY InvInit, InvNext, PTL DEF Spec

\* Types, for every value of the constants: no read takes more than the pipe holds,
\* the byte counter stays in u64.
THEOREM TypeCorrect == Spec => []TypeOK
<1>1. Inv => TypeOK
  BY DEF Inv
<1>2. QED
  BY <1>1, Invariance, PTL

\* stdout and stderr together never get a byte past max_output_bytes, and get every
\* byte up to it.
THEOREM BudgetShared == Spec => []SharedBudget
<1>1. Inv => SharedBudget
  BY DEF Inv
<1>2. QED
  BY <1>1, Invariance, PTL

\* The host never blocks in read, whatever happened since poll.
THEOREM ReadsDoNotBlock == Spec => []ReadNeverBlocks
<1>1. Inv => ReadNeverBlocks
  BY DEF Inv, EventsHold, ReadNeverBlocks, Ready
<1>2. QED
  BY <1>1, Invariance, PTL

\* A run that succeeds has read all of the application's output.
THEOREM OutputComplete == Spec => []NoOutputLost
<1>1. Inv => NoOutputLost
  <2> SUFFICES ASSUME Inv, result = "ok" PROVE NoOutputLost
    BY DEF NoOutputLost
  <2>1. \A s \in Streams : ~open[s]
    BY DEF Inv, Stages, Finished
  <2>2. \A s \in Streams : ~writers[s] /\ buf[s] = 0
    BY <2>1 DEF Inv, EofIsFinal
  <2>3. supply + total_bytes = Supply
    BY <2>2 DEF Inv, NoByteLost, TypeOK, Streams
  <2>4. QED
    BY <2>2, <2>3 DEF NoOutputLost, Inv, TypeOK
<1>2. QED
  BY <1>1, Invariance, PTL

\* A run that succeeds has reaped its launcher, reported an exceeded limit and left
\* no cgroup.
THEOREM SuccessIsClean == Spec => []CleanSuccess
<1>1. Inv => CleanSuccess
  BY DEF Inv, Stages, Finished, CleanSuccess
<1>2. QED
  BY <1>1, Invariance, PTL

\* The control pipe never holds a second notice, nor one for output within the limit.
THEOREM AtMostOneNotice == Spec => []OneNotice
<1>1. Inv => OneNotice
  <2> SUFFICES ASSUME Inv PROVE OneNotice
    OBVIOUS
  <2>1. ctl = 0 \/ (ctl = 1 /\ limit_exceeded)
    BY Zenon DEF Inv, Stages
  <2>2. limit_exceeded => Limited /\ total_bytes > Limit
    BY DEF Inv, SharedBudget
  <2>3. QED
    BY ONLY <2>1, <2>2 DEF OneNotice
<1>2. QED
  BY <1>1, Invariance, PTL
=============================================================================
