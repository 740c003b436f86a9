------------------------------- MODULE RunContract -------------------------------
(***************************************************************************)
(* What supervision promises the host about one run, however it is done:   *)
(* the run gets one verdict; the application is asked to stop only for a   *)
(* cause that exists; a cause it was asked to stop for is the verdict, a   *)
(* limit before a timeout; otherwise the verdict is the status with which  *)
(* the application's main process ended.  Supervision itself may fail, and *)
(* then the verdict says so and nothing else.                              *)
(*                                                                         *)
(* DirectLauncher and PidRuntime implement this module; Main builds on it. *)
(***************************************************************************)

CONSTANT Statuses    \* the statuses with which a process may end, other than those of verdict

VARIABLES
    notified,    \* the host has sent its notice
    expired,     \* the policy's timeout has passed
    asked,       \* the causes for which the application was asked to stop
    status,      \* how the main process ended, "none" while it has not
    verdict      \* what the host is told, "none" until then

contract == <<notified, expired, asked, status, verdict>>

Init ==
    /\ notified = FALSE
    /\ expired = FALSE
    /\ asked = {}
    /\ status = "none"
    /\ verdict = "none"

Exists(cause) == (cause = "limit" /\ notified) \/ (cause = "timeout" /\ expired)

\* The status once some of the application's processes were sent a signal.
MayEnd == status' = status \/ (status = "none" /\ status' \in Statuses)

HostNotifies == ~notified /\ notified' = TRUE /\ UNCHANGED <<expired, asked, status, verdict>>

DeadlinePasses == ~expired /\ expired' = TRUE /\ UNCHANGED <<notified, asked, status, verdict>>

MainEnds ==
    /\ status = "none"
    /\ status' \in Statuses
    /\ UNCHANGED <<notified, expired, asked, verdict>>

\* What is left of a failed supervision may still ask; a reported run is over.
Ask(cause) ==
    /\ Exists(cause)
    /\ cause \notin asked
    /\ verdict \in {"none", "error"}
    /\ asked' = asked \cup {cause}
    /\ MayEnd
    /\ UNCHANGED <<notified, expired, verdict>>

Cause ==
    IF "limit" \in asked THEN "OutputLimitExceeded"
    ELSE IF "timeout" \in asked THEN "TimedOut" ELSE status

Report ==
    /\ verdict = "none"
    /\ status # "none"
    /\ verdict' = Cause
    /\ UNCHANGED <<notified, expired, asked, status>>

Fails ==
    /\ verdict = "none"
    /\ verdict' = "error"
    /\ UNCHANGED <<notified, expired, asked, status>>

Next ==
    \/ HostNotifies \/ DeadlinePasses \/ MainEnds
    \/ \E cause \in {"limit", "timeout"} : Ask(cause)
    \/ Report \/ Fails

Spec == Init /\ [][Next]_contract

\* What the host may conclude from a verdict: the application was asked to stop only for
\* causes that exist, and a verdict other than a failure is the cause it was asked for, a
\* limit before a timeout, or else the status of a main process that has ended.
Honest ==
    /\ \A cause \in asked : Exists(cause)
    /\ verdict \notin {"none", "error"} => status # "none" /\ verdict = Cause

\* A verdict, a failure too, is never taken back.
OneVerdict == [][verdict # "none" => UNCHANGED verdict]_contract
=============================================================================
