---------------------------- MODULE AlarmChannel ----------------------------
(***************************************************************************)
(* What the alarm path of an engine promises, without threads, coroutines, *)
(* connections or messages: alarms are tried one at a time in the order    *)
(* they were reported, each one once; the server receives an alarm at most *)
(* once, possibly long after it was tried; a try that succeeds was         *)
(* received, a try that fails may or may not have been, or may still be.   *)
(***************************************************************************)
EXTENDS Integers

CONSTANT MaxAlarm       \* how many alarms are reported

VARIABLES
    reported,   \* number of alarms reported
    tried,      \* number of alarms tried
    received,   \* the set of alarms the server has received
    outcome     \* how the try of each alarm ended

vars == <<reported, tried, received, outcome>>

Init ==
    /\ reported = 0
    /\ tried = 0
    /\ received = {}
    /\ outcome = [a \in 1..MaxAlarm |-> "none"]

\* An alarm is reported.
Report ==
    /\ reported < MaxAlarm
    /\ reported' = reported + 1
    /\ UNCHANGED <<tried, received, outcome>>

\* The next alarm is tried, the one before it being settled.
Try ==
    /\ tried < reported
    /\ tried = 0 \/ outcome[tried] # "none"
    /\ tried' = tried + 1
    /\ UNCHANGED <<reported, received, outcome>>

\* The server receives an alarm, for the first time.
Receive(a) ==
    /\ a \notin received
    /\ received' = received \union {a}
    /\ UNCHANGED <<reported, tried, outcome>>

\* The try under way ends.
Settle(result) ==
    /\ tried > 0
    /\ outcome[tried] = "none"
    /\ result = "ok" => tried \in received
    /\ outcome' = [outcome EXCEPT ![tried] = result]
    /\ UNCHANGED <<reported, tried, received>>

Next ==
    \/ Report
    \/ Try
    \/ \E a \in 1..tried : Receive(a)
    \/ \E result \in {"ok", "failed"} : Settle(result)

Spec == Init /\ [][Next]_vars

=============================================================================
