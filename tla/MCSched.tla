-------------------------------- MODULE MCSched --------------------------------
(* The two sides of a coroutine scheduler, one per behaviour: how the other  *)
(* threads wake its loop up (SchedWake), and what the loop does for those    *)
(* that wait (CoSched).                                                      *)
EXTENDS SchedWake, CoSched

CONSTANT Fed        \* bound: the coroutines that input arrives for
VARIABLE part

ASSUME SignallersAssumption == Signallers \subseteq Thread

mcVars == <<part, wakeVars, vars>>

\* The side that a behaviour is not about stays as it starts.
MCInit ==
    /\ part \in {"wake", "waits"} /\ WakeInit /\ Init
    /\ part = "wake" => ops = CHOOSE o \in Program : TRUE
    /\ part = "waits" => ~signaled
Wake(A) == part = "wake" /\ A /\ UNCHANGED <<part, vars>>
Waits(A) == part = "waits" /\ A /\ UNCHANGED <<part, ops, wakeVars>>

MCNext == Wake(WakeNext) \/ (part = "waits" /\ Next /\ input' \subseteq Fed /\ UNCHANGED <<part, wakeVars>>)

\* The loop goes on, though nothing makes epoll_wait return for another reason
\* than the pipe; a thread that has begun a call of signal() finishes it; and
\* nothing makes a thread call it, or input arrive.
MCFairness ==
    /\ WF_mcVars(\/ Wake(Top \/ WakePipe \/ Drain \/ Clear \/ Take)
                 \/ Waits(Loop \/ \E c \in Co : Run(c)))
    /\ \A t \in Thread : WF_mcVars(
          \/ Wake(CompareSwap(t) \/ Write(t) \/ Join(t))
          \/ t \in Signallers /\ Waits(SignalAdd(t) \/ \E c \in Co : SignalReady(t, c)))

MCSpec == MCInit /\ [][MCNext]_mcVars /\ MCFairness
================================================================================
