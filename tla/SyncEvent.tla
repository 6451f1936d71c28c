---------------------------- MODULE SyncEvent ----------------------------
(* SyncEvent of base/thread.h: a flag under a mutex with a condition       *)
(* variable, reset by hand or by the last waiter.  Every critical section  *)
(* is one step; between pthread_cond_wait giving the mutex back and taking *)
(* it again other threads run.  POSIX lets a wait return for no reason.    *)
EXTENDS Naturals, FiniteSets

CONSTANT Threads

VARIABLES
    manual,    \* _manual_reset
    signaled,  \* _signaled
    consumer,  \* _consumer
    at,        \* per thread: "idle", or how its wait stands
    due,       \* threads whose wait a signal() has found blocked
    fresh,     \* signal() was called since a wait last returned true
    late,      \* a waiter that had timed out kept the event from being reset
    excused,   \* a wait returned for no reason, or after a reset()
    failed     \* assert(_signaled) has failed

eventVars == <<manual, signaled, consumer, at, due, fresh, late, excused, failed>>

\* modes: the values of _manual_reset; no threads, no waits.
EventInit(modes) ==
    /\ manual \in modes /\ signaled = FALSE /\ consumer = 0 /\ at = [t \in Threads |-> "idle"]
    /\ due = {} /\ fresh = FALSE /\ late = FALSE /\ excused = FALSE /\ failed = FALSE

Become(t, s) == at' = [at EXCEPT ![t] = s]
Blocked == {t \in Threads : at[t] \in {"forever", "timed"}}

\* Mutant of LastOut: every waiter that comes out resets the event.
LastOutAny(n) == ~manual

\* An event that resets itself is reset by the last waiter to come out.
LastOut(n) == ~manual /\ n = 0

\* A wait returns true, with n waiters still inside.
ReturnTrue(t, n) ==
    /\ signaled' = (signaled /\ ~LastOut(n))
    /\ late' = (late \/ (~manual /\ \E u \in Threads \ {t} : at[u] = "late"))
    /\ fresh' = FALSE
    /\ due' = due \ {t}

Wait(t) ==
    /\ at[t] = "idle"
    /\ \/ /\ signaled /\ ReturnTrue(t, consumer)
          /\ UNCHANGED <<at, consumer>>
       \/ /\ ~signaled /\ consumer' = consumer + 1
          /\ \E s \in {"forever", "timed"} : Become(t, s)
          /\ UNCHANGED <<signaled, late, fresh, due>>
    /\ UNCHANGED <<manual, excused, failed>>

\* Mutant of Woken: one waiter is woken, whoever else waits.
WokenOne == {t \in Blocked : t = CHOOSE u \in Blocked : TRUE}

\* pthread_cond_broadcast.
Woken == Blocked

Signal ==
    /\ fresh' = TRUE
    /\ IF signaled
       THEN UNCHANGED <<signaled, at, due>>
       ELSE /\ signaled' = TRUE
            /\ at' = [t \in Threads |-> IF t \in Woken THEN "woken" ELSE at[t]]
            /\ due' = due \union Blocked
    /\ UNCHANGED <<manual, consumer, late, excused, failed>>

Reset ==
    /\ signaled' = FALSE
    /\ excused' = (excused \/ \E t \in Threads : at[t] = "woken")
    /\ UNCHANGED <<manual, consumer, at, due, fresh, late, failed>>

Spurious(t) ==
    /\ t \in Blocked /\ Become(t, "woken") /\ excused' = TRUE
    /\ UNCHANGED <<manual, signaled, consumer, due, fresh, late, failed>>

TimeIsUp(t) ==
    /\ at[t] = "timed" /\ Become(t, "late")
    /\ UNCHANGED <<manual, signaled, consumer, due, fresh, late, excused, failed>>

\* pthread_cond_wait returns 0: the flag is asserted, then perhaps reset.
Resume(t) ==
    /\ at[t] = "woken" /\ Become(t, "idle")
    /\ consumer' = consumer - 1
    /\ IF signaled
       THEN ReturnTrue(t, consumer - 1) /\ UNCHANGED failed
       ELSE failed' = TRUE /\ due' = due \ {t} /\ UNCHANGED <<signaled, late, fresh>>
    /\ UNCHANGED <<manual, excused>>

\* It returns ETIMEDOUT: whatever the flag is by now, it stays.
GiveUp(t) ==
    /\ at[t] = "late" /\ Become(t, "idle")
    /\ consumer' = consumer - 1 /\ due' = due \ {t}
    /\ UNCHANGED <<manual, signaled, late, fresh, excused, failed>>

Leave(t) == Resume(t) \/ GiveUp(t)
EventNext ==
    /\ ~failed
    /\ \/ Signal \/ Reset
       \/ \E t \in Threads : Wait(t) \/ Spurious(t) \/ TimeIsUp(t) \/ Leave(t)

---------------------------------------------------------------------------
\* assert(_signaled) can only fail after a wakeup without a signal or a
\* reset() that overtakes a woken waiter (thread.cc, SyncEvent::wait).
AssertHolds == failed => excused

\* An event that resets itself stays signaled after its waiters have gone
\* only if signal() was called again, or if a waiter that had timed out was
\* still counted in _consumer: the next wait then returns at once although
\* nobody signaled (thread.cc, SyncEvent::wait).
StaleExplained ==
    (signaled /\ ~manual /\ ~fresh /\ consumer = 0) => late \/ excused
===========================================================================
