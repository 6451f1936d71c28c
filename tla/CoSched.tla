-------------------------------- MODULE CoSched --------------------------------
(***************************************************************************)
(* One coroutine scheduler (co::Scheduler): its loop, its timers, what a   *)
(* coroutine does to wait for an event (EventImpl) or for input            *)
(* (co::recv with EvRead), and the threads that signal the event.          *)
(*                                                                         *)
(* The scheduler thread runs the loop and the coroutines; the other        *)
(* threads only signal.  What the scheduler thread does is split where     *)
(* another thread can act in between.  _timed_wait is kept in the order of *)
(* its deadlines; how long a wait may last and how time passes are left    *)
(* open.  A step that would use a dangling iterator ends what the          *)
(* scheduler thread does: the program is not defined after that.           *)
(***************************************************************************)
EXTENDS Integers, Sequences, FiniteSets

CONSTANTS
    Co,         \* the coroutines of the scheduler
    Signallers, \* the threads that call Event::signal
    Program,    \* what coroutines do: sets of wait(), wait(ms), recv(fd, ms)
    MaxOp,      \* how many of these each coroutine does (a bound)
    MaxSignal,  \* how often the event is signalled (a bound)
    MaxInput    \* how often input arrives (a bound)

Nobody == "nobody"
Undefined == "undefined"    \* a dangling iterator has been used

ASSUME ProgramAssumption == Program \subseteq SUBSET {"wait", "timed", "read"}
ASSUME CountAssumption == MaxOp \in Nat /\ MaxSignal \in Nat /\ MaxInput \in Nat
ASSUME NobodyAssumption == Co \intersect {Nobody, Undefined} = {}

Absent == -1        \* a coroutine that is not a key of a map
NullTimer == 0      \* null_timer_id
Id == 1..MaxOp      \* a coroutine's n-th operation makes timer n, if any
Timer == [co : Co, id : Id]
End == [co |-> Nobody, id |-> 0]        \* _timed_wait.end()

VARIABLES
    (***********************************************************************)
    (* The scheduler.                                                      *)
    (***********************************************************************)
    phase,      \* where Scheduler::loop has got to
    running,    \* the running coroutine, Nobody, or Undefined
    batch,      \* timers or events whose coroutine the phase will resume
    ready,      \* co_ready: coroutines made ready, with the timer to erase
    timers,     \* _timed_wait
    it,         \* _it: the hint of add_timer
    reg,        \* coroutines whose fd is registered with epoll
    edge,       \* coroutines whose fd has an event for epoll_wait to return
    input,      \* coroutines whose fd has input to read
    (***********************************************************************)
    (* The coroutines.                                                     *)
    (***********************************************************************)
    ops,        \* the operations the coroutines of this program use
    at,         \* where each coroutine has got to
    op,         \* how many operations it has begun
    kind,       \* which operation it is doing
    ev,         \* Coroutine::ev
    (***********************************************************************)
    (* Shared with the signalling threads.                                 *)
    (***********************************************************************)
    coWait,     \* EventImpl::_co_wait: from coroutines to timers
    co,         \* Scheduler::_co: from coroutines to timers
    local,      \* per thread: the map it has swapped _co_wait into
    adding,     \* per thread: the entry it has made ready and not yet added
    (***********************************************************************)
    (* History.                                                            *)
    (***********************************************************************)
    signals,    \* how often the event was signalled
    inputs,     \* how often input arrived
    signalled,  \* coroutines made ready by a signal in their current wait
    expired,    \* coroutines whose own timer has expired in their wait
    answer      \* what the last operation of each coroutine returned

loopVars == <<phase, running, batch, ready>>
timerVars == <<timers, it>>
ioVars == <<reg, edge, input, inputs>>
coVars == <<at, op, kind, ev>>
signalVars == <<local, adding, signals>>
history == <<signalled, expired, answer>>
vars == <<ops, loopVars, timerVars, ioVars, coVars, coWait, co, signalVars, history>>

TimerOrNull == {Absent, NullTimer} \union Id

Empty == [c \in Co |-> Absent]
Idle == [co |-> Nobody, id |-> Absent]

\* The coroutines have been added with go() and are about to be started.
Init ==
    /\ phase = "events" /\ running = Nobody
    /\ batch = [co : Co, id : {NullTimer}]
    /\ ready = Empty /\ timers = <<>> /\ it = End
    /\ reg = {} /\ edge = {} /\ input = {}
    /\ ops \in Program
    /\ at = [c \in Co |-> "top"] /\ op = [c \in Co |-> 0]
    /\ kind = [c \in Co |-> "none"] /\ ev = [c \in Co |-> "none"]
    /\ coWait = Empty /\ co = Empty
    /\ local = [t \in Signallers |-> Empty] /\ adding = [t \in Signallers |-> Idle]
    /\ signals = 0 /\ inputs = 0 /\ signalled = {} /\ expired = {}
    /\ answer = [c \in Co |-> "none"]

-----------------------------------------------------------------------------
(***************************************************************************)
(* Timers.                                                                 *)
(***************************************************************************)

Live == {timers[n] : n \in 1..Len(timers)}
Position(t) == CHOOSE n \in 1..Len(timers) : timers[n] = t
From(n) == IF n <= Len(timers) THEN timers[n] ELSE End
Without(t) ==
    IF t \in Live
    THEN SubSeq(timers, 1, Position(t) - 1) \o SubSeq(timers, Position(t) + 1, Len(timers))
    ELSE timers

\* _timed_wait.insert: anywhere, depending on the deadline.
InsertTimer(t) ==
    \E n \in 0..Len(timers) :
        timers' = SubSeq(timers, 1, n) \o <<t>> \o SubSeq(timers, n + 1, Len(timers))

\* Scheduler::add_timer and the yield; the hint must be an iterator of the
\* multimap.
AddTimer(t) ==
    IF it \in Live \union {End}
    THEN InsertTimer(t) /\ it' = t /\ running' = Nobody
    ELSE running' = Undefined /\ UNCHANGED timerVars

\* Mutant of DelTimer: the timer is left.
DelTimerNot(t) == UNCHANGED <<timerVars, running>>

\* Scheduler::del_timer.
DelTimer(t) ==
    IF t \in Live
    THEN /\ it' = IF it = t THEN From(Position(t) + 1) ELSE it
         /\ timers' = Without(t)
         /\ UNCHANGED running
    ELSE running' = Undefined /\ UNCHANGED timerVars

-----------------------------------------------------------------------------
(***************************************************************************)
(* A running coroutine.                                                    *)
(***************************************************************************)

Own(c) == [co |-> c, id |-> op[c]]

\* The coroutine begins an operation: EventImpl::wait up to the insertion
\* into _co_wait, or co::recv up to the first call of the system's recv.
Begin(c) ==
    /\ running = c
    /\ at[c] = "top"
    /\ op[c] < MaxOp
    /\ op' = [op EXCEPT ![c] = @ + 1]
    /\ signalled' = signalled \ {c}
    /\ expired' = expired \ {c}
    /\ \E k \in ops :
          /\ kind' = [kind EXCEPT ![c] = k]
          /\ at' = [at EXCEPT ![c] = IF k = "read" THEN "try" ELSE "insert"]
          /\ ev' = [ev EXCEPT ![c] = IF k = "read" THEN @ ELSE "wait"]
          /\ IF k = "timed"
             THEN InsertTimer([co |-> c, id |-> op[c] + 1])
             ELSE UNCHANGED timers
    /\ UNCHANGED <<loopVars, it, ioVars, coWait, co, signalVars, answer>>

\* _co_wait.insert, which keeps the entry of a coroutine it already has, and
\* the yield.
Insert(c) ==
    /\ running = c
    /\ at[c] = "insert"
    /\ coWait' = [coWait EXCEPT ![c] =
          IF @ # Absent THEN @ ELSE IF kind[c] = "timed" THEN op[c] ELSE NullTimer]
    /\ at' = [at EXCEPT ![c] = "event"]
    /\ running' = Nobody
    /\ UNCHANGED <<phase, batch, ready, timerVars, ioVars, op, kind, ev, co,
                   signalVars, history>>

\* Mutant of TimedOut: _timeout is not reset after the phase.
TimedOutSticky == phase \in {"timeouts", "poll", "events"}

\* gSched->timeout()
TimedOut == phase = "timeouts"

\* EventImpl::wait after the yield; wait() has no result.
Return(c) ==
    /\ running = c
    /\ at[c] = "event"
    /\ coWait' = IF kind[c] = "timed" /\ TimedOut
                 THEN [coWait EXCEPT ![c] = Absent] ELSE coWait
    /\ ev' = [ev EXCEPT ![c] = "none"]
    /\ at' = [at EXCEPT ![c] = "top"]
    /\ answer' = [answer EXCEPT ![c] =
          IF kind[c] = "timed" /\ TimedOut THEN "false" ELSE "true"]
    /\ UNCHANGED <<loopVars, timerVars, ioVars, op, kind, co, signalVars, signalled,
                   expired>>

\* co::recv: the system's recv finds nothing.  EvRead::wait registers the fd,
\* unless that has been done in an earlier operation, and adds the timer.
TryAgain(c) ==
    /\ running = c
    /\ at[c] = "try"
    /\ c \notin input
    /\ reg' = reg \union {c}
    /\ AddTimer(Own(c))
    /\ at' = [at EXCEPT ![c] = "recv"]
    /\ UNCHANGED <<phase, batch, ready, edge, input, inputs, op, kind, ev, coWait, co,
                   signalVars, history>>

\* co::recv: there is input at once.  The fd stays registered, if it is.
TryTaken(c) ==
    /\ running = c
    /\ at[c] = "try"
    /\ c \in input
    /\ input' = input \ {c}
    /\ at' = [at EXCEPT ![c] = "top"]
    /\ answer' = [answer EXCEPT ![c] = "true"]
    /\ UNCHANGED <<loopVars, timerVars, reg, edge, inputs, op, kind, ev, coWait, co,
                   signalVars, signalled, expired>>

\* EvRead::wait returns false: the fd is not registered any more.
RecvTimeout(c) ==
    /\ running = c
    /\ at[c] = "recv"
    /\ TimedOut
    /\ reg' = reg \ {c}
    /\ edge' = edge \ {c}
    /\ at' = [at EXCEPT ![c] = "top"]
    /\ answer' = [answer EXCEPT ![c] = "false"]
    /\ UNCHANGED <<loopVars, timerVars, input, inputs, op, kind, ev, coWait, co,
                   signalVars, signalled, expired>>

\* EvRead::wait returns true, and there is input; ~EvRead deletes the timer.
RecvTaken(c) ==
    /\ running = c
    /\ at[c] = "recv"
    /\ ~TimedOut
    /\ c \in input
    /\ input' = input \ {c}
    /\ DelTimer(Own(c))
    /\ at' = [at EXCEPT ![c] = "top"]
    /\ answer' = [answer EXCEPT ![c] = "true"]
    /\ UNCHANGED <<phase, batch, ready, reg, edge, inputs, op, kind, ev, coWait, co,
                   signalVars, signalled, expired>>

\* EvRead::wait returns true, but the system's recv finds nothing: it waits
\* again, with the same timer.
RecvAgain(c) ==
    /\ running = c
    /\ at[c] = "recv"
    /\ ~TimedOut
    /\ c \notin input
    /\ running' = Nobody
    /\ UNCHANGED <<phase, batch, ready, timerVars, ioVars, coVars, coWait, co,
                   signalVars, history>>

\* A coroutine that has done its MaxOp operations stays suspended.
Rest(c) ==
    /\ running = c
    /\ at[c] = "top"
    /\ op[c] = MaxOp
    /\ running' = Nobody
    /\ UNCHANGED <<phase, batch, ready, timerVars, ioVars, coVars, coWait, co,
                   signalVars, history>>

-----------------------------------------------------------------------------
(***************************************************************************)
(* Scheduler::loop.                                                        *)
(***************************************************************************)

Events(cs) == [co : cs, id : {NullTimer}]

\* _epoll.wait returns the events there are.
Poll ==
    /\ running = Nobody
    /\ phase = "poll"
    /\ phase' = "events"
    /\ batch' = Events(edge)
    /\ edge' = {}
    /\ UNCHANGED <<running, ready, timerVars, reg, input, inputs, coVars, coWait, co,
                   signalVars, history>>

\* resume() of a coroutine of the batch.
Resume(b) ==
    /\ running = Nobody
    /\ phase \in {"events", "timeouts"}
    /\ batch' = batch \ {b}
    /\ running' = b.co
    /\ UNCHANGED <<phase, ready, timerVars, ioVars, coVars, coWait, co,
                   signalVars, history>>

BatchDone ==
    /\ running = Nobody
    /\ batch = {}
    /\ phase \in {"events", "timeouts"}
    /\ phase' = IF phase = "events" THEN "swap" ELSE "poll"
    /\ UNCHANGED <<running, batch, ready, timerVars, ioVars, coVars, coWait, co,
                   signalVars, history>>

\* _co.swap(co_ready) under _co_mtx.
Swap ==
    /\ running = Nobody
    /\ phase = "swap"
    /\ phase' = "ready"
    /\ ready' = co
    /\ co' = Empty
    /\ UNCHANGED <<running, batch, timerVars, ioVars, coVars, coWait,
                   signalVars, history>>

\* An entry of co_ready that is not ready (any more) is passed over.
PassOver(c) ==
    /\ running = Nobody
    /\ phase = "ready"
    /\ ready[c] # Absent
    /\ ev[c] # "ready"
    /\ ready' = [ready EXCEPT ![c] = Absent]
    /\ UNCHANGED <<phase, running, batch, timerVars, ioVars, coVars, coWait, co,
                   signalVars, history>>

\* Mutant of ResumeReady: null_timer_id is erased as well.
ResumeReadyEraseNull(c) ==
    /\ running = Nobody
    /\ phase = "ready"
    /\ ready[c] # Absent
    /\ ev[c] = "ready"
    /\ ready' = [ready EXCEPT ![c] = Absent]
    /\ LET t == [co |-> c, id |-> ready[c]]
       IN  IF t \in Live
           THEN timers' = Without(t) /\ running' = c
           ELSE running' = Undefined /\ UNCHANGED timers
    /\ UNCHANGED <<phase, batch, it, ioVars, coVars, coWait, co, signalVars, history>>

\* A coroutine that was signalled is resumed, and its timer erased; _it is
\* left where it is.
ResumeReady(c) ==
    /\ running = Nobody
    /\ phase = "ready"
    /\ ready[c] # Absent
    /\ ev[c] = "ready"
    /\ ready' = [ready EXCEPT ![c] = Absent]
    /\ LET t == [co |-> c, id |-> ready[c]]
       IN  IF ready[c] = NullTimer \/ t \in Live
           THEN timers' = Without(t) /\ running' = c
           ELSE running' = Undefined /\ UNCHANGED timers
    /\ UNCHANGED <<phase, batch, it, ioVars, coVars, coWait, co, signalVars, history>>

ReadyDone ==
    /\ running = Nobody
    /\ phase = "ready"
    /\ ready = Empty
    /\ phase' = "check"
    /\ UNCHANGED <<running, batch, ready, timerVars, ioVars, coVars, coWait, co,
                   signalVars, history>>

\* check_timeout: the first n timers have expired.
CheckTimeout(n) ==
    LET over == {timers[m] : m \in 1..n}
        cs == {t.co : t \in over}
    IN  /\ running = Nobody
        /\ phase = "check"
        /\ phase' = "timeouts"
        /\ batch' = over
        /\ ev' = [c \in Co |-> IF c \in cs THEN "none" ELSE ev[c]]
        /\ expired' = expired \union {t.co : t \in {u \in over : u = Own(u.co)}}
        /\ IF n > 0 /\ it \notin Live \union {End}
           THEN running' = Undefined /\ UNCHANGED timerVars
           ELSE /\ it' = IF it \in over THEN From(n + 1) ELSE it
                /\ timers' = SubSeq(timers, n + 1, Len(timers))
                /\ UNCHANGED running
        /\ UNCHANGED <<ready, ioVars, at, op, kind, coWait, co, signalVars,
                       signalled, answer>>

-----------------------------------------------------------------------------
(***************************************************************************)
(* Other threads, and the network.                                         *)
(***************************************************************************)

\* EventImpl::signal: _co_wait.swap(co_wait) under _mtx.
SignalSwap(t) ==
    /\ local[t] = Empty /\ adding[t] = Idle
    /\ signals < MaxSignal
    /\ signals' = signals + 1
    /\ local' = [local EXCEPT ![t] = coWait]
    /\ coWait' = Empty
    /\ UNCHANGED <<loopVars, timerVars, ioVars, coVars, co, adding, history>>

\* Mutant of SignalReady: only one of the coroutines is woken up.
SignalReadyOne(t, c) ==
    /\ adding[t] = Idle
    /\ local[t][c] # Absent
    /\ local' = [local EXCEPT ![t] = Empty]
    /\ IF ev[c] = "wait"
       THEN /\ ev' = [ev EXCEPT ![c] = "ready"]
            /\ adding' = [adding EXCEPT ![t] = [co |-> c, id |-> local[t][c]]]
            /\ signalled' = signalled \union {c}
       ELSE UNCHANGED <<ev, adding, signalled>>
    /\ UNCHANGED <<loopVars, timerVars, ioVars, at, op, kind, coWait, co, signals,
                   expired, answer>>

\* The compare-and-swap of ev on one of the coroutines that waited.
SignalReady(t, c) ==
    /\ adding[t] = Idle
    /\ local[t][c] # Absent
    /\ local' = [local EXCEPT ![t][c] = Absent]
    /\ IF ev[c] = "wait"
       THEN /\ ev' = [ev EXCEPT ![c] = "ready"]
            /\ adding' = [adding EXCEPT ![t] = [co |-> c, id |-> local[t][c]]]
            /\ signalled' = signalled \union {c}
       ELSE UNCHANGED <<ev, adding, signalled>>
    /\ UNCHANGED <<loopVars, timerVars, ioVars, at, op, kind, coWait, co, signals,
                   expired, answer>>

\* Mutant of SignalAdd: the coroutine is only added if nobody else is there.
SignalAddLone(t) ==
    /\ adding[t] # Idle
    /\ adding' = [adding EXCEPT ![t] = Idle]
    /\ co' = IF co = Empty THEN [co EXCEPT ![adding[t].co] = adding[t].id] ELSE co
    /\ UNCHANGED <<loopVars, timerVars, ioVars, coVars, coWait, local, signals,
                   history>>

\* Scheduler::add_task(co, id): _co.insert keeps an entry it already has.
SignalAdd(t) ==
    /\ adding[t] # Idle
    /\ adding' = [adding EXCEPT ![t] = Idle]
    /\ co' = [co EXCEPT ![adding[t].co] = IF @ = Absent THEN adding[t].id ELSE @]
    /\ UNCHANGED <<loopVars, timerVars, ioVars, coVars, coWait, local, signals,
                   history>>

\* Input arrives on the fd of a coroutine.  Epoll is edge-triggered.
Arrive(c) ==
    /\ inputs < MaxInput
    /\ inputs' = inputs + 1
    /\ input' = input \union {c}
    /\ edge' = IF c \in reg THEN edge \union {c} ELSE edge
    /\ UNCHANGED <<loopVars, timerVars, reg, coVars, coWait, co, signalVars, history>>

-----------------------------------------------------------------------------
Run(c) == Begin(c) \/ Insert(c) \/ Return(c) \/ TryAgain(c) \/ TryTaken(c)
          \/ RecvTimeout(c) \/ RecvTaken(c) \/ RecvAgain(c) \/ Rest(c)

Loop ==
    \/ Poll \/ BatchDone \/ Swap \/ ReadyDone
    \/ \E b \in batch : Resume(b)
    \/ \E c \in Co : PassOver(c) \/ ResumeReady(c)
    \/ \E n \in 0..Len(timers) : CheckTimeout(n)

Signal(t) == SignalSwap(t) \/ SignalAdd(t) \/ \E c \in Co : SignalReady(t, c)

Next ==
    /\ \/ Loop
       \/ \E c \in Co : Run(c) \/ Arrive(c)
       \/ \E t \in Signallers : Signal(t)
    /\ UNCHANGED ops

Spec == Init /\ [][Next]_vars

-----------------------------------------------------------------------------
(***************************************************************************)
(* Properties.                                                             *)
(***************************************************************************)

\* Where a coroutine that is ready can be on its way back to the scheduler.
OnTheWay(c) ==
    \/ \E t \in Signallers : adding[t].co = c
    \/ co[c] # Absent
    \/ ready[c] # Absent
    \/ running = c
    \/ \E b \in batch : b.co = c

\* A wakeup is never lost on the way: a coroutine that a signal has made
\* ready will be found by the loop, also when its timeout and a new wait
\* cross with the signal; and one that waits can be found by the next signal,
\* or by one that is on: none sleeps outside of _co_wait.
NoneStranded ==
    \A c \in Co :
        /\ running # Undefined /\ ev[c] = "ready" => OnTheWay(c)
        /\ at[c] = "event" /\ ev[c] = "wait" =>
              coWait[c] # Absent \/ \E t \in Signallers : local[t][c] # Absent

\* No coroutine waits for an event with a timeout.
Untimed == "timed" \notin ops

\* "wakeup all waiting coroutines" (co.h:88): without timed waits, every
\* coroutine in _co_wait when a thread signals goes on.
SignalWakesAll ==
    \A t \in Signallers, c \in Co :
        (Untimed /\ local[t][c] # Absent) ~> (local[t][c] = Absent /\ at[c] # "event")

\* Without timed waits, a recv(ms) that reports a timeout has waited as long
\* as its own timer said, and not for the timer of an earlier operation.
FalseMeansTimeout ==
    [][\A c \in Co : Untimed /\ at[c] = "recv" /\ at'[c] = "top" /\ answer'[c] = "false"
                        => c \in expired]_vars

\* Without timed waits, an operation that has ended leaves no timer behind: a
\* timer that is live belongs to the operation its coroutine is doing.
TimerIsOwn ==
    Untimed => \A n \in 1..Len(timers) : LET t == timers[n]
        IN  t = Own(t.co) /\ (at[t.co] # "top" \/ running = t.co)

\* Without timed waits no dangling iterator is used, whatever thread signals
\* the event at whatever time, and the hint of add_timer, which check_timeout
\* dereferences, is always live.
NoDanglingIterator == Untimed => running # Undefined /\ it \in Live \union {End}

\* Both: add_timer, del_timer and check_timeout find the timers as they left
\* them.
TimersAreRight == NoDanglingIterator /\ TimerIsOwn

\* Event::signal "can be called from anywhere" (co.h:89): whatever thread
\* calls it at whatever time, no dangling iterator is used.
SignalFromAnywhere == running # Undefined

=============================================================================
