----------------------------- MODULE CoMutex -----------------------------
(* co::Mutex and co::Pool of base/co/impl/co.cc, used by coroutines of      *)
(* several schedulers.  A coroutine that finds the mutex taken queues and   *)
(* yields; unlock() hands the mutex to the first of the queue by adding it  *)
(* to the tasks of its scheduler.                                           *)
EXTENDS Naturals, Sequences, SequencesExt, FiniteSets

CONSTANTS
    Cos,      \* coroutines
    Scheds,   \* schedulers
    Home,     \* the scheduler of each coroutine
    MaxItems, \* bound: elements made for the pool
    Nobody

VARIABLES
    lock,    \* _lock
    queue,   \* _co_wait
    ready,   \* per scheduler: _task_co and the coroutines not yet started
    running, \* per scheduler: the coroutine on its stack, or Nobody
    co,      \* per coroutine: where it is
    pool,    \* per scheduler: the elements of the Pool, the last one on top
    item,    \* per coroutine: the element its Kakalot holds, 0 is none
    made     \* elements made

\* started: the coroutines there are.
MutexInit(started) ==
    /\ lock = FALSE /\ queue = <<>>
    /\ ready = [s \in Scheds |-> SetToSeq({c \in started : Home[c] = s})]
    /\ running = [s \in Scheds |-> Nobody]
    /\ co = [c \in Cos |-> "start"]
    /\ pool = [s \in Scheds |-> <<>>] /\ item = [c \in Cos |-> 0] /\ made = 0

Runs(c) == running[Home[c]] = c
To(c, l) == co' = [co EXCEPT ![c] = l]
Yield(c) == running' = [running EXCEPT ![Home[c]] = Nobody]

\* The scheduler resumes the first coroutine of its tasks.
ResumeNext(s) ==
    /\ running[s] = Nobody /\ ready[s] # <<>>
    /\ running' = [running EXCEPT ![s] = Head(ready[s])]
    /\ ready' = [ready EXCEPT ![s] = Tail(@)]
    /\ UNCHANGED <<lock, queue, co, pool, item, made>>

\* Kakalot k(pool): the top element of this scheduler's pool, or a new one.
Pop(c) ==
    LET p == pool[Home[c]] IN
    /\ Runs(c) /\ co[c] = "start" /\ To(c, "want")
    /\ IF p # <<>>
       THEN /\ item' = [item EXCEPT ![c] = Last(p)]
            /\ pool' = [pool EXCEPT ![Home[c]] = Front(p)]
            /\ UNCHANGED made
       ELSE /\ made < MaxItems /\ made' = made + 1
            /\ item' = [item EXCEPT ![c] = made'] /\ UNCHANGED pool
    /\ UNCHANGED <<lock, queue, ready, running>>

\* ~Kakalot: the element goes to the pool of the scheduler the coroutine runs in.
Push(c) ==
    /\ Runs(c) /\ co[c] = "out" /\ To(c, "start")
    /\ pool' = [pool EXCEPT ![Home[c]] = Append(@, item[c])]
    /\ item' = [item EXCEPT ![c] = 0]
    /\ Yield(c) /\ ready' = [ready EXCEPT ![Home[c]] = Append(@, c)]
    /\ UNCHANGED <<lock, queue, made>>

\* Mutant of Waits: the coroutine queues in front of the others.
WaitsFirst(c) == <<c>> \o queue

\* _co_wait.push_back(co)
Waits(c) == Append(queue, c)

\* lock(), up to the end of its critical section.
Lock(c) ==
    /\ Runs(c) /\ co[c] = "want"
    /\ IF lock THEN queue' = Waits(c) /\ To(c, "queued") /\ UNCHANGED lock
               ELSE lock' = TRUE /\ To(c, "in") /\ UNCHANGED queue
    /\ UNCHANGED <<ready, running, pool, item, made>>

\* gSched->yield() in lock(): it may already be in the tasks by then.
Park(c) ==
    /\ Runs(c) /\ co[c] = "queued" /\ Yield(c) /\ To(c, "parked")
    /\ UNCHANGED <<lock, queue, ready, pool, item, made>>

Granted(c) ==
    /\ Runs(c) /\ co[c] = "parked" /\ To(c, "in")
    /\ UNCHANGED <<lock, queue, ready, running, pool, item, made>>

\* A coroutine inside waits for something else and lets others run.
Pause(c) ==
    /\ Runs(c) /\ co[c] = "in" /\ Yield(c)
    /\ ready' = [ready EXCEPT ![Home[c]] = Append(@, c)]
    /\ UNCHANGED <<lock, queue, co, pool, item, made>>

\* Mutant of LockAfter: _lock is cleared although the mutex is handed over.
LockAfterCleared == FALSE

\* _lock stays set while somebody waits: the mutex is handed over as it is.
LockAfter == queue # <<>>

Unlock(c) ==
    /\ Runs(c) /\ co[c] = "in" /\ To(c, "out")
    /\ lock' = LockAfter
    /\ IF queue = <<>>
       THEN UNCHANGED <<queue, ready>>
       ELSE /\ queue' = Tail(queue)
            /\ ready' = [ready EXCEPT ![Home[Head(queue)]] = Append(@, Head(queue))]
    /\ UNCHANGED <<running, pool, item, made>>

\* try_lock() may be called from anywhere.  One that fails is tried again later.
TryLock(c) ==
    /\ Runs(c) /\ co[c] = "want"
    /\ IF lock THEN /\ Yield(c) /\ UNCHANGED <<lock, co>>
                    /\ ready' = [ready EXCEPT ![Home[c]] = Append(@, c)]
               ELSE lock' = TRUE /\ To(c, "in") /\ UNCHANGED <<ready, running>>
    /\ UNCHANGED <<queue, pool, item, made>>

Work(c) ==
    Pop(c) \/ Push(c) \/ Lock(c) \/ TryLock(c) \/ Park(c) \/ Granted(c) \/ Unlock(c)
MutexNext ==
    (\E s \in Scheds : ResumeNext(s)) \/ (\E c \in Cos : Work(c) \/ Pause(c))

---------------------------------------------------------------------------
Inside == {c \in Cos : co[c] = "in"}
Chosen(c) == co[c] \in {"queued", "parked"} /\ ~Contains(queue, c)

\* Two coroutines are never inside together, and none is inside while the
\* mutex is on its way to another, although lock() looks at nothing when it
\* is resumed (co.cc, MutexImpl::lock and unlock).
MutualExclusion ==
    /\ Cardinality(Inside \union {c \in Cos : Chosen(c)}) <= 1
    /\ lock <=> Inside \union {c \in Cos : Chosen(c)} # {}

\* An element is in one pool or held by one coroutine, and stays with the
\* scheduler that made it: a pool needs no lock (co.cc, PoolImpl).
PoolKeepsApart ==
    LET held(s) == {item[c] : c \in {d \in Cos : Home[d] = s /\ item[d] # 0}}
        all(s) == held(s) \union ToSet(pool[s])
    IN /\ \A s, r \in Scheds : s # r => all(s) \intersect all(r) = {}
       /\ \A s \in Scheds : Cardinality(held(s)) + Len(pool[s]) = Cardinality(all(s))
===========================================================================
