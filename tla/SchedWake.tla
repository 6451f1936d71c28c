------------------------------- MODULE SchedWake -------------------------------
(***************************************************************************)
(* How the other threads wake up a coroutine scheduler that sleeps in      *)
(* epoll_wait: they put a task into a queue (Scheduler::add_task) or set   *)
(* _stop (Scheduler::stop), and call Epoll::signal, which writes a byte to *)
(* a pipe unless _signaled says that a byte is there already.  The         *)
(* scheduler drains the pipe and clears _signaled (handle_ev_pipe), then   *)
(* takes the tasks.                                                        *)
(*                                                                         *)
(* Every access to a variable that another thread may change is a step of  *)
(* its own.                                                                *)
(***************************************************************************)
EXTENDS Integers

CONSTANTS
    Thread,     \* the threads that call go(), signal an event or stop
    MaxTask,    \* how many tasks each of them adds (a bound)
    FirstValue  \* what _signaled may be before it is first assigned

ASSUME TaskAssumption == MaxTask \in Nat
ASSUME FirstAssumption == FirstValue \subseteq BOOLEAN

Task == Thread \X (1..MaxTask)

VARIABLES
    tasks,      \* _task_cb, _task_co and _co: what the scheduler has to do
    stop,       \* Scheduler::_stop
    signaled,   \* Epoll::_signaled
    pipe,       \* number of bytes in the pipe
    event,      \* epoll has an edge of the pipe to report
    s,          \* where Scheduler::loop has got to
    pc,         \* where each thread has got to
    added,      \* number of tasks each thread has added
    stopper     \* the thread that stops the scheduler: the one to wait for it

wakeVars == <<tasks, stop, signaled, pipe, event, s, pc, added, stopper>>

TypeOK ==
    /\ tasks \subseteq Task
    /\ stop \in BOOLEAN
    /\ signaled \in BOOLEAN
    /\ pipe \in Nat
    /\ event \in BOOLEAN
    /\ s \in {"top", "wait", "drain", "clear", "take", "ended"}
    /\ pc \in [Thread -> {"idle", "cas", "write", "join", "joined"}]
    /\ added \in [Thread -> 0..MaxTask]
    /\ stopper \subseteq Thread

\* Epoll::Epoll of Linux does not assign _signaled.
WakeInit ==
    /\ tasks = {} /\ stop = FALSE /\ signaled \in FirstValue
    /\ pipe = 0 /\ event = FALSE /\ s = "top"
    /\ pc = [t \in Thread |-> "idle"]
    /\ added = [t \in Thread |-> 0]
    /\ stopper = {}

-----------------------------------------------------------------------------
\* Scheduler::add_task: the task is pushed under _task_mtx or _co_mtx.
AddTask(t) ==
    /\ pc[t] = "idle"
    /\ added[t] < MaxTask
    /\ added' = [added EXCEPT ![t] = @ + 1]
    /\ tasks' = tasks \union {<<t, added[t] + 1>>}
    /\ pc' = [pc EXCEPT ![t] = "cas"]
    /\ UNCHANGED <<stop, signaled, pipe, event, s, stopper>>

\* Mutant of Stop: the scheduler is not signalled.
StopSilent(t) ==
    /\ pc[t] = "idle"
    /\ ~stop
    /\ stop' = TRUE
    /\ stopper' = {t}
    /\ pc' = [pc EXCEPT ![t] = "join"]
    /\ UNCHANGED <<tasks, signaled, pipe, event, s, added>>

\* Scheduler::stop: atomic_swap(&_stop, true).  Only the first caller goes on
\* to signal and to wait.
Stop(t) ==
    /\ pc[t] = "idle"
    /\ ~stop
    /\ stop' = TRUE
    /\ stopper' = {t}
    /\ pc' = [pc EXCEPT ![t] = "cas"]
    /\ UNCHANGED <<tasks, signaled, pipe, event, s, added>>

\* Where a thread goes after Epoll::signal.
After(t) == IF t \in stopper THEN "join" ELSE "idle"

\* Mutant of CompareSwap: _signaled is not set.
CompareSwapNot(t) ==
    /\ pc[t] = "cas"
    /\ pc' = [pc EXCEPT ![t] = IF signaled THEN After(t) ELSE "write"]
    /\ UNCHANGED <<tasks, stop, signaled, pipe, event, s, added, stopper>>

\* Epoll::signal: the compare-and-swap of _signaled.
CompareSwap(t) ==
    /\ pc[t] = "cas"
    /\ pc' = [pc EXCEPT ![t] = IF signaled THEN After(t) ELSE "write"]
    /\ signaled' = TRUE
    /\ UNCHANGED <<tasks, stop, pipe, event, s, added, stopper>>

\* Epoll::signal: one byte is written.  The pipe is edge-triggered.
Write(t) ==
    /\ pc[t] = "write"
    /\ pc' = [pc EXCEPT ![t] = After(t)]
    /\ pipe' = pipe + 1
    /\ event' = TRUE
    /\ UNCHANGED <<tasks, stop, signaled, s, added, stopper>>

\* Scheduler::stop: _ev.wait() returns.
Join(t) ==
    /\ pc[t] = "join"
    /\ s = "ended"
    /\ pc' = [pc EXCEPT ![t] = "joined"]
    /\ UNCHANGED <<tasks, stop, signaled, pipe, event, s, added, stopper>>

-----------------------------------------------------------------------------
\* while (!_stop)
Top ==
    /\ s = "top"
    /\ s' = IF stop THEN "ended" ELSE "wait"
    /\ UNCHANGED <<tasks, stop, signaled, pipe, event, pc, added, stopper>>

\* epoll_wait returns with the pipe among its events; the loop is left at
\* once if _stop is set.
WakePipe ==
    /\ s = "wait"
    /\ event /\ pipe > 0
    /\ event' = FALSE
    /\ s' = IF stop THEN "ended" ELSE "drain"
    /\ UNCHANGED <<tasks, stop, signaled, pipe, pc, added, stopper>>

\* epoll_wait returns for another reason: a timer or a socket.
WakeOther ==
    /\ s = "wait"
    /\ s' = IF stop THEN "ended" ELSE "take"
    /\ UNCHANGED <<tasks, stop, signaled, pipe, event, pc, added, stopper>>

\* handle_ev_pipe reads until the pipe is empty.
Drain ==
    /\ s = "drain"
    /\ s' = "clear"
    /\ pipe' = 0
    /\ UNCHANGED <<tasks, stop, signaled, event, pc, added, stopper>>

\* Mutant of Clear: _signaled is not cleared.
ClearNot ==
    /\ s = "clear"
    /\ s' = "take"
    /\ UNCHANGED <<tasks, stop, signaled, pipe, event, pc, added, stopper>>

\* handle_ev_pipe: atomic_swap(&_signaled, false)
Clear ==
    /\ s = "clear"
    /\ s' = "take"
    /\ signaled' = FALSE
    /\ UNCHANGED <<tasks, stop, pipe, event, pc, added, stopper>>

\* The queues are swapped under their mutexes and what was in them is run.
Take ==
    /\ s = "take"
    /\ s' = "top"
    /\ tasks' = {}
    /\ UNCHANGED <<stop, signaled, pipe, event, pc, added, stopper>>

-----------------------------------------------------------------------------
Signaller(t) == AddTask(t) \/ Stop(t) \/ CompareSwap(t) \/ Write(t) \/ Join(t)

WakeLoop == Top \/ WakePipe \/ WakeOther \/ Drain \/ Clear \/ Take

WakeNext == WakeLoop \/ \E t \in Thread : Signaller(t)

WakeSpec == WakeInit /\ [][WakeNext]_wakeVars

-----------------------------------------------------------------------------
(***************************************************************************)
(* Properties.                                                             *)
(***************************************************************************)

\* The scheduler never sleeps on a task or on a stop with nobody about to
\* wake it: a byte with its edge is in the pipe, or a thread is still in the
\* middle of signal().
NoLostWakeup ==
    s = "wait" /\ (tasks # {} \/ stop) =>
        \/ pipe > 0 /\ event
        \/ \E t \in Thread : pc[t] \in {"cas", "write"}

\* The pipe never holds more than one byte, so that a thread in signal() is
\* never blocked by a full pipe; its write end is a blocking one.
PipeNeverFills == pipe <= 1

\* The tasks that have been added are all taken, unless the scheduler is
\* stopped; and co::stop() returns: the loop ends and the thread in stop()
\* learns of it.
LoopServes ==
    (tasks # {} \/ stopper # {}) ~>
        ((tasks = {} \/ stop) /\ \A t \in stopper : pc[t] = "joined")

-----------------------------------------------------------------------------
(***************************************************************************)
(* The inductive invariant.  _signaled is a token: while it is set, it is  *)
(* with one thread about to write, or in the pipe, or with the scheduler   *)
(* about to clear it.                                                      *)
(***************************************************************************)
Writing == {t \in Thread : pc[t] = "write"}

TokenInv ==
    /\ \A t, u \in Writing : t = u
    /\ Writing # {} => signaled /\ pipe = 0 /\ ~event /\ s \notin {"drain", "clear"}
    /\ pipe > 0 => signaled /\ (event \/ s \in {"drain", "ended"}) /\ s # "clear"
    /\ s \in {"drain", "clear"} => signaled /\ ~event
    /\ s = "drain" => pipe = 1
    /\ event => pipe > 0
    /\ signaled => Writing # {} \/ pipe > 0 \/ s = "clear"

\* What makes the scheduler's sleep safe.  Once it has taken the tasks, and
\* before it sleeps, a new one is already the business of its signaller.
SleepInv ==
    /\ s \in {"top", "wait"} /\ tasks # {} =>
          signaled \/ \E t \in Thread : pc[t] = "cas"
    /\ s = "wait" /\ stop =>
          signaled \/ \E t \in Thread : pc[t] = "cas"

IInv == TypeOK /\ TokenInv /\ SleepInv /\ PipeNeverFills

=============================================================================
