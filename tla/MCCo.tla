------------------------------- MODULE MCCo -------------------------------
(* What coroutines and threads wait for in base/: an event and a round of   *)
(* timed tasks (thread.cc), a mutex and a pool (co.cc), sockets and the     *)
(* hooks that decide whether a call waits at all.  A behaviour is about one *)
(* of them; the others stay as they start.                                  *)
EXTENDS Sockets, SyncEvent

CONSTANTS
    Subjects, Programs,
    Scheds,                                \* schedulers, of the mutex and of the hooks
    Home, MaxItems,                        \* CoMutex
    Second, Secs, Day, MaxTasks, MaxSpent, \* TaskSched
    Ms, MaxFiles, Step, MaxWait            \* Hook

VARIABLES
    subject,
    lock, queue, tasksOf, onStack, co, pool, item, made,
    tmp, tasks, added, phase, slept, i, less, ms, spent, stopping,
    file, hk, behind, opened, outcome, asked, left, waited

\* 0 is no coroutine and no scheduler, times are not negative, and programs
\* use the sockets there are.
ASSUME CoAssumption ==
    /\ \A p \in Programs : p.fds \subseteq Fds
    /\ IsFiniteSet(Threads) /\ 0 \notin Threads \union Scheds
    /\ Home \in [Threads -> Scheds]
    /\ {Ms, MaxWait} \union Secs \subseteq Nat /\ {Step, Second, Day} \subseteq Nat \ {0}

\* The coroutines that share the mutex: 1 on one scheduler, the others on another.
TwoHomes == [c \in Threads |-> IF c = 1 THEN 1 ELSE 2]

M == INSTANCE CoMutex WITH
        Cos <- Threads, Nobody <- 0, ready <- tasksOf, running <- onStack
T == INSTANCE TaskSched
H == INSTANCE Hook WITH HookScheds <- Scheds, ms <- left, slept <- waited

mutexVars == <<lock, queue, tasksOf, onStack, co, pool, item, made>>
taskVars == <<tmp, tasks, added, phase, slept, i, less, ms, spent, stopping>>
hookVars == <<file, hk, behind, opened, outcome>>
pollVars == <<asked, left, waited>>
coVars == <<subject, socketVars, eventVars, mutexVars, taskVars, hookVars, pollVars>>

---------------------------------------------------------------------------
One(fds, calls) == [cos |-> {1}, fds |-> fds, calls |-> calls]
Two(calls) == [cos |-> {1, 2}, fds |-> {3}, calls |-> calls]

\* Calls that meet on a socket, in one coroutine and in two, and on two sockets.
MeetingPrograms ==
    {Two({"recv", "send"}), Two({"sendto", "recv_ms"}), Two({"accept", "sendto_ms"}),
     Two({"poll_in_ms", "write", "shutdown"}),
     One({3}, {"recvn", "send"}), One({3}, {"recvn_ms", "send_ms"}),
     One({3}, {"read", "poll_out", "recvfrom_ms"}),
     One({3}, {"connect_ms", "write_ms", "close"}),
     One({3, 4}, {"connect", "recv", "close"}), One({3, 4}, {"poll_in", "recvfrom"}),
     One({3}, {"read_ms", "write", "poll_out_ms"})}

CoInit ==
    /\ subject \in Subjects
    /\ SocketInit(IF subject = "sockets" THEN Programs ELSE {One({}, {})})
    /\ subject # "sockets" => link = [f \in Fds |-> "new"]
    /\ EventInit(IF subject = "event" THEN BOOLEAN ELSE {TRUE})
    /\ M!MutexInit(IF subject = "mutex" THEN Threads ELSE {})
    /\ T!TaskInit(IF subject = "tasks" THEN "wait" ELSE "ended")
    /\ H!HookInit /\ H!PollInit

Socket(A) ==
    /\ subject = "sockets" /\ A
    /\ UNCHANGED <<subject, eventVars, mutexVars, taskVars, hookVars, pollVars>>
OfEvent(A) ==
    /\ subject = "event" /\ A
    /\ UNCHANGED <<subject, socketVars, mutexVars, taskVars, hookVars, pollVars>>
OfMutex(A) ==
    /\ subject = "mutex" /\ A
    /\ UNCHANGED <<subject, socketVars, eventVars, taskVars, hookVars, pollVars>>
OfTasks(A) ==
    /\ subject = "tasks" /\ A
    /\ UNCHANGED <<subject, socketVars, eventVars, mutexVars, hookVars, pollVars>>
Hooked ==
    /\ subject = "hooks" /\ H!HookNext
    /\ UNCHANGED <<subject, socketVars, eventVars, mutexVars, taskVars, pollVars>>
Polling ==
    /\ subject = "poll" /\ H!PollNext
    /\ UNCHANGED <<subject, socketVars, eventVars, mutexVars, taskVars, hookVars>>
CoNext ==
    \/ Socket(SocketNext) \/ OfEvent(EventNext) \/ OfMutex(M!MutexNext) \/ OfTasks(T!TaskNext)
    \/ Hooked \/ Polling

\* A behaviour is about one subject, so each condition is one for each: the
\* loop of sockets or tasks runs, a scheduler resumes and time passes; a thread
\* leaves its wait and a coroutine gets on; and a mutex is given back, a timer
\* has its turn and a coroutine sleeps, however often others go first.
CoFairness ==
    /\ WF_coVars(\/ Socket(Loop \/ \E c \in Cos : Back(c) \/ Try(c) \/ EndSleep(c) \/ Sleep(c))
                 \/ OfTasks(T!Loop) \/ OfMutex(M!ResumeNext(1)))
    /\ WF_coVars(OfTasks(T!Tick) \/ OfMutex(M!ResumeNext(2)))
    /\ \A t \in Threads : WF_coVars(OfEvent(~failed /\ Leave(t)) \/ OfMutex(M!Work(t)))
    /\ SF_coVars(Socket(TimeOut(1)) \/ OfMutex(M!Unlock(1)))
    /\ SF_coVars(Socket(TimeOut(2)) \/ OfMutex(M!Unlock(2)))
    /\ SF_coVars(Socket(Sleep(1)) \/ OfMutex(M!Unlock(3)))
    /\ SF_coVars(Socket(Sleep(2)))

CoSpec == CoInit /\ [][CoNext]_coVars /\ CoFairness

---------------------------------------------------------------------------
\* Nobody is let in too early or too many at once: asserts of an event hold and
\* it does not stay signaled without a cause, the mutex excludes, and a pool's
\* elements stay apart (SyncEvent, MutexImpl, PoolImpl).
LocksAreRight == AssertHolds /\ StaleExplained /\ M!MutualExclusion /\ M!PoolKeepsApart

\* Timed tasks run neither early nor late, but for the causes that TaskSched
\* names (TaskSchedImpl::_Run).
Punctual == T!Punctual

\* What the hooks hide, and how long poll waits (Hook, poll, select).
HooksAreRight == H!HookHides /\ H!PollGivesUp

\* Nobody waits for ever: signal() releases every thread it finds waiting, the
\* mutex goes round, every task is run unless the scheduler is stopped first,
\* and a call with a time limit returns (SyncEvent::signal, MutexImpl::unlock,
\* TaskSchedImpl::_Run, EvRead and EvWrite, poll).  The second and the third
\* thread, or coroutine of the mutex, are alike.
EveryoneGetsOn ==
    \A k \in 1 .. 2 :
        \/ subject = "event" /\ k \in due
        \/ subject = "mutex" /\ co[k] = "queued"
        \/ subject = "tasks" /\ T!Pending(k)
        \/ subject = "sockets" /\ Limited(k)
        ~>
        \/ subject = "event" /\ (k \notin due \/ failed)
        \/ subject = "mutex" /\ co[k] = "in"
        \/ subject = "tasks" /\ (T!Runs(k) \/ stopping # "no")
        \/ subject = "sockets" /\ ~Waits(k)
===========================================================================
