---------------------------- MODULE TaskSched ----------------------------
(* TaskSched of base/thread.cc: a thread that wakes once a second, counts   *)
(* its tasks down and runs those that are due, one after another.  Time     *)
(* spent in the tasks is made good in whole seconds in the next round.      *)
(* Time passes in units, Second of them a second.                           *)
EXTENDS Integers, Sequences, SequencesExt, FiniteSetsExt

CONSTANTS
    Second,   \* units of time in a second
    Secs,     \* the times tasks are asked for, in seconds
    Day,      \* seconds in a day
    MaxTasks, \* bound: tasks added
    MaxSpent  \* bound: units the tasks of one round take

VARIABLES
    tmp,     \* _tmp: tasks added since the last round
    tasks,   \* _tasks
    added,   \* number of tasks added
    phase,   \* where the thread is: "wait", "scan", "fun" or "ended"
    slept,   \* units _ev.wait(1000) has lasted
    i,       \* index of the scan
    less,    \* what the round takes from the counts
    ms,      \* ms: time of the rounds before, not made good yet
    spent,   \* t.ms(): time of this round so far
    stopping \* _stop, and whether stop() has returned: "no", "asked", "done"

\* where: "wait", or "ended" for a scheduler that is not there.
TaskInit(where) ==
    /\ tmp = <<>> /\ tasks = <<>> /\ added = 0 /\ phase = where /\ slept = 0
    /\ i = 1 /\ less = 1 /\ ms = 0 /\ spent = 0 /\ stopping = "no"

\* A task, with the units since it was asked for (age), those of them that
\* went into other tasks (held), and the time the scheduler still owed then,
\* which it will count as gone by (owed).
Task(sec, period) ==
    [id |-> added + 1, sec |-> sec, period |-> period, count |-> sec,
     age |-> 0, held |-> 0, owed |-> ms + spent]

Add(task) ==
    /\ added < MaxTasks /\ phase # "ended" /\ stopping = "no"
    /\ added' = added + 1
    /\ tmp' = Append(tmp, task)
    /\ UNCHANGED <<tasks, phase, slept, i, less, ms, spent, stopping>>

RunIn(sec) == Add(Task(sec, 0))
RunEvery(sec) == Add(Task(sec, sec))

\* Seconds from a time of the day to another, today or tomorrow.
Until(now, then) == IF then < now THEN then + Day - now ELSE then - now
RunDaily(now, then) == Add(Task(Until(now, then), Day))

Older(s) ==
    [k \in DOMAIN s |-> [s[k] EXCEPT !.age = @ + 1,
                                     !.held = IF phase = "fun" THEN @ + 1 ELSE @]]

\* A unit of time passes, in the wait or in a task.
Tick ==
    /\ \/ phase = "wait" /\ slept < Second /\ slept' = slept + 1 /\ UNCHANGED spent
       \/ phase = "fun" /\ spent < MaxSpent /\ spent' = spent + 1 /\ UNCHANGED slept
    /\ tmp' = Older(tmp) /\ tasks' = Older(tasks)
    /\ UNCHANGED <<added, phase, i, less, ms, stopping>>

\* Mutant of Joined: the new tasks replace the old ones.
JoinedOnly == IF tmp = <<>> THEN tasks ELSE tmp

Joined == tasks \o tmp

\* _ev.wait(1000) is over: new tasks join, and whole seconds are made good.
Round ==
    /\ phase = "wait" /\ slept = Second /\ stopping = "no"
    /\ tasks' = Joined /\ tmp' = <<>>
    /\ less' = (ms \div Second) + 1 /\ ms' = ms % Second
    /\ phase' = "scan" /\ i' = 1 /\ spent' = 0
    /\ UNCHANGED <<added, slept, stopping>>

Scan ==
    /\ phase = "scan" /\ i <= Len(tasks)
    /\ tasks' = [tasks EXCEPT ![i].count = @ - less]
    /\ IF tasks'[i].count <= 0 THEN phase' = "fun" /\ UNCHANGED i
                               ELSE i' = i + 1 /\ UNCHANGED phase
    /\ UNCHANGED <<tmp, added, slept, less, ms, spent, stopping>>

\* Mutant of Drop: the index goes on over the task that was moved.
DropNext == tasks' = Front([tasks EXCEPT ![i] = Last(tasks)]) /\ i' = i + 1

\* The last task takes the place of the one that is done, and is next.
Drop == tasks' = Front([tasks EXCEPT ![i] = Last(tasks)]) /\ UNCHANGED i

\* A task has run: it is counted anew, or deleted.
Ran ==
    /\ phase = "fun" /\ phase' = "scan"
    /\ IF tasks[i].period > 0
       THEN /\ tasks' = [tasks EXCEPT ![i].count = tasks[i].period, ![i].sec = tasks[i].period,
                                      ![i].age = 0, ![i].held = 0, ![i].owed = ms + spent]
            /\ i' = i + 1
       ELSE Drop
    /\ UNCHANGED <<tmp, added, slept, less, ms, spent, stopping>>

RoundEnd ==
    /\ phase = "scan" /\ i > Len(tasks)
    /\ ms' = ms + spent /\ spent' = 0
    /\ phase' = "wait" /\ slept' = 0
    /\ UNCHANGED <<tmp, tasks, added, i, less, stopping>>

\* stop(), by another thread: a round that has begun is finished first.
Stop ==
    /\ stopping = "no" /\ phase # "ended" /\ stopping' = "asked"
    /\ UNCHANGED <<tmp, tasks, added, phase, slept, i, less, ms, spent>>

End ==
    /\ phase = "wait" /\ stopping = "asked" /\ phase' = "ended"
    /\ UNCHANGED <<tmp, tasks, added, slept, i, less, ms, spent, stopping>>

StopReturns ==
    /\ phase = "ended" /\ stopping = "asked" /\ stopping' = "done"
    /\ tasks' = <<>> /\ tmp' = <<>>
    /\ UNCHANGED <<added, phase, slept, i, less, ms, spent>>

Loop == Round \/ Scan \/ Ran \/ RoundEnd \/ End \/ StopReturns
TaskNext ==
    \/ Loop \/ Tick \/ Stop
    \/ \E sec \in Secs : RunIn(sec) \/ RunEvery(sec)
    \/ \E now, then \in 0 .. Day - 1 : RunDaily(now, then)

---------------------------------------------------------------------------
Due == phase = "fun" /\ spent = 0

\* A task does not run more than a second early - plus the time the tasks of
\* a round had already taken when it was asked for, which the scheduler
\* counts as if the new task had waited through it - nor does it wait longer
\* than it asked for, the time other tasks take and one round left aside
\* (thread.cc, TaskSchedImpl::_Run).
Punctual ==
    Due => LET t == tasks[i] IN
           /\ t.age + Second + t.owed >= t.sec * Second
           /\ t.age - t.held <= Max({t.sec, 1}) * Second

Pending(k) == \E t \in ToSet(tmp \o tasks) : t.id = k
Runs(k) == phase = "fun" /\ tasks[i].id = k
===========================================================================
