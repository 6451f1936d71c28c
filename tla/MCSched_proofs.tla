---------------------------- MODULE MCSched_proofs ----------------------------
(***************************************************************************)
(* The two sides of a coroutine scheduler.                                 *)
(*                                                                         *)
(* SchedWake, for any number of threads and tasks: no wakeup is lost and   *)
(* the pipe never holds more than one byte.  The argument is that          *)
(* _signaled is a token (TokenInv).  A thread that finds it taken need not *)
(* write: the scheduler has not yet cleared it, and will look at the       *)
(* queues after it has (SleepInv).                                         *)
(*                                                                         *)
(* CoSched, for any number of coroutines, operations, signals and inputs:  *)
(* a wakeup goes from hand to hand (Coming) and a sleeper can be found     *)
(* (Findable), whatever is timed; without timed waits each live timer is   *)
(* that of a recv() under way (TimerInv).                                  *)
(***************************************************************************)
EXTENDS MCSched, SequenceTheorems, TLAPS

\* The constructor is taken to clear _signaled, as that of Windows does.
Cleared == FirstValue = {FALSE}

LEMMA TypeInit == WakeInit => TypeOK
<1> SUFFICES ASSUME WakeInit PROVE TypeOK
  OBVIOUS
<1>1. signaled \in BOOLEAN
  BY FirstAssumption DEF WakeInit
<1>2. added \in [Thread -> 0..MaxTask]
  BY TaskAssumption DEF WakeInit
<1> QED BY <1>1, <1>2 DEF WakeInit, TypeOK

LEMMA TypeStep == TypeOK /\ [WakeNext]_wakeVars => TypeOK'
<1> SUFFICES ASSUME TypeOK, [WakeNext]_wakeVars PROVE TypeOK'
  OBVIOUS
<1> USE TaskAssumption DEF TypeOK, Task
<1>1. CASE UNCHANGED wakeVars
  BY <1>1 DEF wakeVars
<1>2. ASSUME NEW t \in Thread, AddTask(t) PROVE TypeOK'
  <2>1. added[t] + 1 \in 1..MaxTask
    BY <1>2 DEF AddTask
  <2>2. tasks' \subseteq Task
    BY <1>2, <2>1 DEF AddTask
  <2> QED BY <1>2, <2>1, <2>2 DEF AddTask
<1>3. ASSUME NEW t \in Thread, Stop(t) PROVE TypeOK'
  BY <1>3 DEF Stop
<1>4. ASSUME NEW t \in Thread, CompareSwap(t) PROVE TypeOK'
  BY <1>4 DEF CompareSwap, After
<1>5. ASSUME NEW t \in Thread, Write(t) PROVE TypeOK'
  BY <1>5 DEF Write, After
<1>6. ASSUME NEW t \in Thread, Join(t) PROVE TypeOK'
  BY <1>6 DEF Join
<1>7. CASE Top
  BY <1>7 DEF Top
<1>8. CASE WakePipe
  BY <1>8 DEF WakePipe
<1>9. CASE WakeOther
  BY <1>9 DEF WakeOther
<1>10. CASE Drain
  BY <1>10 DEF Drain
<1>11. CASE Clear
  BY <1>11 DEF Clear
<1>12. CASE Take
  BY <1>12 DEF Take
<1> QED
  BY <1>1, <1>2, <1>3, <1>4, <1>5, <1>6, <1>7, <1>8, <1>9, <1>10, <1>11, <1>12
  DEF WakeNext, WakeLoop, Signaller

\* Every variable of the wakeup path keeps its type (epoll.h, scheduler.h).
THEOREM TypeCorrect == WakeSpec => []TypeOK
<1>1. WakeInit => TypeOK
  BY TypeInit
<1>2. TypeOK /\ [WakeNext]_wakeVars => TypeOK'
  BY TypeStep
<1> QED BY <1>1, <1>2, PTL DEF WakeSpec

-----------------------------------------------------------------------------
LEMMA TokenInit == ASSUME Cleared PROVE WakeInit => TokenInv
BY DEF Cleared, WakeInit, TokenInv, Writing

LEMMA TokenStep == TypeOK /\ TokenInv /\ PipeNeverFills /\ [WakeNext]_wakeVars
                       => TokenInv' /\ PipeNeverFills'
<1> SUFFICES ASSUME TypeOK, TokenInv, PipeNeverFills, [WakeNext]_wakeVars
             PROVE TokenInv' /\ PipeNeverFills'
  OBVIOUS
<1> USE DEF TypeOK, TokenInv, PipeNeverFills, Writing
<1>1. CASE UNCHANGED wakeVars
  BY <1>1 DEF wakeVars
<1>2. ASSUME NEW t \in Thread, AddTask(t) PROVE TokenInv' /\ PipeNeverFills'
  BY <1>2 DEF AddTask
<1>3. ASSUME NEW t \in Thread, Stop(t) PROVE TokenInv' /\ PipeNeverFills'
  BY <1>3 DEF Stop
<1>4. ASSUME NEW t \in Thread, CompareSwap(t) PROVE TokenInv' /\ PipeNeverFills'
  <2>1. CASE signaled
    BY <1>4, <2>1 DEF CompareSwap, After
  <2>2. CASE ~signaled
    <3>1. Writing = {} /\ pipe = 0 /\ ~event /\ s \notin {"drain", "clear"}
      BY <2>2
    <3>2. Writing' = {t}
      BY <1>4, <2>2, <3>1 DEF CompareSwap
    <3> QED BY <1>4, <2>2, <3>1, <3>2 DEF CompareSwap
  <2> QED BY <2>1, <2>2
<1>5. ASSUME NEW t \in Thread, Write(t) PROVE TokenInv' /\ PipeNeverFills'
  <2>1. Writing = {t} /\ signaled /\ pipe = 0 /\ ~event /\ s \notin {"drain", "clear"}
    BY <1>5 DEF Write
  <2>2. Writing' = {}
    BY <1>5, <2>1 DEF Write, After
  <2> QED BY <1>5, <2>1, <2>2 DEF Write
<1>6. ASSUME NEW t \in Thread, Join(t) PROVE TokenInv' /\ PipeNeverFills'
  BY <1>6 DEF Join
<1>7. CASE Top
  BY <1>7 DEF Top
<1>8. CASE WakePipe
  BY <1>8 DEF WakePipe
<1>9. CASE WakeOther
  BY <1>9 DEF WakeOther
<1>10. CASE Drain
  BY <1>10 DEF Drain
<1>11. CASE Clear
  BY <1>11 DEF Clear
<1>12. CASE Take
  BY <1>12 DEF Take
<1> QED
  BY <1>1, <1>2, <1>3, <1>4, <1>5, <1>6, <1>7, <1>8, <1>9, <1>10, <1>11, <1>12
  DEF WakeNext, WakeLoop, Signaller

LEMMA SleepStep == TypeOK /\ SleepInv /\ [WakeNext]_wakeVars => SleepInv'
<1> SUFFICES ASSUME TypeOK, SleepInv, [WakeNext]_wakeVars PROVE SleepInv'
  OBVIOUS
<1> USE DEF TypeOK, SleepInv
<1>1. CASE UNCHANGED wakeVars
  BY <1>1 DEF wakeVars
<1>2. ASSUME NEW t \in Thread, AddTask(t) PROVE SleepInv'
  <2>1. pc'[t] = "cas"
    BY <1>2 DEF AddTask
  <2> QED BY <2>1
<1>3. ASSUME NEW t \in Thread, Stop(t) PROVE SleepInv'
  <2>1. pc'[t] = "cas"
    BY <1>3 DEF Stop
  <2> QED BY <2>1
<1>4. ASSUME NEW t \in Thread, CompareSwap(t) PROVE SleepInv'
  BY <1>4 DEF CompareSwap
<1>5. ASSUME NEW t \in Thread, Write(t) PROVE SleepInv'
  <2>1. \A u \in Thread : pc[u] = "cas" => pc'[u] = "cas"
    BY <1>5 DEF Write
  <2> QED BY <1>5, <2>1 DEF Write
<1>6. ASSUME NEW t \in Thread, Join(t) PROVE SleepInv'
  BY <1>6 DEF Join
<1>7. CASE Top
  BY <1>7 DEF Top
<1> QED
  BY <1>1, <1>2, <1>3, <1>4, <1>5, <1>6, <1>7
  DEF WakeNext, WakeLoop, Signaller, WakePipe, WakeOther, Drain, Clear, Take

-----------------------------------------------------------------------------
LEMMA Inductive == ASSUME Cleared PROVE WakeSpec => []IInv
<1>1. WakeInit => IInv
  <2> SUFFICES ASSUME WakeInit PROVE IInv
    OBVIOUS
  <2>1. SleepInv /\ PipeNeverFills
    BY DEF WakeInit, SleepInv, PipeNeverFills
  <2> QED BY <2>1, TypeInit, TokenInit DEF IInv
<1>2. IInv /\ [WakeNext]_wakeVars => IInv'
  BY TypeStep, TokenStep, SleepStep DEF IInv
<1> QED BY <1>1, <1>2, PTL DEF WakeSpec

\* If the constructor clears _signaled, the token invariant holds, for any
\* number of threads (epoll.cc handle_ev_pipe, epoll.h signal).
THEOREM Correct == ASSUME FirstValue = {FALSE} PROVE WakeSpec => []IInv
BY Inductive DEF Cleared

\* The scheduler never sleeps on a task or on a stop with nobody about to
\* wake it, whatever the threads do between add_task and the write.
THEOREM NoLostWakeupHolds == ASSUME FirstValue = {FALSE} PROVE WakeSpec => []NoLostWakeup
<1>1. IInv => NoLostWakeup
  BY DEF IInv, TypeOK, TokenInv, SleepInv, NoLostWakeup, Writing
<1> QED BY Correct, <1>1, PTL

\* The pipe never holds more than one byte: the write in Epoll::signal does
\* not block.
THEOREM PipeNeverFillsHolds == ASSUME FirstValue = {FALSE} PROVE WakeSpec => []PipeNeverFills
<1>1. IInv => PipeNeverFills
  BY DEF IInv
<1> QED BY Correct, <1>1, PTL

-----------------------------------------------------------------------------
(***************************************************************************)
(* CoSched, for any number of coroutines, operations, signals and inputs.  *)
(***************************************************************************)
Elements(q) == {q[n] : n \in 1..Len(q)}
Once(q) == \A m, n \in 1..Len(q) : q[m] = q[n] => m = n

Maps == [Co -> TimerOrNull]
Entry == [co : Co, id : {NullTimer} \union Id]

WaitsTyped ==
    /\ ops \subseteq {"wait", "timed", "read"}
    /\ phase \in {"poll", "events", "swap", "ready", "check", "timeouts"}
    /\ running \in Co \union {Nobody, Undefined}
    /\ batch \subseteq Entry /\ timers \in Seq(Timer) /\ reg \subseteq Co /\ edge \subseteq Co
    /\ at \in [Co -> {"top", "insert", "event", "try", "recv"}]
    /\ op \in [Co -> 0..MaxOp] /\ \A c \in Co : at[c] # "top" => op[c] \in Id
    /\ kind \in [Co -> ops \union {"none"}] /\ ev \in [Co -> {"none", "wait", "ready"}]
    /\ coWait \in Maps /\ co \in Maps /\ ready \in Maps
    /\ local \in [Signallers -> Maps] /\ adding \in [Signallers -> Entry \union {Idle}]
    /\ expired \subseteq Co /\ answer \in [Co -> {"none", "true", "false"}]

\* A coroutine that has something to do is running; it has its event set only
\* in wait().
Suspended == \A c \in Co : at[c] \in {"insert", "try"} => running = c
InWait == \A c \in Co : ev[c] # "none" => at[c] \in {"insert", "event"}
\* co_ready is emptied before it takes the next _co.
ReadyTaken == phase # "ready" => ready = Empty
\* A coroutine that is ready is on its way, or has just been resumed from it.
Sent(c) == (\E t \in Signallers : adding[t].co = c) \/ co[c] # Absent \/ ready[c] # Absent
Coming == running # Undefined =>
    \A c \in Co : ev[c] = "ready" => Sent(c) \/ (running = c /\ at[c] = "event")
Findable == \A c \in Co : at[c] = "event" /\ ev[c] = "wait" =>
    coWait[c] # Absent \/ \E t \in Signallers : local[t][c] # Absent

StrandInv == WaitsTyped /\ Suspended /\ InWait /\ ReadyTaken /\ Coming /\ Findable

\* Without timed waits nobody who waits for the event has a timer ...
NoTimers ==
    /\ \A c \in Co : /\ coWait[c] \in {Absent, NullTimer} /\ co[c] \in {Absent, NullTimer}
                     /\ ready[c] \in {Absent, NullTimer}
                     /\ \A t \in Signallers : local[t][c] \in {Absent, NullTimer}
    /\ \A t \in Signallers : adding[t].id \in {Absent, NullTimer}
\* ... each live timer is that of a recv() under way, and there once ...
OwnTimers ==
    /\ \A t \in Live : t = Own(t.co) /\ at[t.co] = "recv"
    /\ Once(timers)
\* ... and each recv() has its timer, until that has expired.
HasTimer == \A c \in Co : at[c] = "recv" =>
    Own(c) \in Live \/ (phase = "timeouts" /\ (Own(c) \in batch \/ running = c))
Expiring == phase = "timeouts" =>
    /\ \A b \in batch : /\ b = Own(b.co) /\ at[b.co] = "recv" /\ b.co \in expired
                        /\ running # b.co /\ b \notin Live
    /\ \A c \in Co : running = c /\ at[c] = "recv" => c \in expired /\ Own(c) \notin Live

TimerInv ==
    /\ NoTimers /\ running # Undefined /\ it \in Live \union {End}
    /\ OwnTimers /\ HasTimer /\ Expiring

WaitsInv == StrandInv /\ (Untimed => TimerInv)

-----------------------------------------------------------------------------
(***************************************************************************)
(* Sequences without repetition.                                           *)
(***************************************************************************)
LEMMA InsertAt ==
  ASSUME NEW S, NEW q \in Seq(S), NEW e \in S, NEW n \in 0..Len(q)
  PROVE  LET r == SubSeq(q, 1, n) \o <<e>> \o SubSeq(q, n + 1, Len(q))
         IN  /\ r \in Seq(S) /\ Elements(r) = Elements(q) \union {e}
             /\ Once(q) /\ e \notin Elements(q) => Once(r)
<1> DEFINE a == SubSeq(q, 1, n)
           z == SubSeq(q, n + 1, Len(q))
           r == a \o <<e>> \o z
<1>0. Len(q) \in Nat /\ \A k \in 1..Len(q) : q[k] \in S
  BY LenProperties
<1>1. a \in Seq(S) /\ Len(a) = n /\ \A k \in 1..n : a[k] = q[k]
  <2>1. \A k \in 1..n : q[k] \in S
    BY <1>0
  <2> QED
    BY <1>0, <2>1, SubSeqProperties
<1>2. z \in Seq(S) /\ Len(z) = Len(q) - n /\ \A k \in 1..(Len(q) - n) : z[k] = q[n + k]
  <2>1. \A k \in (n + 1)..Len(q) : q[k] \in S
    BY <1>0
  <2>2. /\ z \in Seq(S) /\ Len(z) = (IF n + 1 <= Len(q) THEN Len(q) - (n + 1) + 1 ELSE 0)
        /\ \A k \in 1..(Len(q) - (n + 1) + 1) : z[k] = q[(n + 1) + k - 1]
    BY <1>0, <2>1, SubSeqProperties
  <2> QED
    BY <1>0, <2>2
<1>3. /\ <<e>> \in Seq(S) /\ Len(<<e>>) = 1 /\ <<e>>[1] = e
  OBVIOUS
<1> HIDE DEF a, z
<1>4. /\ a \o <<e>> \in Seq(S) /\ Len(a \o <<e>>) = n + 1
      /\ \A k \in 1..(n + 1) : (a \o <<e>>)[k] = IF k <= n THEN q[k] ELSE e
  BY <1>0, <1>1, <1>3, ConcatProperties
<1>5. /\ r \in Seq(S) /\ Len(r) = Len(q) + 1
      /\ \A k \in 1..(Len(q) + 1) : r[k] = IF k <= n THEN q[k] ELSE IF k = n + 1 THEN e ELSE q[k - 1]
  <2>1. /\ r \in Seq(S) /\ Len(r) = (n + 1) + (Len(q) - n)
        /\ \A k \in 1..((n + 1) + (Len(q) - n)) :
              r[k] = IF k <= n + 1 THEN (a \o <<e>>)[k] ELSE z[k - (n + 1)]
    <3> DEFINE b == a \o <<e>>
    <3>1. /\ b \o z \in Seq(S) /\ Len(b \o z) = Len(b) + Len(z)
          /\ \A k \in 1..Len(b) + Len(z) : (b \o z)[k] = IF k <= Len(b) THEN b[k] ELSE z[k - Len(b)]
      <4> HIDE DEF b
      <4>1. b \in Seq(S)
        BY <1>4 DEF b
      <4> QED
        BY <1>2, <4>1, ConcatProperties
    <3>2. Len(b) = n + 1 /\ Len(z) = Len(q) - n
      BY <1>2, <1>4
    <3> HIDE DEF b
    <3>3. r = b \o z
      BY DEF b
    <3>4. /\ r \in Seq(S) /\ Len(r) = (n + 1) + (Len(q) - n)
          /\ \A k \in 1..((n + 1) + (Len(q) - n)) : r[k] = IF k <= n + 1 THEN b[k] ELSE z[k - (n + 1)]
      <4> HIDE DEF r
      <4> QED
        BY <3>1, <3>2, <3>3
    <3> QED
      BY <3>4 DEF b
  <2>2. ASSUME NEW k \in 1..(Len(q) + 1), k > n + 1
        PROVE  z[k - (n + 1)] = q[k - 1]
    <3>1. k - (n + 1) \in 1..(Len(q) - n) /\ n + (k - (n + 1)) = k - 1
      BY <1>0, <2>2
    <3> QED
      BY <1>2, <3>1
  <2> QED
    BY <1>0, <1>4, <2>1, <2>2
<1> HIDE DEF r
<1>6. Elements(r) = Elements(q) \union {e}
  <2>1. ASSUME NEW k \in 1..Len(r) PROVE r[k] \in Elements(q) \union {e}
    BY <1>0, <1>5 DEF Elements
  <2>2. r[n + 1] = e /\ n + 1 \in 1..Len(r)
    BY <1>0, <1>5
  <2>3. ASSUME NEW k \in 1..Len(q) PROVE \E m \in 1..Len(r) : r[m] = q[k]
    <3>1. CASE k <= n
      BY <1>0, <1>5, <3>1
    <3>2. CASE k > n
      <4>1. k + 1 \in 1..Len(r) /\ r[k + 1] = q[k]
        BY <1>0, <1>5, <3>2
      <4> QED
        BY <4>1
    <3> QED
      BY <1>0, <3>1, <3>2
  <2>4. e \in Elements(r) /\ \A k \in 1..Len(q) : q[k] \in Elements(r)
    BY <2>2, <2>3 DEF Elements
  <2> QED
    BY <2>1, <2>4 DEF Elements
<1>7. ASSUME Once(q), e \notin Elements(q) PROVE Once(r)
  <2>1. \A k \in 1..Len(q) : q[k] # e
    BY <1>7 DEF Elements
  <2> SUFFICES ASSUME NEW k \in 1..Len(r), NEW m \in 1..Len(r), k < m, r[k] = r[m] PROVE FALSE
    BY <1>0, <1>5 DEF Once
  <2>3. CASE k = n + 1
    BY <1>0, <1>5, <2>1, <2>3
  <2>4. CASE m = n + 1
    BY <1>0, <1>5, <2>1, <2>4
  <2>5. CASE k # n + 1 /\ m # n + 1
    <3>1. PICK j \in 1..Len(q) : r[k] = q[j] /\ j = IF k <= n THEN k ELSE k - 1
      <4> QED
        BY <1>0, <1>5, <2>5
    <3>2. PICK h \in 1..Len(q) : r[m] = q[h] /\ h = IF m <= n THEN m ELSE m - 1
      <4> QED
        BY <1>0, <1>5, <2>5
    <3>3. j = h
      BY <1>7, <3>1, <3>2 DEF Once
    <3> QED
      BY <2>5, <3>1, <3>2, <3>3
  <2> QED
    BY <2>3, <2>4, <2>5
<1> QED
  BY <1>5, <1>6, <1>7 DEF r, a, z

LEMMA DropFirst ==
  ASSUME NEW S, NEW q \in Seq(S), NEW n \in 0..Len(q)
  PROVE  LET r == SubSeq(q, n + 1, Len(q))
         IN  /\ r \in Seq(S) /\ Len(r) = Len(q) - n
             /\ \A k \in 1..(Len(q) - n) : r[k] = q[n + k]
<1> DEFINE r == SubSeq(q, n + 1, Len(q))
<1>1. Len(q) \in Nat /\ \A k \in (n + 1)..Len(q) : q[k] \in S
  BY LenProperties
<1>2. /\ r \in Seq(S) /\ Len(r) = (IF n + 1 <= Len(q) THEN Len(q) - (n + 1) + 1 ELSE 0)
      /\ \A k \in 1..(Len(q) - (n + 1) + 1) : r[k] = q[(n + 1) + k - 1]
  BY <1>1, SubSeqProperties
<1> QED
  BY <1>1, <1>2

LEMMA RemoveAt ==
  ASSUME NEW S, NEW q \in Seq(S), NEW n \in 1..Len(q)
  PROVE  LET r == SubSeq(q, 1, n - 1) \o SubSeq(q, n + 1, Len(q))
         IN  /\ r \in Seq(S) /\ Elements(r) \subseteq Elements(q)
             /\ Once(q) => Once(r) /\ Elements(r) = Elements(q) \ {q[n]}
<1> DEFINE a == SubSeq(q, 1, n - 1)
           z == SubSeq(q, n + 1, Len(q))
           r == a \o z
<1>0. Len(q) \in Nat /\ \A k \in 1..Len(q) : q[k] \in S
  BY LenProperties
<1>1. a \in Seq(S) /\ Len(a) = n - 1 /\ \A k \in 1..(n - 1) : a[k] = q[k]
  <2>1. n - 1 \in Int /\ \A k \in 1..(n - 1) : q[k] \in S
    BY <1>0
  <2>2. /\ a \in Seq(S) /\ Len(a) = (IF 1 <= n - 1 THEN (n - 1) - 1 + 1 ELSE 0)
        /\ \A k \in 1..((n - 1) - 1 + 1) : a[k] = q[1 + k - 1]
    BY <1>0, <2>1, SubSeqProperties
  <2> QED
    BY <1>0, <2>2
<1>2. z \in Seq(S) /\ Len(z) = Len(q) - n /\ \A k \in 1..(Len(q) - n) : z[k] = q[n + k]
  BY <1>0, DropFirst
<1> HIDE DEF a, z
<1>3. /\ r \in Seq(S) /\ Len(r) = Len(q) - 1
      /\ \A k \in 1..(Len(q) - 1) : r[k] = IF k < n THEN q[k] ELSE q[k + 1]
  <2>1. /\ r \in Seq(S) /\ Len(r) = (n - 1) + (Len(q) - n)
        /\ \A k \in 1..((n - 1) + (Len(q) - n)) : r[k] = IF k <= n - 1 THEN a[k] ELSE z[k - (n - 1)]
    <3>1. /\ a \o z \in Seq(S) /\ Len(a \o z) = Len(a) + Len(z)
          /\ \A k \in 1..Len(a) + Len(z) : (a \o z)[k] = IF k <= Len(a) THEN a[k] ELSE z[k - Len(a)]
      BY <1>1, <1>2, ConcatProperties
    <3>2. r = a \o z
      OBVIOUS
    <3> HIDE DEF r
    <3> QED
      BY <1>1, <1>2, <3>1, <3>2
  <2>2. ASSUME NEW k \in 1..(Len(q) - 1), k >= n
        PROVE  z[k - (n - 1)] = q[k + 1]
    <3>1. k - (n - 1) \in 1..(Len(q) - n) /\ n + (k - (n - 1)) = k + 1
      BY <1>0, <2>2
    <3> QED
      BY <1>2, <3>1
  <2> HIDE DEF r
  <2>3. ASSUME NEW k \in 1..(Len(q) - 1), k < n
        PROVE  r[k] = q[k]
    <3>1. k \in 1..((n - 1) + (Len(q) - n)) /\ k <= n - 1 /\ k \in 1..(n - 1)
      BY <1>0, <2>3
    <3> QED
      BY <1>1, <2>1, <3>1
  <2>4. ASSUME NEW k \in 1..(Len(q) - 1), k >= n
        PROVE  r[k] = q[k + 1]
    <3>1. k \in 1..((n - 1) + (Len(q) - n)) /\ ~(k <= n - 1)
      BY <1>0, <2>4
    <3> QED
      BY <2>1, <2>2, <2>4, <3>1
  <2>5. Len(r) = Len(q) - 1 /\ r \in Seq(S)
    BY <1>0, <2>1
  <2> QED
    BY <1>0, <2>3, <2>4, <2>5
<1> HIDE DEF r
<1>4. \A k \in 1..Len(r) : r[k] \in Elements(q)
  <2>1. ASSUME NEW k \in 1..Len(r)
        PROVE  \E m \in 1..Len(q) : m # n /\ r[k] = q[m]
    <3>1. CASE k < n
      BY <1>0, <1>3, <3>1
    <3>2. CASE k >= n
      <4>1. k + 1 \in 1..Len(q) /\ k + 1 # n /\ r[k] = q[k + 1]
        BY <1>0, <1>3, <3>2
      <4> QED
        BY <4>1
    <3> QED
      BY <1>0, <3>1, <3>2
  <2> QED
    BY <2>1, <1>0, SMTT(20) DEF Elements
<1>5. ASSUME Once(q) PROVE Once(r) /\ Elements(r) = Elements(q) \ {q[n]}
  <2>1. Once(r)
    BY <1>0, <1>3, <1>5 DEF Once
  <2>2. \A k \in 1..Len(r) : r[k] # q[n]
    BY <1>0, <1>3, <1>5 DEF Once
  <2>3. ASSUME NEW m \in 1..Len(q), m # n PROVE \E k \in 1..Len(r) : r[k] = q[m]
    <3>1. CASE m < n
      BY <1>0, <1>3, <3>1
    <3>2. CASE m > n
      <4>1. m - 1 \in 1..Len(r) /\ r[m - 1] = q[m]
        BY <1>0, <1>3, <3>2
      <4> QED
        BY <4>1
    <3> QED
      BY <1>0, <2>3, <3>1, <3>2
  <2>4. \A m \in 1..Len(q) : q[m] # q[n] => q[m] \in Elements(r)
    BY <2>3 DEF Elements
  <2> QED
    BY <1>4, <2>1, <2>2, <2>4 DEF Elements
<1>6. Elements(r) \subseteq Elements(q)
  BY <1>4 DEF Elements
<1> QED
  BY <1>3, <1>5, <1>6 DEF r, a, z

-----------------------------------------------------------------------------
(***************************************************************************)
(* What the operations on _timed_wait do to it.                            *)
(***************************************************************************)
LEMMA InsertTimerIs ==
  ASSUME timers \in Seq(Timer), NEW t \in Timer, InsertTimer(t)
  PROVE  /\ timers' \in Seq(Timer) /\ Live' = Live \union {t}
         /\ Once(timers) /\ t \notin Live => Once(timers')
<1>1. PICK n \in 0..Len(timers) :
         timers' = SubSeq(timers, 1, n) \o <<t>> \o SubSeq(timers, n + 1, Len(timers))
  BY DEF InsertTimer
<1>2. Live = Elements(timers) /\ Live' = Elements(timers')
  BY DEF Live, Elements
<1> DEFINE r == SubSeq(timers, 1, n) \o <<t>> \o SubSeq(timers, n + 1, Len(timers))
<1>3. /\ r \in Seq(Timer) /\ Elements(r) = Elements(timers) \union {t}
      /\ Once(timers) /\ t \notin Elements(timers) => Once(r)
  BY InsertAt
<1>4. timers' = r
  BY <1>1
<1> HIDE DEF r
<1> QED
  BY <1>2, <1>3, <1>4

LEMMA WithoutIs ==
  ASSUME timers \in Seq(Timer), NEW t
  PROVE  /\ Without(t) \in Seq(Timer) /\ Elements(Without(t)) \subseteq Live
         /\ Once(timers) => Once(Without(t)) /\ Elements(Without(t)) = Live \ {t}
<1>1. Live = Elements(timers)
  BY DEF Live, Elements
<1>2. CASE t \in Live
  <2>1. Position(t) \in 1..Len(timers) /\ timers[Position(t)] = t
    BY <1>2 DEF Live, Position
  <2>2. Without(t) = SubSeq(timers, 1, Position(t) - 1)
                       \o SubSeq(timers, Position(t) + 1, Len(timers))
    BY <1>2 DEF Without
  <2> QED
    BY <1>1, <2>1, <2>2, RemoveAt
<1>3. CASE t \notin Live
  BY <1>1, <1>3 DEF Without
<1> QED
  BY <1>2, <1>3

\* After the first n timers have been taken.
LEMMA CutIs ==
  ASSUME timers \in Seq(Timer), NEW n \in 0..Len(timers)
  PROVE  LET r == SubSeq(timers, n + 1, Len(timers))
             over == {timers[m] : m \in 1..n}
         IN  /\ r \in Seq(Timer) /\ over \subseteq Live /\ Elements(r) \union over = Live
             /\ Once(timers) => Once(r) /\ over \intersect Elements(r) = {}
             /\ From(n + 1) \in Elements(r) \union {End}
<1> DEFINE r == SubSeq(timers, n + 1, Len(timers))
           over == {timers[m] : m \in 1..n}
<1>1. /\ r \in Seq(Timer) /\ Len(r) = Len(timers) - n /\ Len(timers) \in Nat
      /\ \A k \in 1..(Len(timers) - n) : r[k] = timers[n + k]
  BY DropFirst, LenProperties
<1> HIDE DEF r
<1>2. Elements(r) = {timers[m] : m \in (n + 1)..Len(timers)}
  <2>1. ASSUME NEW k \in 1..Len(r) PROVE r[k] \in {timers[m] : m \in (n + 1)..Len(timers)}
    <3>1. n + k \in (n + 1)..Len(timers) /\ r[k] = timers[n + k]
      BY <1>1
    <3> QED
      BY <3>1
  <2>2. ASSUME NEW m \in (n + 1)..Len(timers) PROVE timers[m] \in Elements(r)
    <3>1. m - n \in 1..Len(r) /\ r[m - n] = timers[m]
      BY <1>1
    <3> QED
      BY <3>1 DEF Elements
  <2> QED
    BY <2>1, <2>2 DEF Elements
<1>3. over \subseteq Live /\ Elements(r) \union over = Live
  <2>1. 1..n \union (n + 1)..Len(timers) = 1..Len(timers)
    BY <1>1
  <2> QED
    BY <1>2, <2>1 DEF Live
<1>4. ASSUME Once(timers) PROVE Once(r) /\ over \intersect Elements(r) = {}
  <2>1. ASSUME NEW k \in 1..Len(r), NEW m \in 1..Len(r), r[k] = r[m] PROVE k = m
    <3>1. n + k \in 1..Len(timers) /\ n + m \in 1..Len(timers) /\ timers[n + k] = timers[n + m]
      BY <1>1, <2>1
    <3>2. n + k = n + m
      BY <1>4, <3>1 DEF Once
    <3> QED
      BY <1>1, <3>2
  <2>2. ASSUME NEW k \in 1..n, NEW m \in (n + 1)..Len(timers) PROVE timers[k] # timers[m]
    <3>1. k \in 1..Len(timers) /\ m \in 1..Len(timers) /\ k # m
      BY <1>1
    <3> QED
      BY <1>4, <3>1 DEF Once
  <2>3. Once(r)
    BY <2>1 DEF Once
  <2> QED
    BY <1>2, <2>2, <2>3
<1>5. From(n + 1) \in Elements(r) \union {End}
  <2>1. CASE n + 1 <= Len(timers)
    BY <1>1, <1>2, <2>1 DEF From
  <2>2. CASE ~(n + 1 <= Len(timers))
    BY <2>2 DEF From
  <2> QED
    BY <2>1, <2>2
<1> QED
  BY <1>1, <1>3, <1>4, <1>5 DEF r

-----------------------------------------------------------------------------
\* Own(c), once c has begun an operation.
LEMMA OwnIs ==
  ASSUME WaitsTyped, NEW c \in Co
  PROVE  /\ at[c] # "top" => Own(c) \in Timer
         /\ Own(c).co = c /\ Own(c).id = op[c]
BY DEF WaitsTyped, Own, Timer

LEMMA LiveIs == WaitsTyped => Live \subseteq Timer /\ \A t \in Live : t.co \in Co
<1> SUFFICES ASSUME WaitsTyped PROVE Live \subseteq Timer /\ \A t \in Live : t.co \in Co
  OBVIOUS
<1>1. Live \subseteq Timer
  BY LenProperties DEF WaitsTyped, Live
<1> QED
  BY <1>1 DEF Timer

LEMMA NamesAre == Nobody \notin Co /\ Undefined \notin Co /\ Nobody # Undefined
BY NobodyAssumption DEF Nobody, Undefined

\* The values of the scheduler and of the event keep their types.
LEMMA RunTyped ==
  ASSUME WaitsTyped, NEW c \in Co, Run(c), UNCHANGED ops
  PROVE  WaitsTyped'
<1> USE DEF loopVars, timerVars, ioVars, coVars, signalVars, history
<1>0. /\ MaxOp \in Nat /\ NullTimer \in TimerOrNull /\ Absent \in TimerOrNull
      /\ Nobody \in Co \union {Nobody, Undefined} /\ Undefined \in Co \union {Nobody, Undefined}
      /\ Id \subseteq TimerOrNull
  BY CountAssumption DEF TimerOrNull
<1>1. CASE Begin(c)
  <2>1. op[c] + 1 \in Id /\ op[c] + 1 \in 0..MaxOp /\ op' = [op EXCEPT ![c] = @ + 1]
    BY <1>0, <1>1 DEF Begin, WaitsTyped, Id
  <2>2. PICK k \in ops :
          /\ kind' = [kind EXCEPT ![c] = k]
          /\ at' = [at EXCEPT ![c] = IF k = "read" THEN "try" ELSE "insert"]
          /\ ev' = [ev EXCEPT ![c] = IF k = "read" THEN @ ELSE "wait"]
          /\ IF k = "timed" THEN InsertTimer([co |-> c, id |-> op[c] + 1]) ELSE UNCHANGED timers
    BY <1>1 DEF Begin
  <2>3. timers' \in Seq(Timer)
    <3>1. [co |-> c, id |-> op[c] + 1] \in Timer
      BY <2>1 DEF Timer
    <3> QED
      BY <2>2, <3>1, InsertTimerIs DEF WaitsTyped
  <2>4. at' \in [Co -> {"top", "insert", "event", "try", "recv"}]
    BY <2>2 DEF WaitsTyped
  <2>5. op' \in [Co -> 0..MaxOp] /\ \A d \in Co : at'[d] # "top" => op'[d] \in Id
    BY <2>1, <2>2 DEF WaitsTyped
  <2>6. kind' \in [Co -> ops \union {"none"}] /\ ev' \in [Co -> {"none", "wait", "ready"}]
    BY <2>2 DEF WaitsTyped
  <2>7. expired' \subseteq Co /\ UNCHANGED <<phase, running, batch, ready, reg, edge, coWait, co, local, adding, answer>>
    BY <1>1 DEF Begin, WaitsTyped
  <2> QED
    BY <2>3, <2>4, <2>5, <2>6, <2>7 DEF WaitsTyped
<1>2. CASE Insert(c)
  <2>1. coWait' \in Maps
    BY <1>0, <1>2 DEF Insert, WaitsTyped, Maps
  <2>2. at' \in [Co -> {"top", "insert", "event", "try", "recv"}]
        /\ \A d \in Co : at'[d] # "top" => op[d] \in Id
    BY <1>2 DEF Insert, WaitsTyped
  <2> QED
    BY <1>0, <1>2, <2>1, <2>2 DEF Insert, WaitsTyped
<1>3. CASE Return(c)
  <2>1. coWait' \in Maps
    BY <1>0, <1>3 DEF Return, WaitsTyped, Maps
  <2>2. at' \in [Co -> {"top", "insert", "event", "try", "recv"}]
        /\ \A d \in Co : at'[d] # "top" => op[d] \in Id
    BY <1>3 DEF Return, WaitsTyped
  <2>3. ev' \in [Co -> {"none", "wait", "ready"}] /\ answer' \in [Co -> {"none", "true", "false"}]
    BY <1>3 DEF Return, WaitsTyped
  <2> QED
    BY <1>3, <2>1, <2>2, <2>3 DEF Return, WaitsTyped
<1>4. CASE TryAgain(c)
  <2>1. timers' \in Seq(Timer) /\ running' \in Co \union {Nobody, Undefined}
    <3>1. Own(c) \in Timer /\ timers \in Seq(Timer)
      BY <1>4, OwnIs DEF TryAgain, WaitsTyped
    <3> QED
      BY <1>0, <1>4, <3>1, InsertTimerIs DEF TryAgain, AddTimer, WaitsTyped
  <2>2. at' \in [Co -> {"top", "insert", "event", "try", "recv"}]
        /\ \A d \in Co : at'[d] # "top" => op[d] \in Id
    BY <1>4 DEF TryAgain, WaitsTyped
  <2> QED
    BY <1>4, <2>1, <2>2 DEF TryAgain, WaitsTyped
<1>5. CASE TryTaken(c) \/ RecvTimeout(c)
  <2>1. at' \in [Co -> {"top", "insert", "event", "try", "recv"}]
        /\ \A d \in Co : at'[d] # "top" => op[d] \in Id
    BY <1>5 DEF TryTaken, RecvTimeout, WaitsTyped
  <2>2. answer' \in [Co -> {"none", "true", "false"}]
    BY <1>5 DEF TryTaken, RecvTimeout, WaitsTyped
  <2> QED
    BY <1>5, <2>1, <2>2 DEF TryTaken, RecvTimeout, WaitsTyped
<1>6. CASE RecvTaken(c)
  <2>1. timers' \in Seq(Timer) /\ running' \in Co \union {Nobody, Undefined}
    BY <1>0, <1>6, WithoutIs DEF RecvTaken, DelTimer, WaitsTyped
  <2>2. at' \in [Co -> {"top", "insert", "event", "try", "recv"}]
        /\ \A d \in Co : at'[d] # "top" => op[d] \in Id
    BY <1>6 DEF RecvTaken, WaitsTyped
  <2>3. answer' \in [Co -> {"none", "true", "false"}]
    BY <1>6 DEF RecvTaken, WaitsTyped
  <2> QED
    BY <1>6, <2>1, <2>2, <2>3 DEF RecvTaken, WaitsTyped
<1>7. CASE RecvAgain(c) \/ Rest(c)
  BY <1>0, <1>7 DEF RecvAgain, Rest, WaitsTyped
<1> QED
  BY <1>1, <1>2, <1>3, <1>4, <1>5, <1>6, <1>7 DEF Run

LEMMA LoopTyped ==
  ASSUME WaitsTyped, Loop, UNCHANGED ops
  PROVE  WaitsTyped'
<1> USE DEF loopVars, timerVars, ioVars, coVars, signalVars, history
<1>0. /\ Absent \in TimerOrNull /\ Empty \in Maps
      /\ Nobody \in Co \union {Nobody, Undefined} /\ Undefined \in Co \union {Nobody, Undefined}
  BY DEF TimerOrNull, Maps, Empty
<1>1. CASE Poll
  <2>1. batch' \subseteq Entry
    <3>1. batch' = [co : edge, id : {NullTimer}] /\ edge \subseteq Co
      BY <1>1 DEF Poll, Events, WaitsTyped
    <3> QED
      BY <3>1 DEF Entry
  <2> QED
    BY <1>1, <2>1 DEF Poll, WaitsTyped
<1>2. CASE BatchDone \/ Swap \/ ReadyDone
  BY <1>0, <1>2 DEF BatchDone, Swap, ReadyDone, WaitsTyped
<1>3. ASSUME NEW b \in batch, Resume(b) PROVE WaitsTyped'
  <2>1. running' \in Co
    BY <1>3 DEF Resume, WaitsTyped, Entry
  <2> QED
    BY <1>3, <2>1 DEF Resume, WaitsTyped
<1>4. ASSUME NEW c \in Co, PassOver(c) PROVE WaitsTyped'
  BY <1>0, <1>4 DEF PassOver, WaitsTyped, Maps
<1>5. ASSUME NEW c \in Co, ResumeReady(c) PROVE WaitsTyped'
  <2>1. timers' \in Seq(Timer) /\ running' \in Co \union {Nobody, Undefined}
    BY <1>0, <1>5, WithoutIs DEF ResumeReady, WaitsTyped
  <2>2. ready' \in Maps
    BY <1>0, <1>5 DEF ResumeReady, WaitsTyped, Maps
  <2> QED
    BY <1>5, <2>1, <2>2 DEF ResumeReady, WaitsTyped
<1>6. ASSUME NEW n \in 0..Len(timers), CheckTimeout(n) PROVE WaitsTyped'
  <2> DEFINE over == {timers[m] : m \in 1..n}
  <2>1. over \subseteq Timer /\ SubSeq(timers, n + 1, Len(timers)) \in Seq(Timer)
    <3>1. \A m \in 1..n : timers[m] \in Timer
      BY LenProperties DEF WaitsTyped
    <3> QED
      BY <3>1, CutIs DEF WaitsTyped
  <2>2. batch' = over /\ over \subseteq Entry
    BY <1>6, <2>1 DEF CheckTimeout, Entry, Timer
  <2>3. ev' \in [Co -> {"none", "wait", "ready"}]
    BY <1>6 DEF CheckTimeout, WaitsTyped
  <2>4. expired' \subseteq Co
    <3>1. \A u \in over : u.co \in Co
      BY <2>1 DEF Timer
    <3>2. expired' = expired \union {t.co : t \in {u \in over : u = Own(u.co)}}
      BY <1>6 DEF CheckTimeout
    <3> HIDE DEF over
    <3> QED
      BY <3>1, <3>2 DEF WaitsTyped
  <2>5. timers' \in Seq(Timer) /\ running' \in Co \union {Nobody, Undefined} /\ phase' = "timeouts"
    BY <1>0, <1>6, <2>1 DEF CheckTimeout, WaitsTyped
  <2>6. UNCHANGED <<ready, reg, edge, at, op, kind, coWait, co, local, adding, answer>>
    BY <1>6 DEF CheckTimeout
  <2> HIDE DEF over
  <2> QED
    BY <2>2, <2>3, <2>4, <2>5, <2>6 DEF WaitsTyped
<1> QED
  BY <1>1, <1>2, <1>3, <1>4, <1>5, <1>6 DEF Loop

LEMMA OutsideTyped ==
  ASSUME WaitsTyped, UNCHANGED ops,
         (\E t \in Signallers : Signal(t)) \/ \E c \in Co : Arrive(c)
  PROVE  WaitsTyped'
<1> USE DEF loopVars, timerVars, ioVars, coVars, signalVars, history
<1>0. /\ Absent \in TimerOrNull /\ Empty \in Maps /\ TimerOrNull \ {Absent} \subseteq {NullTimer} \union Id
      /\ {NullTimer} \union Id \subseteq TimerOrNull
  BY DEF TimerOrNull, Maps, Empty
<1>1. ASSUME NEW t \in Signallers, SignalSwap(t) PROVE WaitsTyped'
  BY <1>0, <1>1 DEF SignalSwap, WaitsTyped
<1>2. ASSUME NEW t \in Signallers, NEW c \in Co, SignalReady(t, c) PROVE WaitsTyped'
  <2>1. local' \in [Signallers -> Maps]
    BY <1>0, <1>2 DEF SignalReady, WaitsTyped, Maps
  <2>2. [co |-> c, id |-> local[t][c]] \in Entry
    BY <1>0, <1>2 DEF SignalReady, WaitsTyped, Maps, Entry
  <2>3. adding' \in [Signallers -> Entry \union {Idle}]
    <3>1. adding' \in {adding, [adding EXCEPT ![t] = [co |-> c, id |-> local[t][c]]]}
      BY <1>2 DEF SignalReady
    <3>2. adding \in [Signallers -> Entry \union {Idle}]
      BY DEF WaitsTyped
    <3> HIDE DEF WaitsTyped
    <3> QED
      BY <2>2, <3>1, <3>2
  <2>4. ev' \in [Co -> {"none", "wait", "ready"}]
    BY <1>2, SMTT(20) DEF SignalReady, WaitsTyped
  <2> QED
    BY <1>2, <2>1, <2>3, <2>4, SMTT(20) DEF SignalReady, WaitsTyped
<1>3. ASSUME NEW t \in Signallers, SignalAdd(t) PROVE WaitsTyped'
  <2>1. adding[t].co \in Co /\ adding[t].id \in {NullTimer} \union Id
    BY <1>3 DEF SignalAdd, WaitsTyped, Entry
  <2>2. co' \in Maps
    BY <1>0, <1>3, <2>1 DEF SignalAdd, WaitsTyped, Maps
  <2> QED
    BY <1>3, <2>2 DEF SignalAdd, WaitsTyped
<1>4. ASSUME NEW c \in Co, Arrive(c) PROVE WaitsTyped'
  BY <1>4 DEF Arrive, WaitsTyped
<1> QED
  BY <1>1, <1>2, <1>3, <1>4 DEF Signal

-----------------------------------------------------------------------------
(***************************************************************************)
(* Nobody is stranded, whatever the coroutines do.                         *)
(***************************************************************************)
Strands == Suspended /\ InWait /\ ReadyTaken /\ Coming /\ Findable

LEMMA RunStrands ==
  ASSUME StrandInv, NEW c \in Co, Run(c)
  PROVE  Strands'
<1> USE NamesAre DEF loopVars, timerVars, ioVars, coVars, signalVars, history,
          StrandInv, WaitsTyped
<1>0. /\ running = c /\ UNCHANGED <<phase, ready, co, local, adding>>
      /\ running' \in {c, Nobody, Undefined}
      /\ \A d \in Co \ {c} : at'[d] = at[d] /\ ev'[d] = ev[d] /\ coWait'[d] = coWait[d]
  BY DEF Run, Begin, Insert, Return, TryAgain, TryTaken, RecvTimeout, RecvTaken, RecvAgain, Rest,
         AddTimer, DelTimer, Maps
<1>1. ReadyTaken'
  BY <1>0 DEF ReadyTaken
<1>2. \A d \in Co : Sent(d)' <=> Sent(d)
  BY <1>0 DEF Sent
<1>3. /\ at'[c] \in {"insert", "try"} => running' = c
      /\ ev'[c] # "none" => at'[c] \in {"insert", "event"}
      /\ at'[c] = "event" /\ ev'[c] = "wait" => coWait'[c] # Absent
      /\ running' # Undefined /\ ev'[c] = "ready" => Sent(c)
  <2>1. CASE Begin(c)
    <3>1. PICK k \in ops :
            /\ at' = [at EXCEPT ![c] = IF k = "read" THEN "try" ELSE "insert"]
            /\ ev' = [ev EXCEPT ![c] = IF k = "read" THEN @ ELSE "wait"]
      BY <2>1 DEF Begin
    <3>2. ev[c] = "none" /\ running' = c
      BY <2>1 DEF Begin, InWait
    <3> QED
      BY <3>1, <3>2
  <2>2. CASE Insert(c)
    <3>1. /\ running' = Nobody /\ at'[c] = "event" /\ ev' = ev /\ at[c] = "insert"
          /\ ev[c] = "ready" => Sent(c)
      BY <1>0, <2>2 DEF Insert, Coming
    <3>2. coWait'[c] # Absent
      <4>1. op[c] # Absent /\ NullTimer # Absent
        BY <3>1, CountAssumption DEF Absent, NullTimer, Id
      <4> QED
        BY <2>2, <4>1 DEF Insert, Maps
    <3> QED
      BY <3>1, <3>2
  <2>3. CASE Return(c)
    BY <2>3 DEF Return
  <2>4. CASE TryAgain(c)
    <3>1. ev[c] = "none" /\ at'[c] = "recv" /\ ev' = ev
      BY <2>4 DEF TryAgain, InWait
    <3> QED
      BY <3>1
  <2>5. CASE TryTaken(c) \/ RecvTimeout(c) \/ RecvTaken(c)
    <3>1. ev[c] = "none" /\ at'[c] = "top" /\ ev' = ev
      BY <2>5 DEF TryTaken, RecvTimeout, RecvTaken, InWait
    <3> QED
      BY <3>1
  <2>6. CASE RecvAgain(c) \/ Rest(c)
    <3>1. ev[c] = "none" /\ at' = at /\ at[c] \in {"recv", "top"} /\ ev' = ev
      BY <2>6 DEF RecvAgain, Rest, InWait
    <3> QED
      BY <3>1
  <2> QED
    BY <2>1, <2>2, <2>3, <2>4, <2>5, <2>6 DEF Run
<1>4. Suspended'
  BY <1>0, <1>3 DEF Suspended
<1>5. InWait'
  BY <1>0, <1>3 DEF InWait
<1>6. Coming'
  BY <1>0, <1>2, <1>3 DEF Coming
<1>7. Findable'
  BY <1>0, <1>3, SMTT(30) DEF Findable
<1> QED
  BY <1>1, <1>4, <1>5, <1>6, <1>7 DEF Strands

LEMMA LoopStrands ==
  ASSUME StrandInv, Loop
  PROVE  Strands'
<1> USE NamesAre DEF loopVars, timerVars, ioVars, coVars, signalVars, history,
          StrandInv, WaitsTyped
<1>0. /\ running = Nobody /\ UNCHANGED <<at, coWait, local, adding>>
      /\ \A c \in Co : at[c] \notin {"insert", "try"}
      /\ \A c \in Co : ev[c] = "ready" => Sent(c) /\ at[c] = "event"
  <2>1. running = Nobody /\ UNCHANGED <<at, coWait, local, adding>>
    BY DEF Loop, Poll, BatchDone, Swap, ReadyDone, Resume, PassOver, ResumeReady, CheckTimeout
  <2> QED
    BY <2>1 DEF Suspended, InWait, Coming
<1>1. Suspended'
  BY <1>0 DEF Suspended
<1>2. ASSUME UNCHANGED ev PROVE InWait' /\ Findable'
  BY <1>0, <1>2 DEF InWait, Findable
<1>3. CASE Poll \/ BatchDone
  <2>1. ReadyTaken'
    BY <1>3 DEF Poll, BatchDone, ReadyTaken
  <2>2. Coming'
    BY <1>0, <1>3 DEF Poll, BatchDone, Coming, Sent
  <2> QED
    BY <1>1, <1>2, <1>3, <2>1, <2>2 DEF Poll, BatchDone, Strands
<1>4. CASE Swap
  <2>1. ReadyTaken'
    BY <1>4 DEF Swap, ReadyTaken
  <2>2. \A c \in Co : Sent(c) => Sent(c)'
    BY <1>4 DEF Swap, Sent, ReadyTaken, Empty
  <2>3. Coming'
    BY <1>0, <1>4, <2>2 DEF Swap, Coming
  <2> QED
    BY <1>1, <1>2, <1>4, <2>1, <2>3 DEF Swap, Strands
<1>5. CASE ReadyDone
  <2>1. ReadyTaken' /\ Coming'
    BY <1>0, <1>5 DEF ReadyDone, ReadyTaken, Coming, Sent
  <2> QED
    BY <1>1, <1>2, <1>5, <2>1 DEF ReadyDone, Strands
<1>6. ASSUME NEW b \in batch, Resume(b) PROVE Strands'
  <2>1. ReadyTaken' /\ Coming'
    BY <1>0, <1>6 DEF Resume, ReadyTaken, Coming, Sent
  <2> QED
    BY <1>1, <1>2, <1>6, <2>1 DEF Resume, Strands
<1>7. ASSUME NEW c \in Co, PassOver(c) \/ ResumeReady(c) PROVE Strands'
  <2>1. /\ phase = "ready" /\ UNCHANGED <<phase, ev, co>>
        /\ \A d \in Co \ {c} : ready'[d] = ready[d]
        /\ ev[c] # "ready" \/ running' \in {c, Undefined}
    BY <1>7 DEF PassOver, ResumeReady, Maps
  <2>2. ReadyTaken'
    BY <2>1 DEF ReadyTaken
  <2>3. \A d \in Co \ {c} : Sent(d) => Sent(d)'
    BY <1>0, <2>1 DEF Sent
  <2>4. Coming'
    BY <1>0, <2>1, <2>3 DEF Coming
  <2> QED
    BY <1>1, <1>2, <2>1, <2>2, <2>4 DEF Strands
<1>8. ASSUME NEW n \in 0..Len(timers), CheckTimeout(n) PROVE Strands'
  <2>1. /\ phase = "check" /\ phase' = "timeouts" /\ UNCHANGED <<ready, co>>
        /\ \A c \in Co : ev'[c] \in {ev[c], "none"}
    BY <1>8 DEF CheckTimeout
  <2>2. ReadyTaken'
    BY <2>1 DEF ReadyTaken
  <2>3. \A c \in Co : Sent(c)' <=> Sent(c)
    BY <1>0, <2>1 DEF Sent
  <2>4. Coming'
    BY <1>0, <2>1, <2>3 DEF Coming
  <2>5. InWait' /\ Findable'
    BY <1>0, <2>1 DEF InWait, Findable
  <2> QED
    BY <1>1, <2>2, <2>4, <2>5 DEF Strands
<1> QED
  BY <1>3, <1>4, <1>5, <1>6, <1>7, <1>8 DEF Loop

LEMMA OutsideStrands ==
  ASSUME StrandInv, (\E t \in Signallers : Signal(t)) \/ \E c \in Co : Arrive(c)
  PROVE  Strands'
<1> USE NamesAre DEF loopVars, timerVars, ioVars, coVars, signalVars, history,
          StrandInv, WaitsTyped
<1>0. UNCHANGED <<phase, running, ready, at>> /\ Suspended' /\ ReadyTaken'
  BY DEF Signal, SignalSwap, SignalReady, SignalAdd, Arrive, Suspended, ReadyTaken
<1>1. ASSUME NEW t \in Signallers, SignalSwap(t) PROVE Strands'
  <2>1. /\ UNCHANGED <<ev, co, adding>> /\ local'[t] = coWait /\ local[t] = Empty
        /\ \A u \in Signallers \ {t} : local'[u] = local[u]
    BY <1>1 DEF SignalSwap
  <2>2. InWait' /\ Coming'
    BY <1>0, <2>1 DEF InWait, Coming, Sent
  <2>3. ASSUME NEW c \in Co, coWait[c] # Absent \/ \E u \in Signallers : local[u][c] # Absent
        PROVE  \E u \in Signallers : local'[u][c] # Absent
    <3>1. CASE coWait[c] # Absent
      BY <2>1, <3>1
    <3>2. ASSUME NEW u \in Signallers, local[u][c] # Absent
          PROVE  \E w \in Signallers : local'[w][c] # Absent
      <4>1. local[t][c] = Absent
        BY <2>1 DEF Empty
      <4>2. u # t /\ local'[u] = local[u]
        BY <2>1, <3>2, <4>1
      <4> QED
        BY <3>2, <4>2
    <3> QED
      BY <2>3, <3>1, <3>2
  <2>4. Findable'
    BY <1>0, <2>1, <2>3 DEF Findable
  <2> QED
    BY <1>0, <2>2, <2>4 DEF Strands
<1>2. ASSUME NEW t \in Signallers, NEW c \in Co, SignalReady(t, c) PROVE Strands'
  <2>1. /\ adding[t] = Idle /\ UNCHANGED <<co, coWait>>
        /\ \A u \in Signallers, d \in Co : d # c => local'[u][d] = local[u][d]
        /\ \A u \in Signallers \ {t} : adding'[u] = adding[u]
        /\ \A d \in Co \ {c} : ev'[d] = ev[d]
    BY <1>2 DEF SignalReady, Maps
  <2>2. \/ ev[c] = "wait" /\ ev'[c] = "ready" /\ adding'[t].co = c
        \/ ev[c] # "wait" /\ ev' = ev /\ adding' = adding
    BY <1>2 DEF SignalReady
  <2>3. \A d \in Co : Sent(d) => Sent(d)'
    <3>1. adding[t].co \notin Co
      BY <2>1 DEF Idle
    <3>2. \A d \in Co, u \in Signallers : adding[u].co = d => adding'[u].co = d
      BY <2>1, <3>1
    <3> QED
      BY <1>0, <2>1, <3>2 DEF Sent
  <2>4. ev'[c] = "ready" /\ ev[c] # "ready" => Sent(c)'
    BY <2>2 DEF Sent
  <2>5. InWait'
    BY <1>0, <2>1, <2>2 DEF InWait
  <2>6. Coming'
    BY <1>0, <2>1, <2>2, <2>3, <2>4 DEF Coming
  <2>7. Findable'
    <3>1. \A d \in Co : ev'[d] = "wait" => d # c /\ ev[d] = "wait"
      BY <2>1, <2>2
    <3>2. ASSUME NEW d \in Co, d # c, coWait[d] # Absent \/ \E u \in Signallers : local[u][d] # Absent
          PROVE  coWait'[d] # Absent \/ \E u \in Signallers : local'[u][d] # Absent
      <4>1. coWait'[d] = coWait[d] /\ \A u \in Signallers : local'[u][d] = local[u][d]
        BY <2>1, <3>2
      <4> QED
        BY <3>2, <4>1
    <3> QED
      BY <1>0, <3>1, <3>2 DEF Findable
  <2> QED
    BY <1>0, <2>5, <2>6, <2>7 DEF Strands
<1>3. ASSUME NEW t \in Signallers, SignalAdd(t) PROVE Strands'
  <2>1. /\ adding[t].co \in Co /\ adding[t].id # Absent
        /\ UNCHANGED <<ev, coWait, local>>
        /\ \A u \in Signallers \ {t} : adding'[u] = adding[u]
    <3>1. adding[t] \in Entry /\ Absent \notin {NullTimer} \union Id
      BY <1>3, CountAssumption DEF SignalAdd, Absent, NullTimer, Id
    <3>2. adding[t].co \in Co /\ adding[t].id # Absent
      BY <3>1 DEF Entry
    <3> QED
      BY <1>3, <3>2 DEF SignalAdd
  <2>2. \A d \in Co : Sent(d) => Sent(d)'
    <3>1. /\ co'[adding[t].co] # Absent
          /\ \A d \in Co : co[d] # Absent => co'[d] # Absent
      BY <1>3, <2>1 DEF SignalAdd, Maps
    <3> QED
      BY <1>0, <2>1, <3>1 DEF Sent
  <2>3. InWait' /\ Findable'
    BY <1>0, <2>1 DEF InWait, Findable
  <2>4. Coming'
    BY <1>0, <2>1, <2>2 DEF Coming
  <2> QED
    BY <1>0, <2>3, <2>4 DEF Strands
<1>4. ASSUME NEW c \in Co, Arrive(c) PROVE Strands'
  <2>1. InWait' /\ Findable' /\ Coming'
    BY <1>0, <1>4 DEF Arrive, InWait, Findable, Coming, Sent
  <2> QED
    BY <1>0, <2>1 DEF Strands
<1> QED
  BY <1>1, <1>2, <1>3, <1>4 DEF Signal

LEMMA StrandStart == Init => StrandInv
<1> SUFFICES ASSUME Init PROVE StrandInv
  OBVIOUS
<1> USE NamesAre, CountAssumption, ProgramAssumption DEF Init
<1>1. WaitsTyped
  <2>1. batch \subseteq Entry
    BY DEF Entry
  <2>2. /\ Empty \in Maps /\ Idle \in Entry \union {Idle} /\ <<>> \in Seq(Timer)
        /\ ops \subseteq {"wait", "timed", "read"} /\ 0 \in 0..MaxOp
    BY DEF Empty, Maps, TimerOrNull
  <2> QED
    BY <2>1, <2>2 DEF WaitsTyped
<1>2. Suspended /\ InWait /\ ReadyTaken /\ Coming /\ Findable
  BY DEF Suspended, InWait, ReadyTaken, Coming, Findable
<1> QED
  BY <1>1, <1>2 DEF StrandInv

LEMMA StrandStep == StrandInv /\ [Next]_vars => StrandInv'
<1> SUFFICES ASSUME StrandInv, [Next]_vars PROVE StrandInv'
  OBVIOUS
<1>1. CASE UNCHANGED vars
  BY <1>1 DEF vars, loopVars, timerVars, ioVars, coVars, signalVars, history, StrandInv, WaitsTyped,
              Suspended, InWait, ReadyTaken, Coming, Sent, Findable
<1>2. CASE Next
  <2>1. WaitsTyped'
    BY <1>2, RunTyped, LoopTyped, OutsideTyped DEF Next, StrandInv
  <2>2. Strands'
    BY <1>2, RunStrands, LoopStrands, OutsideStrands DEF Next
  <2> QED
    BY <2>1, <2>2 DEF StrandInv, Strands
<1> QED
  BY <1>1, <1>2

-----------------------------------------------------------------------------
(***************************************************************************)
(* Without timed waits the timers are those of the recv() under way.       *)
(***************************************************************************)
\* A running coroutine that has no timer, and makes none, disturbs none.
LEMMA NoneDisturbed ==
  ASSUME StrandInv, TimerInv, NEW c \in Co,
         running = c, running' \in {c, Nobody}, UNCHANGED <<timers, it, phase, batch>>,
         at'[c] # "recv", \A t \in Live : t.co # c,
         \A d \in Co \ {c} : at'[d] = at[d] /\ op'[d] = op[d],
         expired \ {c} \subseteq expired'
  PROVE  /\ running' # Undefined /\ it' \in Live' \union {End}
         /\ OwnTimers' /\ HasTimer' /\ Expiring'
<1>1. running' # Undefined
  BY NamesAre
<1>2. Live' = Live /\ Live \subseteq Timer /\ it' \in Live' \union {End}
  <2>1. Live' = Live
    BY DEF Live
  <2>2. Live \subseteq Timer
    BY LiveIs DEF StrandInv
  <2> QED
    BY <2>1, <2>2 DEF TimerInv
<1>3. \A d \in Co \ {c} : Own(d)' = Own(d)
  BY DEF Own
<1>4. OwnTimers'
  <2>1. ASSUME NEW t \in Live PROVE t = Own(t.co)' /\ at'[t.co] = "recv"
    <3>1. t.co \in Co \ {c} /\ t = Own(t.co) /\ at[t.co] = "recv"
      BY <1>2 DEF TimerInv, OwnTimers, Timer
    <3> QED
      BY <1>3, <3>1
  <2> QED
    BY <1>2, <2>1 DEF TimerInv, OwnTimers, Once
<1>5. HasTimer'
  <2> SUFFICES ASSUME NEW d \in Co, at'[d] = "recv"
               PROVE  \/ Own(d)' \in Live'
                      \/ phase' = "timeouts" /\ (Own(d)' \in batch' \/ running' = d)
    BY DEF HasTimer
  <2>1. d # c /\ at[d] = "recv" /\ Own(d)' = Own(d) /\ running # d
    BY <1>3
  <2> QED
    BY <1>2, <2>1 DEF TimerInv, HasTimer
<1>6. Expiring'
  <2> SUFFICES ASSUME phase = "timeouts"
               PROVE  /\ \A b \in batch : /\ b = Own(b.co)' /\ at'[b.co] = "recv" /\ b.co \in expired'
                                          /\ running' # b.co /\ b \notin Live'
                      /\ \A d \in Co : running' = d => at'[d] # "recv"
    BY DEF Expiring
  <2>1. ASSUME NEW b \in batch
        PROVE  /\ b = Own(b.co)' /\ at'[b.co] = "recv" /\ b.co \in expired'
               /\ running' # b.co /\ b \notin Live'
    <3>1. /\ b.co \in Co \ {c} /\ b = Own(b.co) /\ at[b.co] = "recv" /\ b.co \in expired
          /\ b \notin Live
      BY DEF TimerInv, Expiring, StrandInv, WaitsTyped, Entry
    <3> QED
      BY <1>2, <1>3, <3>1, NamesAre
  <2>2. \A d \in Co : running' = d => at'[d] # "recv"
    BY NamesAre
  <2> QED
    BY <2>1, <2>2
<1> QED
  BY <1>1, <1>2, <1>4, <1>5, <1>6

\* EvRead::wait adds the timer of its recv().
LEMMA TimerAdded ==
  ASSUME StrandInv, TimerInv, NEW c \in Co, TryAgain(c)
  PROVE  /\ running' # Undefined /\ it' \in Live' \union {End}
         /\ OwnTimers' /\ HasTimer' /\ Expiring'
<1> USE DEF StrandInv, WaitsTyped
<1>1. /\ running = c /\ at[c] = "try" /\ UNCHANGED <<phase, batch, op, expired>>
      /\ at'[c] = "recv" /\ \A d \in Co \ {c} : at'[d] = at[d]
  BY DEF TryAgain, coVars, history
<1>2. InsertTimer(Own(c)) /\ it' = Own(c) /\ running' = Nobody
  BY DEF TryAgain, AddTimer, TimerInv
<1>3. /\ Own(c) \in Timer /\ Own(c).co = c /\ \A d \in Co : Own(d)' = Own(d)
      /\ \A d \in Co : Own(d).co = d
  BY <1>1, OwnIs DEF Own
<1>4. Own(c) \notin Live
  BY <1>1, <1>3 DEF TimerInv, OwnTimers
<1>5. Live' = Live \union {Own(c)} /\ Once(timers')
  BY <1>2, <1>3, <1>4, InsertTimerIs DEF TimerInv, OwnTimers
<1>6. OwnTimers'
  <2>1. ASSUME NEW t \in Live' PROVE t = Own(t.co)' /\ at'[t.co] = "recv"
    <3>1. CASE t = Own(c)
      BY <1>1, <1>3, <3>1
    <3>2. CASE t \in Live
      <4>1. t.co \in Co
        BY <3>2, LiveIs
      <4> QED
        BY <1>1, <1>3, <3>2, <4>1 DEF TimerInv, OwnTimers
    <3> QED
      BY <1>5, <3>1, <3>2
  <2> QED
    BY <1>5, <2>1 DEF OwnTimers
<1>7. HasTimer'
  <2> SUFFICES ASSUME NEW d \in Co, at'[d] = "recv"
               PROVE  Own(d) \in Live' \/ (phase = "timeouts" /\ Own(d) \in batch)
    BY <1>1, <1>3 DEF HasTimer
  <2> QED
    BY <1>1, <1>5 DEF TimerInv, HasTimer
<1>8. Expiring'
  <2> SUFFICES ASSUME phase = "timeouts", NEW b \in batch
               PROVE  /\ b = Own(b.co) /\ at'[b.co] = "recv" /\ b.co \in expired
                      /\ Nobody # b.co /\ b \notin Live' /\ b.co \in Co
    BY <1>1, <1>2, <1>3, NamesAre DEF Expiring, Entry
  <2>1. /\ b = Own(b.co) /\ at[b.co] = "recv" /\ b.co \in expired
        /\ b.co # c /\ b \notin Live /\ b.co \in Co
    BY <1>1 DEF TimerInv, Expiring, Entry
  <2> QED
    BY <1>1, <1>3, <1>5, <2>1, NamesAre
<1> QED
  BY <1>2, <1>5, <1>6, <1>7, <1>8, NamesAre

\* ~EvRead deletes it.
LEMMA TimerDeleted ==
  ASSUME StrandInv, TimerInv, NEW c \in Co, RecvTaken(c)
  PROVE  /\ running' # Undefined /\ it' \in Live' \union {End}
         /\ OwnTimers' /\ HasTimer' /\ Expiring'
<1> USE DEF StrandInv, WaitsTyped
<1>1. /\ running = c /\ at[c] = "recv" /\ phase # "timeouts" /\ UNCHANGED <<phase, batch, op, expired>>
      /\ at'[c] = "top" /\ \A d \in Co \ {c} : at'[d] = at[d]
  BY DEF RecvTaken, TimedOut
<1>2. Own(c) \in Live
  BY <1>1 DEF TimerInv, HasTimer
<1>3. /\ it' = (IF it = Own(c) THEN From(Position(Own(c)) + 1) ELSE it)
      /\ timers' = Without(Own(c)) /\ running' = c
  BY <1>1, <1>2 DEF RecvTaken, DelTimer
<1>4. Once(timers) /\ Once(timers') /\ Live' = Live \ {Own(c)}
  <2>1. Once(timers)
    BY DEF TimerInv, OwnTimers
  <2>2. Once(Without(Own(c))) /\ Elements(Without(Own(c))) = Live \ {Own(c)}
    BY <2>1, WithoutIs
  <2>3. Live' = Elements(timers')
    BY DEF Live, Elements
  <2> QED
    BY <1>3, <2>1, <2>2, <2>3
<1>5. it' \in Live' \union {End}
  <2>1. CASE it = Own(c)
    <3> DEFINE p == Position(Own(c))
    <3>1. p \in 1..Len(timers) /\ timers[p] = Own(c)
      BY <1>2 DEF Live, Position
    <3>2. it' = From(p + 1)
      BY <1>3, <2>1
    <3> HIDE DEF p
    <3>3. CASE p + 1 <= Len(timers)
      <4>1. p + 1 \in 1..Len(timers) /\ p + 1 # p /\ it' = timers[p + 1]
        BY <3>1, <3>2, <3>3, LenProperties DEF From
      <4>2. timers[p + 1] # Own(c) /\ timers[p + 1] \in Live
        BY <1>4, <3>1, <4>1 DEF Once, Live
      <4> QED
        BY <1>4, <4>1, <4>2
    <3>4. CASE ~(p + 1 <= Len(timers))
      BY <3>2, <3>4 DEF From
    <3> QED
      BY <3>3, <3>4
  <2>2. CASE it # Own(c)
    BY <1>3, <1>4, <2>2 DEF TimerInv
  <2> QED
    BY <2>1, <2>2
<1>6. \A d \in Co : Own(d)' = Own(d) /\ Own(d).co = d
  BY <1>1 DEF Own
<1>7. OwnTimers'
  <2>1. ASSUME NEW t \in Live' PROVE t = Own(t.co)' /\ at'[t.co] = "recv"
    <3>1. t \in Live /\ t # Own(c)
      BY <1>4
    <3>2. t.co \in Co /\ t = Own(t.co) /\ at[t.co] = "recv"
      BY <3>1, LiveIs DEF TimerInv, OwnTimers
    <3> QED
      BY <1>1, <1>6, <3>1, <3>2
  <2> QED
    BY <1>4, <2>1 DEF OwnTimers
<1>8. HasTimer'
  <2> SUFFICES ASSUME NEW d \in Co, at'[d] = "recv" PROVE Own(d)' \in Live'
    BY DEF HasTimer
  <2>1. d # c /\ at[d] = "recv"
    BY <1>1
  <2>2. Own(d) \in Live /\ Own(d) # Own(c)
    <3>1. Own(d) \in Live
      BY <1>1, <2>1 DEF TimerInv, HasTimer
    <3>2. Own(d).co = d /\ Own(c).co = c
      BY <1>6
    <3> QED
      BY <2>1, <3>1, <3>2
  <2> QED
    BY <1>4, <1>6, <2>2
<1>9. Expiring'
  BY <1>1 DEF Expiring
<1> QED
  BY <1>3, <1>5, <1>7, <1>8, <1>9, NamesAre

LEMMA RunTimers ==
  ASSUME StrandInv, TimerInv, Untimed, NEW c \in Co, Run(c)
  PROVE  TimerInv'
<1> USE DEF loopVars, timerVars, ioVars, coVars, signalVars, history
<1>0. /\ running = c /\ UNCHANGED <<phase, batch, ready, co, local, adding>> /\ kind[c] # "timed"
      /\ \A d \in Co \ {c} : at'[d] = at[d] /\ op'[d] = op[d]
      /\ expired \ {c} \subseteq expired'
  BY DEF Run, Begin, Insert, Return, TryAgain, TryTaken, RecvTimeout, RecvTaken, RecvAgain, Rest,
         StrandInv, WaitsTyped, Untimed
<1>1. NoTimers'
  <2>1. \A d \in Co : coWait'[d] \in {Absent, NullTimer}
    <3>1. \A d \in Co : coWait[d] \in {Absent, NullTimer}
      BY DEF TimerInv, NoTimers
    <3>2. CASE coWait' = coWait
      BY <3>1, <3>2
    <3>3. CASE Insert(c)
      BY <1>0, <3>1, <3>3 DEF Insert, StrandInv, WaitsTyped, Maps
    <3>4. CASE Return(c)
      BY <1>0, <3>1, <3>4 DEF Return
    <3>5. coWait' = coWait \/ Insert(c) \/ Return(c)
      BY DEF Run, Begin, TryAgain, TryTaken, RecvTimeout, RecvTaken, RecvAgain, Rest
    <3> QED
      BY <3>2, <3>3, <3>4, <3>5
  <2> QED
    BY <1>0, <2>1 DEF TimerInv, NoTimers
<1>2. ASSUME at[c] # "recv" PROVE \A t \in Live : t.co # c
  BY <1>2 DEF TimerInv, OwnTimers
<1>3. CASE Begin(c) \/ Insert(c) \/ Return(c) \/ TryTaken(c) \/ Rest(c)
  <2>1. /\ at[c] # "recv" /\ at'[c] # "recv" /\ running' \in {c, Nobody} /\ it' = it
    BY <1>3 DEF Begin, Insert, Return, TryTaken, Rest, StrandInv, WaitsTyped
  <2>2. timers' = timers
    BY <1>3 DEF Begin, Insert, Return, TryTaken, Rest, Untimed
  <2> QED
    BY <1>0, <1>1, <1>2, <2>1, <2>2, NoneDisturbed DEF TimerInv
<1>4. CASE TryAgain(c)
  BY <1>1, <1>4, TimerAdded DEF TimerInv
<1>5. CASE RecvTimeout(c)
  <2>1. /\ at[c] = "recv" /\ at'[c] # "recv" /\ running' = c /\ UNCHANGED <<timers, it>>
        /\ phase = "timeouts"
    BY <1>0, <1>5 DEF RecvTimeout, TimedOut, StrandInv, WaitsTyped
  <2>2. Own(c) \notin Live
    BY <1>0, <2>1 DEF TimerInv, Expiring
  <2>3. \A t \in Live : t.co # c
    BY <2>2 DEF TimerInv, OwnTimers
  <2> QED
    BY <1>0, <1>1, <2>1, <2>3, NoneDisturbed DEF TimerInv
<1>6. CASE RecvTaken(c)
  BY <1>1, <1>6, TimerDeleted DEF TimerInv
<1>7. CASE RecvAgain(c)
  <2>1. /\ phase # "timeouts" /\ running' = Nobody /\ UNCHANGED <<timers, it, at, op>>
    BY <1>7 DEF RecvAgain, TimedOut
  <2>2. Live' = Live /\ \A d : Own(d)' = Own(d)
    BY <2>1 DEF Live, Own
  <2>3. OwnTimers' /\ Expiring'
    BY <1>0, <2>1, <2>2 DEF TimerInv, OwnTimers, Expiring, Once
  <2>4. HasTimer'
    BY <1>0, <2>1, <2>2 DEF TimerInv, HasTimer
  <2> QED
    BY <1>1, <2>1, <2>2, <2>3, <2>4, NamesAre DEF TimerInv
<1> QED
  BY <1>3, <1>4, <1>5, <1>6, <1>7 DEF Run

LEMMA TimersExpire ==
  ASSUME StrandInv, TimerInv, NEW n \in 0..Len(timers), CheckTimeout(n)
  PROVE  TimerInv'
<1> DEFINE over == {timers[m] : m \in 1..n}
           r == SubSeq(timers, n + 1, Len(timers))
<1>1. /\ running = Nobody /\ phase = "check" /\ phase' = "timeouts" /\ batch' = over
      /\ UNCHANGED <<at, op, ready, coWait, co, local, adding, running>>
      /\ it' = (IF it \in over THEN From(n + 1) ELSE it) /\ timers' = r
      /\ expired' = expired \union {t.co : t \in {u \in over : u = Own(u.co)}}
  BY DEF CheckTimeout, TimerInv, signalVars
<1>2. Once(timers)
  BY DEF TimerInv, OwnTimers
<1>3. /\ over \subseteq Live /\ Elements(r) \union over = Live
      /\ Once(r) /\ over \intersect Elements(r) = {}
      /\ From(n + 1) \in Elements(r) \union {End}
  BY <1>2, CutIs DEF StrandInv, WaitsTyped
<1>4. Live' = Elements(r)
  BY <1>1 DEF Live, Elements
<1> HIDE DEF over, r
<1>5. \A d : Own(d)' = Own(d)
  BY <1>1 DEF Own
<1>6. it' \in Live' \union {End}
  BY <1>1, <1>3, <1>4 DEF TimerInv
<1>7. OwnTimers'
  BY <1>1, <1>3, <1>4, <1>5 DEF TimerInv, OwnTimers
<1>8. HasTimer'
  <2> SUFFICES ASSUME NEW d \in Co, at[d] = "recv" PROVE Own(d) \in Live' \/ Own(d) \in over
    BY <1>1, <1>5 DEF HasTimer
  <2>1. Own(d) \in Live
    BY <1>1 DEF TimerInv, HasTimer
  <2> QED
    BY <1>3, <1>4, <2>1
<1>9. Expiring'
  <2>1. ASSUME NEW b \in over
        PROVE  /\ b = Own(b.co)' /\ at'[b.co] = "recv" /\ b.co \in expired'
               /\ running' # b.co /\ b \notin Live'
    <3>1. b \in Live /\ b.co \in Co
      BY <1>3, LiveIs DEF StrandInv
    <3>2. b = Own(b.co) /\ at[b.co] = "recv"
      BY <3>1 DEF TimerInv, OwnTimers
    <3> QED
      BY <1>1, <1>3, <1>4, <1>5, <3>1, <3>2, NamesAre
  <2> QED
    BY <1>1, <2>1, NamesAre DEF Expiring
<1>10. NoTimers'
  BY <1>1 DEF TimerInv, NoTimers
<1> QED
  BY <1>1, <1>6, <1>7, <1>8, <1>9, <1>10 DEF TimerInv

\* Other steps leave the timers and who has got where.
LEMMA TimersStay ==
  ASSUME TimerInv, UNCHANGED <<timers, it, at, op, expired>>, NoTimers',
         running' # Undefined, HasTimer', Expiring'
  PROVE  TimerInv'
<1>1. Live' = Live /\ \A d : Own(d)' = Own(d)
  BY DEF Live, Own
<1> QED
  BY <1>1 DEF TimerInv, OwnTimers, Once

LEMMA LoopTimers ==
  ASSUME StrandInv, TimerInv, Loop
  PROVE  TimerInv'
<1> USE NamesAre DEF loopVars, timerVars, ioVars, coVars, signalVars, history
<1>1. CASE Poll \/ BatchDone \/ Swap \/ ReadyDone
  <2>1. UNCHANGED <<timers, it, at, op, expired, running>> /\ running = Nobody
    BY <1>1 DEF Poll, BatchDone, Swap, ReadyDone
  <2>2. NoTimers'
    BY <1>1 DEF Poll, BatchDone, Swap, ReadyDone, TimerInv, NoTimers, Empty
  <2>3. /\ phase' # "timeouts" /\ (phase = "timeouts" => batch = {})
        /\ Live' = Live /\ \A d : Own(d)' = Own(d)
    BY <1>1 DEF Poll, BatchDone, Swap, ReadyDone, Live, Own
  <2>4. HasTimer' /\ Expiring'
    BY <2>1, <2>3 DEF TimerInv, HasTimer, Expiring
  <2> QED
    BY <2>1, <2>2, <2>4, TimersStay
<1>2. ASSUME NEW b \in batch, Resume(b) PROVE TimerInv'
  <2>1. /\ running = Nobody /\ UNCHANGED <<timers, it, at, op, expired, phase, ready, coWait, co, local, adding>>
        /\ running' = b.co /\ batch' = batch \ {b} /\ b.co \in Co
    BY <1>2 DEF Resume, StrandInv, WaitsTyped, Entry
  <2>2. NoTimers'
    BY <2>1 DEF TimerInv, NoTimers
  <2>3. Live' = Live /\ \A d : Own(d)' = Own(d)
    BY <2>1 DEF Live, Own
  <2>4. HasTimer'
    <3> SUFFICES ASSUME NEW d \in Co, at[d] = "recv", Own(d) \notin Live
                 PROVE  phase = "timeouts" /\ (Own(d) \in batch \ {b} \/ b.co = d)
      BY <2>1, <2>3 DEF HasTimer
    <3>1. phase = "timeouts" /\ Own(d) \in batch
      BY <2>1 DEF TimerInv, HasTimer
    <3>2. Own(d) = b => b.co = d
      BY OwnIs DEF StrandInv
    <3> QED
      BY <3>1, <3>2
  <2>5. Expiring'
    <3> SUFFICES ASSUME phase = "timeouts"
                 PROVE  /\ \A x \in batch \ {b} : /\ x = Own(x.co) /\ at[x.co] = "recv" /\ x.co \in expired
                                                   /\ b.co # x.co /\ x \notin Live
                        /\ at[b.co] = "recv" => b.co \in expired /\ Own(b.co) \notin Live
      BY <2>1, <2>3 DEF Expiring
    <3>1. \A x \in batch : x = Own(x.co) /\ at[x.co] = "recv" /\ x.co \in expired /\ x \notin Live
      BY DEF TimerInv, Expiring
    <3> QED
      BY <3>1
  <2> QED
    BY <2>1, <2>2, <2>4, <2>5, TimersStay
<1>3. ASSUME NEW c \in Co, PassOver(c) PROVE TimerInv'
  <2>1. /\ UNCHANGED <<timers, it, at, op, expired, running, phase, batch, coWait, co, local, adding>>
        /\ ready' = [ready EXCEPT ![c] = Absent]
    BY <1>3 DEF PassOver
  <2>2. NoTimers'
    BY <2>1 DEF TimerInv, NoTimers, StrandInv, WaitsTyped, Maps
  <2>3. Live' = Live /\ \A d : Own(d)' = Own(d)
    BY <2>1 DEF Live, Own
  <2>4. HasTimer' /\ Expiring'
    BY <2>1, <2>3 DEF TimerInv, HasTimer, Expiring
  <2> QED
    BY <2>1, <2>2, <2>4, TimersStay DEF TimerInv
<1>4. ASSUME NEW c \in Co, ResumeReady(c) PROVE TimerInv'
  <2>1. /\ UNCHANGED <<it, at, op, expired, phase, batch, coWait, co, local, adding>>
        /\ ready' = [ready EXCEPT ![c] = Absent] /\ phase = "ready" /\ ready[c] = NullTimer
    BY <1>4 DEF ResumeReady, TimerInv, NoTimers
  <2>2. [co |-> c, id |-> NullTimer] \notin Live
    BY CountAssumption, LiveIs DEF StrandInv, Timer, Id, NullTimer
  <2>3. timers' = timers /\ running' = c
    BY <1>4, <2>1, <2>2 DEF ResumeReady, Without
  <2>4. NoTimers'
    BY <2>1 DEF TimerInv, NoTimers, StrandInv, WaitsTyped, Maps
  <2>5. Live' = Live /\ \A d : Own(d)' = Own(d)
    BY <2>1, <2>3 DEF Live, Own
  <2>6. HasTimer' /\ Expiring'
    BY <2>1, <2>5 DEF TimerInv, HasTimer, Expiring
  <2> QED
    BY <2>1, <2>3, <2>4, <2>6, TimersStay
<1>5. ASSUME NEW n \in 0..Len(timers), CheckTimeout(n) PROVE TimerInv'
  BY <1>5, TimersExpire
<1> QED
  BY <1>1, <1>2, <1>3, <1>4, <1>5 DEF Loop

LEMMA OutsideTimers ==
  ASSUME StrandInv, TimerInv, (\E t \in Signallers : Signal(t)) \/ \E c \in Co : Arrive(c)
  PROVE  TimerInv'
<1> USE DEF loopVars, timerVars, ioVars, coVars, signalVars, history
<1>1. UNCHANGED <<timers, it, at, op, expired, running, phase, batch>>
  BY DEF Signal, SignalSwap, SignalReady, SignalAdd, Arrive
<1>2. Live' = Live /\ \A d : Own(d)' = Own(d)
  BY <1>1 DEF Live, Own
<1>3. HasTimer' /\ Expiring'
  BY <1>1, <1>2 DEF TimerInv, HasTimer, Expiring
<1>4. NoTimers'
  <2> USE DEF TimerInv, NoTimers, StrandInv, WaitsTyped
  <2>1. ASSUME NEW t \in Signallers, SignalSwap(t) PROVE NoTimers'
    BY <2>1 DEF SignalSwap, Empty
  <2>2. ASSUME NEW t \in Signallers, NEW c \in Co, SignalReady(t, c) PROVE NoTimers'
    <3>1. \A u \in Signallers : adding'[u].id \in {Absent, NullTimer}
      <4> DEFINE e == [co |-> c, id |-> local[t][c]]
      <4>1. e.id \in {Absent, NullTimer}
        OBVIOUS
      <4>2. adding' = adding \/ adding' = [adding EXCEPT ![t] = e]
        BY <2>2 DEF SignalReady
      <4> HIDE DEF e
      <4> QED
        BY <4>1, <4>2
    <3>2. \A u \in Signallers, d \in Co : local'[u][d] \in {Absent, NullTimer}
      BY <2>2 DEF SignalReady, Maps
    <3> QED
      BY <2>2, <3>1, <3>2 DEF SignalReady
  <2>3. ASSUME NEW t \in Signallers, SignalAdd(t) PROVE NoTimers'
    BY <2>3 DEF SignalAdd, Maps, Idle
  <2>4. ASSUME NEW c \in Co, Arrive(c) PROVE NoTimers'
    BY <2>4 DEF Arrive
  <2> QED
    BY <2>1, <2>2, <2>3, <2>4 DEF Signal
<1> QED
  BY <1>1, <1>3, <1>4, TimersStay DEF TimerInv

-----------------------------------------------------------------------------
LEMMA WaitsStart == Init => WaitsInv
<1> SUFFICES ASSUME Init PROVE WaitsInv
  OBVIOUS
<1>1. StrandInv
  BY StrandStart
<1>2. TimerInv
  <2>1. Live = {} /\ running = Nobody /\ it = End /\ timers = <<>> /\ phase = "events"
    BY DEF Init, Live
  <2>2. NoTimers
    BY DEF Init, NoTimers, Empty, Idle
  <2>3. OwnTimers /\ HasTimer /\ Expiring
    BY <2>1 DEF Init, OwnTimers, HasTimer, Expiring, Once
  <2> QED
    BY <2>1, <2>2, <2>3, NamesAre DEF TimerInv
<1> QED
  BY <1>1, <1>2 DEF WaitsInv

LEMMA WaitsSame == WaitsInv /\ UNCHANGED vars => WaitsInv'
<1> SUFFICES ASSUME WaitsInv, UNCHANGED vars PROVE WaitsInv'
  OBVIOUS
<1> USE DEF vars, loopVars, timerVars, ioVars, coVars, signalVars, history
<1>1. StrandInv'
  BY StrandStep DEF WaitsInv
<1>2. ASSUME TimerInv PROVE TimerInv'
  <2>1. Live' = Live /\ \A d : Own(d)' = Own(d)
    BY DEF Live, Own
  <2> QED
    BY <1>2, <2>1 DEF TimerInv, NoTimers, OwnTimers, HasTimer, Expiring, Once
<1> QED
  BY <1>1, <1>2 DEF WaitsInv, Untimed

LEMMA WaitsStep == WaitsInv /\ [Next]_vars => WaitsInv'
<1> SUFFICES ASSUME WaitsInv, Next PROVE WaitsInv'
  BY WaitsSame
<1>1. StrandInv'
  BY StrandStep DEF WaitsInv
<1>2. ASSUME Untimed PROVE TimerInv'
  BY <1>2, RunTimers, LoopTimers, OutsideTimers DEF Next, WaitsInv
<1>3. Untimed' <=> Untimed
  BY DEF Next, Untimed
<1> QED
  BY <1>1, <1>2, <1>3 DEF WaitsInv

\* What is proved of CoSched holds in MCSched, where nothing else moves it.
LEMMA WaitsHold == MCSpec => []WaitsInv /\ [][Next]_vars
<1>1. MCInit => WaitsInv
  BY WaitsStart DEF MCInit
<1>2. [MCNext]_mcVars => [Next]_vars
  BY DEF MCNext, Wake, mcVars
<1>3. WaitsInv /\ [Next]_vars => WaitsInv'
  BY WaitsStep
<1> QED
  BY <1>1, <1>2, <1>3, PTL DEF MCSpec

\* Whatever timeouts, signals and input cross, a coroutine that was made ready
\* is on its way and one that waits can be signalled (EventImpl, Scheduler), for
\* any number of coroutines, threads and operations, timed waits included.
THEOREM NoneStrandedHolds == MCSpec => []NoneStranded
<1>1. WaitsInv => NoneStranded
  <2> SUFFICES ASSUME WaitsInv PROVE NoneStranded
    OBVIOUS
  <2>1. \A c \in Co : Sent(c) \/ running = c => OnTheWay(c)
    BY DEF Sent, OnTheWay
  <2> QED
    BY <2>1 DEF WaitsInv, StrandInv, Coming, Findable, NoneStranded
<1> QED
  BY <1>1, WaitsHold, PTL

\* Without timed waits no dangling iterator is used, the hint of add_timer is
\* live, and a live timer is that of the operation under way (scheduler.h).
THEOREM TimersAreRightHolds == MCSpec => []TimersAreRight
<1>1. WaitsInv => TimersAreRight
  <2> SUFFICES ASSUME WaitsInv, Untimed PROVE NoDanglingIterator /\ TimerIsOwn
    BY DEF TimersAreRight, NoDanglingIterator, TimerIsOwn
  <2>1. \A n \in 1..Len(timers) : timers[n] = Own(timers[n].co) /\ at[timers[n].co] = "recv"
    BY DEF WaitsInv, TimerInv, OwnTimers, Live
  <2> QED
    BY <2>1 DEF WaitsInv, TimerInv, NoDanglingIterator, TimerIsOwn
<1> QED
  BY <1>1, WaitsHold, PTL

\* Without timed waits a recv() that reports a timeout has had its own, and not
\* that of an earlier operation (EvRead::wait).
THEOREM FalseMeansTimeoutHolds == MCSpec => FalseMeansTimeout
<1>1. WaitsInv /\ [Next]_vars =>
        [\A c \in Co : Untimed /\ at[c] = "recv" /\ at'[c] = "top" /\ answer'[c] = "false"
                        => c \in expired]_vars
  <2> SUFFICES ASSUME WaitsInv, Next, NEW c \in Co, Untimed, at[c] = "recv", at'[c] = "top",
                      answer'[c] = "false"
               PROVE  c \in expired
    OBVIOUS
  <2> USE DEF loopVars, timerVars, ioVars, coVars, signalVars, history
  <2>1. PICK d \in Co : Run(d)
    BY DEF Next, Loop, Poll, BatchDone, Swap, ReadyDone, Resume, PassOver, ResumeReady, CheckTimeout,
           Signal, SignalSwap, SignalReady, SignalAdd, Arrive
  <2>2. \A e \in Co \ {d} : at'[e] = at[e]
    BY <2>1 DEF Run, Begin, Insert, Return, TryAgain, TryTaken, RecvTimeout, RecvTaken, RecvAgain,
                Rest, WaitsInv, StrandInv, WaitsTyped
  <2>3. d = c
    BY <2>2
  <2>4. RecvTimeout(c)
    BY <2>1, <2>3 DEF Run, Begin, Insert, Return, TryAgain, TryTaken, RecvTaken, RecvAgain,
                Rest, WaitsInv, StrandInv, WaitsTyped
  <2> QED
    BY <2>4 DEF RecvTimeout, TimedOut, WaitsInv, TimerInv, Expiring
<1> QED
  BY <1>1, WaitsHold, PTL DEF FalseMeansTimeout
=============================================================================
