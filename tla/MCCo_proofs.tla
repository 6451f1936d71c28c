---------------------------- MODULE MCCo_proofs ----------------------------
(* What a coroutine or a thread waits for, for any number of them: proofs   *)
(* about the behaviours of MCCo.  Each subject has an invariant of its own; *)
(* a step is of one of them and leaves the variables of the others alone.   *)
EXTENDS MCCo, Sockets_proofs, SequenceTheorems, FiniteSetTheorems, TLAPS

---------------------------------------------------------------------------
(* Sequences without repetition: what joins and leaves a queue.            *)

Distinct(q) == \A j, k \in 1 .. Len(q) : q[j] = q[k] => j = k

\* What push_back does to a queue.
LEMMA AppendSeq ==
  ASSUME NEW S, NEW q \in Seq(S), NEW c \in S
  PROVE  /\ Append(q, c) \in Seq(S)
         /\ \A d : M!Contains(Append(q, c), d) <=> M!Contains(q, d) \/ d = c
         /\ Distinct(q) /\ ~M!Contains(q, c) => Distinct(Append(q, c))
<1> DEFINE p == Append(q, c)
<1>1. /\ p \in Seq(S) /\ Len(q) \in Nat /\ Len(p) = Len(q) + 1
      /\ (\A k \in 1 .. Len(q) : p[k] = q[k]) /\ p[Len(q) + 1] = c
  BY AppendProperties, LenProperties
<1> HIDE DEF p
<1>2. \A k \in 1 .. Len(p) : k \in 1 .. Len(q) \/ k = Len(q) + 1
  BY <1>1
<1>3. 1 .. Len(q) \subseteq 1 .. Len(p) /\ Len(q) + 1 \in 1 .. Len(p)
      /\ Len(q) + 1 \notin 1 .. Len(q)
  BY <1>1
<1>4. \A d : M!Contains(p, d) <=> M!Contains(q, d) \/ d = c
  BY <1>1, <1>2, <1>3 DEF M!Contains
<1>5. ASSUME Distinct(q), ~M!Contains(q, c)
      PROVE  Distinct(p)
  BY <1>1, <1>2, <1>3, <1>5 DEF M!Contains, Distinct
<1> QED
  BY <1>1, <1>4, <1>5 DEF p

\* What pop_front does to a queue.
LEMMA TailSeq ==
  ASSUME NEW S, NEW q \in Seq(S), q # <<>>
  PROVE  /\ Head(q) \in S /\ Tail(q) \in Seq(S) /\ M!Contains(q, Head(q))
         /\ \A d : M!Contains(Tail(q), d) => M!Contains(q, d)
         /\ \A d : M!Contains(q, d) => d = Head(q) \/ M!Contains(Tail(q), d)
         /\ Distinct(q) => Distinct(Tail(q)) /\ ~M!Contains(Tail(q), Head(q))
<1> DEFINE p == Tail(q)
<1>1. /\ Head(q) \in S /\ p \in Seq(S) /\ Len(q) \in Nat \ {0} /\ Len(p) = Len(q) - 1
      /\ (\A k \in 1 .. Len(p) : p[k] = q[k + 1]) /\ Head(q) = q[1]
  BY HeadTailProperties, LenProperties, EmptySeq
<1> HIDE DEF p
<1>2. 1 \in 1 .. Len(q) /\ \A k \in 1 .. Len(p) : k + 1 \in 1 .. Len(q) /\ k + 1 # 1
  BY <1>1
<1>3. \A k \in 1 .. Len(q) : k = 1 \/ (k - 1 \in 1 .. Len(p) /\ (k - 1) + 1 = k)
  BY <1>1
<1>4. /\ M!Contains(q, Head(q))
      /\ \A d : M!Contains(p, d) => M!Contains(q, d)
      /\ \A d : M!Contains(q, d) => d = Head(q) \/ M!Contains(p, d)
  <2>1. M!Contains(q, Head(q)) /\ \A d : M!Contains(p, d) => M!Contains(q, d)
    BY <1>1, <1>2 DEF M!Contains
  <2>2. ASSUME NEW d, M!Contains(q, d)
        PROVE  d = Head(q) \/ M!Contains(p, d)
    <3>1. PICK k \in 1 .. Len(q) : q[k] = d
      BY <2>2 DEF M!Contains
    <3>2. CASE k - 1 \in 1 .. Len(p)
      <4>1. p[k - 1] = d
        BY <1>1, <1>3, <3>1, <3>2
      <4> QED
        BY <3>2, <4>1 DEF M!Contains
    <3> QED
      BY <1>1, <1>3, <3>1, <3>2
  <2> QED
    BY <2>1, <2>2
<1>5. ASSUME Distinct(q)
      PROVE  Distinct(p) /\ ~M!Contains(p, Head(q))
  <2>1. \A j, k \in 1 .. Len(p) : p[j] = p[k] => j + 1 = k + 1
    BY <1>1, <1>2, <1>5 DEF Distinct
  <2>2. \A k \in 1 .. Len(p) : p[k] # Head(q)
    BY <1>1, <1>2, <1>5 DEF Distinct
  <2> QED
    BY <2>1, <2>2 DEF Distinct, M!Contains
<1> QED
  BY <1>1, <1>4, <1>5 DEF p

\* A sequence without its last element.
LEMMA AllButLast ==
  ASSUME NEW S, NEW q \in Seq(S), q # <<>>
  PROVE  /\ SubSeq(q, 1, Len(q) - 1) \in Seq(S) /\ Len(SubSeq(q, 1, Len(q) - 1)) = Len(q) - 1
         /\ \A k \in 1 .. Len(q) - 1 : SubSeq(q, 1, Len(q) - 1)[k] = q[k]
<1> DEFINE p == SubSeq(q, 1, Len(q) - 1)
<1>1. Len(q) \in Nat \ {0} /\ \A k \in 1 .. Len(q) : q[k] \in S
  BY LenProperties, EmptySeq
<1>2. /\ p \in Seq(S)
      /\ Len(p) = IF 1 <= Len(q) - 1 THEN (Len(q) - 1) - 1 + 1 ELSE 0
      /\ \A k \in 1 .. (Len(q) - 1) - 1 + 1 : p[k] = q[1 + k - 1]
  <2>1. \A k \in 1 .. Len(q) - 1 : q[k] \in S
    BY <1>1
  <2> QED
    BY <1>1, <2>1, SubSeqProperties
<1> HIDE DEF p
<1>3. \A n \in Nat \ {0} : (IF 1 <= n - 1 THEN (n - 1) - 1 + 1 ELSE 0) = n - 1
  OBVIOUS
<1>4. Len(p) = Len(q) - 1
  <2>1. Len(q) \in Nat \ {0}
    BY <1>1
  <2> QED
    BY <1>2, <1>3, <2>1, Zenon
<1>5. \A k \in 1 .. Len(q) - 1 : k \in 1 .. (Len(q) - 1) - 1 + 1 /\ 1 + k - 1 = k
  BY <1>1
<1> QED
  BY <1>2, <1>4, <1>5 DEF p

\* What leaves a stack.
LEMMA FrontSeq ==
  ASSUME NEW S, NEW q \in Seq(S), q # <<>>
  PROVE  /\ M!Last(q) \in S /\ M!Front(q) \in Seq(S) /\ M!Contains(q, M!Last(q))
         /\ \A d : M!Contains(M!Front(q), d) => M!Contains(q, d)
         /\ Distinct(q) => Distinct(M!Front(q)) /\ ~M!Contains(M!Front(q), M!Last(q))
<1> DEFINE p == M!Front(q)
<1>1. Len(q) \in Nat \ {0} /\ \A k \in 1 .. Len(q) : q[k] \in S
  BY LenProperties, EmptySeq
<1>2. /\ p \in Seq(S) /\ Len(p) = Len(q) - 1
      /\ \A k \in 1 .. Len(p) : p[k] = q[k]
  BY AllButLast DEF M!Front
<1>3. M!Last(q) = q[Len(q)] /\ Len(q) \in 1 .. Len(q)
      /\ \A k \in 1 .. Len(p) : k \in 1 .. Len(q) /\ k # Len(q)
  BY <1>1, <1>2 DEF M!Last
<1> HIDE DEF p
<1>4. /\ M!Last(q) \in S /\ M!Contains(q, M!Last(q))
      /\ \A d : M!Contains(p, d) => M!Contains(q, d)
  BY <1>1, <1>2, <1>3 DEF M!Contains
<1>5. ASSUME Distinct(q)
      PROVE  Distinct(p) /\ ~M!Contains(p, M!Last(q))
  BY <1>2, <1>3, <1>5 DEF Distinct, M!Contains
<1> QED
  BY <1>2, <1>4, <1>5 DEF p

\* A sequence made of a finite set holds each element once.
LEMMA SetSeq ==
  ASSUME NEW S, IsFiniteSet(S)
  PROVE  /\ M!SetToSeq(S) \in Seq(S) /\ Distinct(M!SetToSeq(S))
         /\ \A d : M!Contains(M!SetToSeq(S), d) => d \in S
<1>1. Cardinality(S) \in Nat /\ ExistsBijection(1 .. Cardinality(S), S)
  BY FS_CardinalityType
<1>2. \E f \in [1 .. Cardinality(S) -> S] : M!IsInjective(f)
  BY <1>1 DEF ExistsBijection, Bijection, Injection, IsInjective, M!IsInjective
<1> DEFINE q == M!SetToSeq(S)
<1>7. M!Cardinality(S) = Cardinality(S)
  BY Zenon DEF M!Cardinality, Cardinality
<1>3. q \in [1 .. Cardinality(S) -> S] /\ M!IsInjective(q)
  BY <1>2, <1>7, Zenon DEF M!SetToSeq
<1> HIDE DEF q
<1>4. q \in Seq(S) /\ Len(q) = Cardinality(S)
  BY <1>1, <1>3
<1> QED
  BY <1>3, <1>4 DEF Distinct, M!Contains, M!IsInjective, q

---------------------------------------------------------------------------
(* The event.                                                              *)

\* _consumer counts the threads inside wait().
Waiting == {t \in Threads : at[t] # "idle"}
EventTyped ==
    /\ {manual, signaled, fresh, late, excused, failed} \subseteq BOOLEAN
    /\ at \in [Threads -> {"idle", "forever", "timed", "woken", "late"}]
    /\ consumer = Cardinality(Waiting)

\* While the event is signaled nobody is blocked.
NoneBlocked == signaled => Blocked = {}

\* Whom a signal() has woken still finds the event signaled.
WokenInTime == (\E t \in Threads : at[t] = "woken") => signaled \/ excused

\* When it stays signaled without a cause, others are still to come out, and
\* each of them asks whether it is the last.
OthersWillReset ==
    signaled /\ ~manual /\ ~fresh /\ ~late /\ ~excused =>
        consumer # 0 /\ \A t \in Threads : at[t] # "late"

EventInv == EventTyped /\ NoneBlocked /\ WokenInTime /\ OthersWillReset /\ AssertHolds

LEMMA EventStart ==
  ASSUME NEW modes \in SUBSET BOOLEAN, EventInit(modes)
  PROVE  EventInv
<1>1. at = [t \in Threads |-> "idle"] /\ Waiting = {}
  BY DEF EventInit, Waiting
<1>2. consumer = Cardinality(Waiting)
  BY <1>1, FS_EmptySet DEF EventInit
<1> QED
  BY <1>1, <1>2 DEF EventInit, EventInv, EventTyped, NoneBlocked, WokenInTime, OthersWillReset,
     AssertHolds, Blocked

\* The count follows the threads.
LEMMA Counted ==
  ASSUME EventTyped, NEW t \in Threads
  PROVE  /\ consumer \in Nat
         /\ at[t] = "idle" =>
               \A s \in {"forever", "timed"} : Become(t, s) => Cardinality(Waiting') = consumer + 1
         /\ at[t] # "idle" => /\ consumer # 0
                              /\ Become(t, "idle") => Cardinality(Waiting') = consumer - 1
                              /\ consumer = 1 => \A u \in Threads \ {t} : at[u] = "idle"
<1>1. IsFiniteSet(Waiting) /\ Waiting \subseteq Threads
  BY FS_Subset, CoAssumption DEF Waiting
<1>2. consumer \in Nat
  BY <1>1, FS_CardinalityType DEF EventTyped
<1>3. ASSUME at[t] = "idle", NEW s \in {"forever", "timed"}, Become(t, s)
      PROVE  Cardinality(Waiting') = consumer + 1
  <2>1. Waiting' = Waiting \union {t} /\ t \notin Waiting
    BY <1>3 DEF Waiting, Become, EventTyped
  <2> QED
    BY <1>1, <2>1, FS_AddElement DEF EventTyped
<1>4. ASSUME at[t] # "idle"
      PROVE  /\ consumer # 0
             /\ Become(t, "idle") => Cardinality(Waiting') = consumer - 1
             /\ consumer = 1 => \A u \in Threads \ {t} : at[u] = "idle"
  <2>1. t \in Waiting
    BY <1>4 DEF Waiting
  <2>2. IsFiniteSet(Waiting \ {t}) /\ Cardinality(Waiting \ {t}) = consumer - 1
    BY <1>1, <2>1, FS_RemoveElement DEF EventTyped
  <2>3. Cardinality(Waiting \ {t}) \in Nat
    BY <2>2, FS_CardinalityType
  <2>4. ASSUME Become(t, "idle")
        PROVE  Cardinality(Waiting') = consumer - 1
    <3>1. Waiting' = Waiting \ {t}
      BY <2>4 DEF Waiting, Become, EventTyped
    <3> QED
      BY <2>2, <3>1
  <2>5. ASSUME consumer = 1
        PROVE  \A u \in Threads \ {t} : at[u] = "idle"
    <3>1. Cardinality(Waiting \ {t}) = 0
      BY <1>2, <2>2, <2>5
    <3>2. Waiting \ {t} = {}
      BY <2>2, <3>1, FS_EmptySet
    <3> QED
      BY <3>2 DEF Waiting
  <2> QED
    BY <1>2, <2>2, <2>3, <2>4, <2>5
<1> QED
  BY <1>2, <1>3, <1>4

LEMMA EventStep ==
  ASSUME EventInv, EventNext
  PROVE  EventInv'
<1> USE DEF EventInv, EventTyped
<1>1. CASE Signal
  <2>1. \A t \in Threads : at'[t] \in {"idle", "woken", "late"} \/ signaled
    BY <1>1 DEF Signal, Woken, Blocked
  <2>2. Waiting' = Waiting
    BY <1>1 DEF Signal, Woken, Blocked, Waiting
  <2>3. EventTyped'
    BY <1>1, <2>2 DEF Signal
  <2>4. NoneBlocked' /\ WokenInTime' /\ OthersWillReset' /\ AssertHolds'
    BY <1>1, <2>1 DEF Signal, NoneBlocked, WokenInTime, OthersWillReset, AssertHolds, Blocked
  <2> QED
    BY <2>3, <2>4
<1>2. CASE Reset
  <2>1. EventTyped'
    BY <1>2 DEF Reset, Waiting
  <2> QED
    BY <1>2, <2>1 DEF Reset, NoneBlocked, WokenInTime, OthersWillReset, AssertHolds, Blocked
<1>3. ASSUME NEW t \in Threads, Wait(t)
      PROVE  EventInv'
  <2>1. CASE signaled
    <3>1. UNCHANGED <<at, consumer, manual, excused, failed>> /\ ReturnTrue(t, consumer)
          /\ at[t] = "idle"
      BY <1>3, <2>1 DEF Wait
    <3>2. EventTyped'
      BY <3>1 DEF ReturnTrue, Waiting
    <3>3. consumer = 0 => \A u \in Threads : at[u] = "idle"
      <4>1. IsFiniteSet(Waiting)
        BY FS_Subset, CoAssumption DEF Waiting
      <4> QED
        BY <4>1, FS_EmptySet DEF Waiting
    <3> QED
      BY <2>1, <3>1, <3>2, <3>3 DEF ReturnTrue, LastOut, NoneBlocked, WokenInTime,
         OthersWillReset, AssertHolds, Blocked
  <2>2. CASE ~signaled
    <3>1. PICK s \in {"forever", "timed"} : Become(t, s)
      BY <1>3, <2>2 DEF Wait
    <3>2. UNCHANGED <<signaled, late, fresh, manual, excused, failed>> /\ consumer' = consumer + 1
          /\ at[t] = "idle"
      BY <1>3, <2>2 DEF Wait
    <3>3. EventTyped'
      BY <3>1, <3>2, Counted DEF Become
    <3> QED
      BY <2>2, <3>1, <3>2, <3>3 DEF Become, NoneBlocked, WokenInTime, OthersWillReset, AssertHolds
  <2> QED
    BY <2>1, <2>2
<1>4. ASSUME NEW t \in Threads, Spurious(t) \/ TimeIsUp(t)
      PROVE  EventInv'
  <2>1. Waiting' = Waiting
    BY <1>4 DEF Spurious, TimeIsUp, Become, Blocked, Waiting
  <2>2. EventTyped'
    BY <1>4, <2>1 DEF Spurious, TimeIsUp, Become
  <2> QED
    BY <1>4, <2>2 DEF Spurious, TimeIsUp, Become, Blocked, NoneBlocked, WokenInTime,
       OthersWillReset, AssertHolds
<1>5. ASSUME NEW t \in Threads, Resume(t)
      PROVE  EventInv'
  <2>1. at[t] = "woken" /\ Become(t, "idle") /\ consumer' = consumer - 1 /\ UNCHANGED <<manual, excused>>
    BY <1>5 DEF Resume
  <2>2. CASE signaled
    <3>1. ReturnTrue(t, consumer - 1) /\ UNCHANGED failed
      BY <1>5, <2>2 DEF Resume
    <3>2. EventTyped'
      BY <2>1, <3>1, Counted DEF Become, ReturnTrue
    <3>3. consumer - 1 = 0 => \A u \in Threads \ {t} : at[u] = "idle"
      BY <2>1, Counted
    <3>4. consumer - 1 \in Nat
      BY <2>1, Counted
    <3>5. \A u \in Threads : at'[u] = (IF u = t THEN "idle" ELSE at[u])
      BY <2>1 DEF Become
    <3>6. NoneBlocked' /\ AssertHolds' /\ WokenInTime'
      BY <2>1, <2>2, <3>1, <3>3, <3>5 DEF ReturnTrue, LastOut, NoneBlocked, WokenInTime,
         AssertHolds, Blocked
    <3>7. OthersWillReset'
      BY <2>1, <2>2, <3>1, <3>4, <3>5 DEF ReturnTrue, LastOut, OthersWillReset
    <3> QED
      BY <3>2, <3>6, <3>7
  <2>3. CASE ~signaled
    <3>1. failed' = TRUE /\ UNCHANGED <<signaled, late, fresh>> /\ excused
      BY <1>5, <2>1, <2>3 DEF Resume, WokenInTime
    <3>2. EventTyped'
      BY <2>1, <3>1, Counted DEF Become
    <3> QED
      BY <2>1, <2>3, <3>1, <3>2 DEF NoneBlocked, WokenInTime, OthersWillReset, AssertHolds
  <2> QED
    BY <2>2, <2>3
<1>6. ASSUME NEW t \in Threads, GiveUp(t)
      PROVE  EventInv'
  <2>1. at[t] = "late" /\ Become(t, "idle") /\ consumer' = consumer - 1
        /\ UNCHANGED <<manual, signaled, late, fresh, excused, failed>>
    BY <1>6 DEF GiveUp
  <2>2. EventTyped'
    BY <2>1, Counted DEF Become
  <2> QED
    BY <2>1, <2>2 DEF Become, Blocked, NoneBlocked, WokenInTime, OthersWillReset, AssertHolds
<1> QED
  BY <1>1, <1>2, <1>3, <1>4, <1>5, <1>6 DEF EventNext, Leave

LEMMA EventIsRight == EventInv => AssertHolds /\ StaleExplained
  BY DEF EventInv, OthersWillReset, StaleExplained

---------------------------------------------------------------------------
(* The mutex and the pool.                                                 *)

Has(s, c) == M!Contains(tasksOf[s], c)
Ready(c) == Has(Home[c], c)
Queued(c) == M!Contains(queue, c)

MutexTyped ==
    /\ lock \in BOOLEAN /\ queue \in Seq(Threads)
    /\ tasksOf \in [Scheds -> Seq(Threads)]
    /\ onStack \in [Scheds -> Threads \union {0}]
    /\ co \in [Threads -> {"start", "want", "queued", "parked", "in", "out"}]

\* A coroutine stays with the scheduler it was started in.
AtHome ==
    /\ \A s \in Scheds : onStack[s] # 0 => Home[onStack[s]] = s
    /\ \A s \in Scheds, c \in Threads : Has(s, c) => Home[c] = s

\* It is queued or to be resumed once, and not both; one that has queued may
\* be to be resumed before it has yielded.
PlacedOnce ==
    /\ Distinct(queue) /\ \A s \in Scheds : Distinct(tasksOf[s])
    /\ \A c \in Threads :
          /\ Queued(c) => co[c] \in {"queued", "parked"} /\ ~Ready(c)
          /\ M!Runs(c) /\ Ready(c) => co[c] = "queued"
          /\ M!Runs(c) /\ co[c] = "parked" => ~Queued(c)
          /\ co[c] = "queued" => M!Runs(c)
Placed == MutexTyped /\ AtHome /\ PlacedOnce

\* The mutex is one coroutine's: it is inside, or chosen to be.
Holds(c) == co[c] = "in" \/ M!Chosen(c)
OneHolds == \A c, d \in Threads : Holds(c) /\ Holds(d) => c = d
LockIsHeld == lock <=> \E c \in Threads : Holds(c)

LEMMA Joins ==
  ASSUME Placed, NEW c \in Threads, ~Ready(c),
         tasksOf' = [tasksOf EXCEPT ![Home[c]] = Append(@, c)]
  PROVE  /\ tasksOf' \in [Scheds -> Seq(Threads)]
         /\ \A s \in Scheds : Distinct(tasksOf'[s])
         /\ \A s \in Scheds, d \in Threads : Has(s, d)' <=> Has(s, d) \/ (s = Home[c] /\ d = c)
         /\ \A d \in Threads : Ready(d)' <=> Ready(d) \/ d = c
<1>1. Home[c] \in Scheds /\ tasksOf[Home[c]] \in Seq(Threads) /\ Distinct(tasksOf[Home[c]])
  BY CoAssumption DEF Placed, MutexTyped, PlacedOnce
<1>2. /\ Append(tasksOf[Home[c]], c) \in Seq(Threads)
      /\ \A d : M!Contains(Append(tasksOf[Home[c]], c), d) <=> Has(Home[c], d) \/ d = c
      /\ Distinct(Append(tasksOf[Home[c]], c))
  BY <1>1, AppendSeq DEF Ready, Has
<1>3. \A s \in Scheds : tasksOf'[s] = IF s = Home[c] THEN Append(tasksOf[Home[c]], c) ELSE tasksOf[s]
  BY <1>1 DEF Placed, MutexTyped
<1>4. \A s \in Scheds, d \in Threads : Has(s, d)' <=> Has(s, d) \/ (s = Home[c] /\ d = c)
  BY <1>2, <1>3 DEF Has
<1> QED
  BY <1>2, <1>3, <1>4, CoAssumption DEF Placed, MutexTyped, PlacedOnce, Ready

LEMMA PlacedStart ==
  ASSUME NEW started \in SUBSET Threads, M!MutexInit(started)
  PROVE  Placed /\ OneHolds /\ LockIsHeld
<1>1. ASSUME NEW s \in Scheds
      PROVE  /\ tasksOf[s] \in Seq(Threads) /\ Distinct(tasksOf[s])
             /\ \A c \in Threads : Has(s, c) => Home[c] = s
  <2> DEFINE S == {c \in started : Home[c] = s}
  <2>1. IsFiniteSet(S) /\ S \subseteq Threads
    BY FS_Subset, CoAssumption
  <2>2. tasksOf[s] = M!SetToSeq(S)
    BY DEF M!MutexInit
  <2> HIDE DEF S
  <2>3. tasksOf[s] \in Seq(S) /\ Distinct(tasksOf[s]) /\ \A d : M!Contains(tasksOf[s], d) => d \in S
    BY <2>1, <2>2, SetSeq
  <2> QED
    BY <2>1, <2>3 DEF Has, S
<1>2. tasksOf \in [Scheds -> Seq(Threads)]
  BY <1>1 DEF M!MutexInit
<1>3. \A c \in Threads : ~Queued(c) /\ ~M!Runs(c) /\ co[c] = "start"
  BY CoAssumption DEF M!MutexInit, Queued, M!Contains, M!Runs
<1>4. Placed
  <2>1. MutexTyped
    <3>1. queue \in Seq(Threads) /\ lock \in BOOLEAN
      BY EmptySeq DEF M!MutexInit
    <3>2. onStack \in [Scheds -> Threads \union {0}]
      BY DEF M!MutexInit
    <3>3. co \in [Threads -> {"start", "want", "queued", "parked", "in", "out"}]
      BY DEF M!MutexInit
    <3> QED
      BY <1>2, <3>1, <3>2, <3>3 DEF MutexTyped
  <2>2. AtHome
    BY <1>1 DEF AtHome, M!MutexInit
  <2>3. Distinct(queue)
    BY DEF M!MutexInit, Distinct
  <2> QED
    BY <1>1, <1>3, <2>1, <2>2, <2>3 DEF Placed, PlacedOnce
<1> QED
  BY <1>3, <1>4 DEF OneHolds, LockIsHeld, Holds, M!Chosen, M!MutexInit

\* The scheduler takes the first of its tasks.
LEMMA PlacedResume ==
  ASSUME Placed, OneHolds, LockIsHeld, NEW s \in Scheds, M!ResumeNext(s)
  PROVE  Placed' /\ OneHolds' /\ LockIsHeld'
<1> DEFINE h == Head(tasksOf[s])
<1>1. /\ h \in Threads /\ Tail(tasksOf[s]) \in Seq(Threads) /\ Has(s, h)
      /\ \A d : M!Contains(Tail(tasksOf[s]), d) => Has(s, d) /\ d # h
      /\ Distinct(Tail(tasksOf[s]))
  BY TailSeq DEF M!ResumeNext, Placed, MutexTyped, PlacedOnce, Has
<1>2. Home[h] = s /\ onStack[s] = 0 /\ h # 0
  BY <1>1, CoAssumption DEF Placed, AtHome, M!ResumeNext
<1>3. /\ \A r \in Scheds : tasksOf'[r] = IF r = s THEN Tail(tasksOf[s]) ELSE tasksOf[r]
      /\ \A r \in Scheds : onStack'[r] = IF r = s THEN h ELSE onStack[r]
      /\ UNCHANGED <<lock, queue, co>>
  BY DEF M!ResumeNext, Placed, MutexTyped
<1>4. tasksOf' \in [Scheds -> Seq(Threads)] /\ onStack' \in [Scheds -> Threads \union {0}]
  BY <1>1, <1>3 DEF M!ResumeNext, Placed, MutexTyped
<1> HIDE DEF h
<1>5. \A r \in Scheds, d \in Threads : Has(r, d)' => Has(r, d) /\ ~(r = s /\ d = h)
  BY <1>1, <1>3 DEF Has
<1>6. \A d \in Threads : /\ Ready(d)' => Ready(d) /\ d # h
                         /\ (M!Runs(d))' <=> M!Runs(d) \/ d = h
                         /\ Queued(d)' <=> Queued(d)
  BY <1>2, <1>3, <1>5, CoAssumption DEF Ready, M!Runs, Queued
<1>7. Ready(h) /\ ~M!Runs(h)
  BY <1>1, <1>2 DEF Ready, M!Runs
<1>8. MutexTyped'
  BY <1>3, <1>4 DEF Placed, MutexTyped
<1>9. AtHome'
  BY <1>2, <1>3, <1>5 DEF Placed, AtHome
<1>10. PlacedOnce'
  <2>1. Distinct(queue)' /\ \A r \in Scheds : Distinct(tasksOf[r])'
    BY <1>1, <1>3 DEF Placed, PlacedOnce
  <2> QED
    BY <1>1, <1>3, <1>6, <1>7, <2>1 DEF Placed, PlacedOnce
<1> QED
  BY <1>3, <1>8, <1>9, <1>10 DEF Placed, OneHolds, LockIsHeld, Holds, M!Chosen

\* The coroutine that runs comes in, or queues.
LEMMA PlacedLock ==
  ASSUME Placed, OneHolds, LockIsHeld, NEW c \in Threads, M!Lock(c)
  PROVE  Placed' /\ OneHolds' /\ LockIsHeld'
<1>1. /\ M!Runs(c) /\ co[c] = "want" /\ UNCHANGED <<tasksOf, onStack>>
      /\ \A d \in Threads : /\ Ready(d)' <=> Ready(d)
                            /\ (M!Runs(d))' <=> M!Runs(d)
  BY DEF M!Lock, Ready, Has, M!Runs
<1>2. ~Queued(c) /\ ~Ready(c)
  BY <1>1 DEF Placed, PlacedOnce
<1>3. AtHome' /\ \A s \in Scheds : Distinct(tasksOf[s])'
  BY <1>1 DEF Placed, AtHome, PlacedOnce, Has
<1>4. CASE lock
  <2>1. UNCHANGED lock /\ queue' = Append(queue, c)
        /\ co' = [co EXCEPT ![c] = "queued"]
    BY <1>4 DEF M!Lock, M!Waits, M!To
  <2>2. /\ queue' \in Seq(Threads) /\ Distinct(queue')
        /\ \A d \in Threads : Queued(d)' <=> Queued(d) \/ d = c
    BY <1>2, <2>1, AppendSeq DEF Placed, MutexTyped, PlacedOnce, Queued
  <2>3. co' \in [Threads -> {"start", "want", "queued", "parked", "in", "out"}]
        /\ \A d \in Threads : co'[d] = IF d = c THEN "queued" ELSE co[d]
    BY <2>1 DEF Placed, MutexTyped
  <2>4. Placed'
    BY <1>1, <1>2, <1>3, <2>1, <2>2, <2>3 DEF Placed, MutexTyped, PlacedOnce
  <2>5. \A d \in Threads : Holds(d)' <=> Holds(d)
    BY <1>1, <2>2, <2>3 DEF Holds, M!Chosen, Queued
  <2> QED
    BY <2>1, <2>4, <2>5 DEF OneHolds, LockIsHeld
<1>5. CASE ~lock
  <2>1. lock' = TRUE /\ UNCHANGED queue /\ co' = [co EXCEPT ![c] = "in"]
    BY <1>5 DEF M!Lock, M!To
  <2>2. \A d \in Threads : co'[d] = IF d = c THEN "in" ELSE co[d]
    BY <2>1 DEF Placed, MutexTyped
  <2>3. Placed'
    BY <1>1, <1>2, <1>3, <2>1, <2>2 DEF Placed, MutexTyped, PlacedOnce, Queued
  <2>4. \A d \in Threads : Holds(d)' <=> d = c
    BY <1>5, <2>1, <2>2 DEF Holds, M!Chosen, LockIsHeld
  <2> QED
    BY <2>1, <2>3, <2>4 DEF OneHolds, LockIsHeld
<1> QED
  BY <1>4, <1>5

\* It gives the mutex back, or to the first of the queue.
LEMMA PlacedUnlock ==
  ASSUME Placed, OneHolds, LockIsHeld, NEW c \in Threads, M!Unlock(c)
  PROVE  Placed' /\ OneHolds' /\ LockIsHeld'
<1>1. /\ M!Runs(c) /\ co[c] = "in" /\ UNCHANGED onStack
      /\ co' = [co EXCEPT ![c] = "out"] /\ lock' = (queue # <<>>)
      /\ \A d \in Threads : (M!Runs(d))' <=> M!Runs(d)
  BY DEF M!Unlock, M!To, M!LockAfter, M!Runs
<1>2. \A d \in Threads : co'[d] = IF d = c THEN "out" ELSE co[d]
  BY <1>1 DEF Placed, MutexTyped
<1>3. \A d \in Threads : Holds(d) => d = c
  BY <1>1 DEF OneHolds, Holds
<1>4. CASE queue = <<>>
  <2>1. UNCHANGED <<queue, tasksOf>>
    BY <1>4 DEF M!Unlock
  <2>2. Placed'
    BY <1>1, <1>2, <2>1 DEF Placed, MutexTyped, AtHome, PlacedOnce, Queued, Ready, Has
  <2>3. \A d \in Threads : ~Holds(d)'
    BY <1>2, <1>3, <2>1 DEF Holds, M!Chosen
  <2> QED
    BY <1>1, <1>4, <2>2, <2>3 DEF OneHolds, LockIsHeld
<1>5. CASE queue # <<>>
  <2>9. Head(queue) \in Threads
    BY <1>5, TailSeq DEF Placed, MutexTyped
  <2>10. PICK h \in Threads : h = Head(queue)
    BY <2>9
  <2>1. /\ h \in Threads /\ Queued(h) /\ queue' = Tail(queue) /\ queue' \in Seq(Threads)
        /\ Distinct(queue')
        /\ \A d \in Threads : Queued(d)' <=> Queued(d) /\ d # h
    <3>1. queue \in Seq(Threads) /\ Distinct(queue) /\ queue' = Tail(queue)
      BY <1>5 DEF M!Unlock, Placed, MutexTyped, PlacedOnce
    <3>2. /\ h \in Threads /\ M!Contains(queue, h) /\ Tail(queue) \in Seq(Threads)
          /\ Distinct(Tail(queue)) /\ ~M!Contains(Tail(queue), h)
          /\ \A d : M!Contains(Tail(queue), d) => M!Contains(queue, d)
          /\ \A d : M!Contains(queue, d) => d = h \/ M!Contains(Tail(queue), d)
      BY <1>5, <2>10, <3>1, TailSeq
    <3>3. \A d : (Queued(d) <=> M!Contains(queue, d)) /\ (Queued(d)' <=> M!Contains(Tail(queue), d))
      BY <3>1 DEF Queued
    <3>4. \A d \in Threads : Queued(d)' <=> Queued(d) /\ d # h
      BY <3>2, <3>3, Zenon
    <3>5. h \in Threads /\ Queued(h)
      BY <3>2 DEF Queued
    <3> QED
      BY <3>1, <3>2, <3>4, <3>5
  <2>2. tasksOf' = [tasksOf EXCEPT ![Home[h]] = Append(@, h)]
    BY <1>5, <2>10 DEF M!Unlock
  <2>3. co[h] \in {"queued", "parked"} /\ ~Ready(h) /\ h # c
    BY <1>1, <2>1 DEF Placed, PlacedOnce
  <2>4. /\ tasksOf' \in [Scheds -> Seq(Threads)]
        /\ \A s \in Scheds : Distinct(tasksOf'[s])
        /\ \A s \in Scheds, d \in Threads : Has(s, d)' <=> Has(s, d) \/ (s = Home[h] /\ d = h)
        /\ \A d \in Threads : Ready(d)' <=> Ready(d) \/ d = h
    BY <2>1, <2>2, <2>3, Joins
  <2>5. MutexTyped' /\ AtHome'
    BY <1>1, <2>1, <2>4 DEF Placed, MutexTyped, AtHome
  <2>6. PlacedOnce'
    BY <1>1, <1>2, <2>1, <2>3, <2>4 DEF Placed, PlacedOnce
  <2>7. \A d \in Threads : Holds(d)' <=> d = h
    BY <1>2, <1>3, <2>1, <2>3 DEF Holds, M!Chosen, Queued
  <2> QED
    BY <1>1, <1>5, <2>1, <2>5, <2>6, <2>7 DEF Placed, OneHolds, LockIsHeld
<1> QED
  BY <1>4, <1>5

\* The coroutine that runs is to be resumed later: after an element was given
\* back, when it tries the mutex again, or while it is inside.
LEMMA PlacedLater ==
  ASSUME Placed, OneHolds, LockIsHeld, NEW c \in Threads, M!Runs(c),
         co[c] \notin {"queued", "parked"}, NEW l \in {"start", "want", "in"},
         l = "in" <=> co[c] = "in",
         co' = [co EXCEPT ![c] = l], M!Yield(c), UNCHANGED <<lock, queue>>,
         tasksOf' = [tasksOf EXCEPT ![Home[c]] = Append(@, c)]
  PROVE  Placed' /\ OneHolds' /\ LockIsHeld'
<1>1. ~Ready(c) /\ ~Queued(c)
  BY DEF Placed, PlacedOnce
<1>2. /\ tasksOf' \in [Scheds -> Seq(Threads)]
      /\ \A s \in Scheds : Distinct(tasksOf'[s])
      /\ \A s \in Scheds, d \in Threads : Has(s, d)' <=> Has(s, d) \/ (s = Home[c] /\ d = c)
      /\ \A d \in Threads : Ready(d)' <=> Ready(d) \/ d = c
  BY <1>1, Joins
<1>3. \A s \in Scheds : onStack'[s] = IF s = Home[c] THEN 0 ELSE onStack[s]
  BY DEF M!Yield, Placed, MutexTyped
<1>4. \A d \in Threads : /\ (M!Runs(d))' <=> M!Runs(d) /\ d # c
                         /\ Queued(d)' <=> Queued(d)
                         /\ co'[d] = IF d = c THEN l ELSE co[d]
  BY <1>3, CoAssumption DEF M!Runs, Queued, Placed, MutexTyped
<1>5. MutexTyped' /\ AtHome'
  BY <1>2, <1>3 DEF M!Yield, Placed, MutexTyped, AtHome
<1>6. PlacedOnce'
  BY <1>1, <1>2, <1>4 DEF Placed, PlacedOnce
<1>7. \A d \in Threads : Holds(d)' <=> Holds(d)
  BY <1>1, <1>4 DEF Holds, M!Chosen, Queued
<1> QED
  BY <1>5, <1>6, <1>7 DEF Placed, OneHolds, LockIsHeld

\* It goes on, by itself or with the mutex it was chosen for, or gives up the
\* scheduler after it has queued.
LEMMA PlacedOn ==
  ASSUME Placed, OneHolds, LockIsHeld, NEW c \in Threads, M!Pop(c) \/ M!Granted(c) \/ M!Park(c)
  PROVE  Placed' /\ OneHolds' /\ LockIsHeld'
<1>1. M!Runs(c) /\ UNCHANGED <<lock, queue, tasksOf>>
      /\ \A d \in Threads : (Ready(d)' <=> Ready(d)) /\ (Queued(d)' <=> Queued(d))
  BY DEF M!Pop, M!Granted, M!Park, Ready, Has, Queued
<1>2. CASE M!Pop(c)
  <2>1. \A d \in Threads : co'[d] = (IF d = c THEN "want" ELSE co[d])
                           /\ ((M!Runs(d))' <=> M!Runs(d))
    BY <1>2 DEF M!Pop, M!To, Placed, MutexTyped, M!Runs
  <2>2. Placed'
    BY <1>1, <1>2, <2>1 DEF M!Pop, M!To, Placed, MutexTyped, AtHome, PlacedOnce, Has
  <2>3. \A d \in Threads : Holds(d)' <=> Holds(d)
    BY <1>1, <1>2, <2>1 DEF Holds, M!Chosen, Queued, M!Pop
  <2> QED
    BY <1>1, <2>2, <2>3 DEF OneHolds, LockIsHeld
<1>3. CASE M!Granted(c)
  <2>1. \A d \in Threads : co'[d] = (IF d = c THEN "in" ELSE co[d])
                           /\ ((M!Runs(d))' <=> M!Runs(d))
    BY <1>3 DEF M!Granted, M!To, Placed, MutexTyped, M!Runs
  <2>2. Placed'
    BY <1>1, <1>3, <2>1 DEF M!Granted, M!To, Placed, MutexTyped, AtHome, PlacedOnce, Has
  <2>3. Holds(c) /\ \A d \in Threads : Holds(d)' <=> Holds(d)
    BY <1>1, <1>3, <2>1 DEF Holds, M!Chosen, Queued, M!Granted, Placed, PlacedOnce
  <2> QED
    BY <1>1, <2>2, <2>3 DEF OneHolds, LockIsHeld
<1>4. CASE M!Park(c)
  <2>1. \A s \in Scheds : onStack'[s] = IF s = Home[c] THEN 0 ELSE onStack[s]
    BY <1>4 DEF M!Park, M!Yield, Placed, MutexTyped
  <2>2. \A d \in Threads : co'[d] = (IF d = c THEN "parked" ELSE co[d])
                           /\ ((M!Runs(d))' <=> M!Runs(d) /\ d # c)
    BY <1>1, <1>4, <2>1, CoAssumption DEF M!Park, M!To, Placed, MutexTyped, M!Runs
  <2>3. MutexTyped' /\ AtHome'
    BY <1>1, <1>4, <2>1 DEF M!Park, M!To, M!Yield, Placed, MutexTyped, AtHome, Has
  <2>4. PlacedOnce'
    BY <1>1, <1>4, <2>2 DEF M!Park, Placed, PlacedOnce
  <2>5. \A d \in Threads : Holds(d)' <=> Holds(d)
    BY <1>1, <1>4, <2>2 DEF Holds, M!Chosen, Queued, M!Park
  <2> QED
    BY <1>1, <2>3, <2>4, <2>5 DEF Placed, OneHolds, LockIsHeld
<1> QED
  BY <1>2, <1>3, <1>4

LEMMA PlacedStep ==
  ASSUME Placed, OneHolds, LockIsHeld, M!MutexNext
  PROVE  Placed' /\ OneHolds' /\ LockIsHeld'
<1>1. ASSUME NEW s \in Scheds, M!ResumeNext(s)
      PROVE  Placed' /\ OneHolds' /\ LockIsHeld'
  BY <1>1, PlacedResume
<1>2. ASSUME NEW c \in Threads, M!Lock(c)
      PROVE  Placed' /\ OneHolds' /\ LockIsHeld'
  BY <1>2, PlacedLock
<1>3. ASSUME NEW c \in Threads, M!Unlock(c)
      PROVE  Placed' /\ OneHolds' /\ LockIsHeld'
  BY <1>3, PlacedUnlock
<1>4. ASSUME NEW c \in Threads, M!Pop(c) \/ M!Granted(c) \/ M!Park(c)
      PROVE  Placed' /\ OneHolds' /\ LockIsHeld'
  BY <1>4, PlacedOn
<1>5. ASSUME NEW c \in Threads, M!Push(c)
      PROVE  Placed' /\ OneHolds' /\ LockIsHeld'
  <2>1. /\ M!Runs(c) /\ co[c] = "out" /\ co' = [co EXCEPT ![c] = "start"] /\ M!Yield(c)
        /\ UNCHANGED <<lock, queue>> /\ tasksOf' = [tasksOf EXCEPT ![Home[c]] = Append(@, c)]
    BY <1>5 DEF M!Push, M!To
  <2> QED
    BY <2>1, PlacedLater
<1>6. ASSUME NEW c \in Threads, M!Pause(c)
      PROVE  Placed' /\ OneHolds' /\ LockIsHeld'
  <2>1. /\ M!Runs(c) /\ co[c] = "in" /\ M!Yield(c)
        /\ UNCHANGED <<lock, queue>> /\ tasksOf' = [tasksOf EXCEPT ![Home[c]] = Append(@, c)]
    BY <1>6 DEF M!Pause
  <2>2. co' = [co EXCEPT ![c] = "in"]
    BY <1>6, <2>1 DEF M!Pause, Placed, MutexTyped
  <2> QED
    BY <2>1, <2>2, PlacedLater
<1>7. ASSUME NEW c \in Threads, M!TryLock(c)
      PROVE  Placed' /\ OneHolds' /\ LockIsHeld'
  <2>1. CASE lock
    <3>1. /\ M!Runs(c) /\ co[c] = "want" /\ M!Yield(c)
          /\ UNCHANGED <<lock, queue>> /\ tasksOf' = [tasksOf EXCEPT ![Home[c]] = Append(@, c)]
      BY <1>7, <2>1 DEF M!TryLock
    <3>2. co' = [co EXCEPT ![c] = "want"]
      BY <1>7, <2>1, <3>1 DEF M!TryLock, Placed, MutexTyped
    <3> QED
      BY <3>1, <3>2, PlacedLater
  <2>2. CASE ~lock
    <3>1. M!Lock(c)
      BY <1>7, <2>2 DEF M!TryLock, M!Lock
    <3> QED
      BY <3>1, PlacedLock
  <2> QED
    BY <2>1, <2>2
<1> QED
  BY <1>1, <1>2, <1>3, <1>4, <1>5, <1>6, <1>7 DEF M!MutexNext, M!Work

\* An element is in one pool, or held by one coroutine, and a pool holds what
\* its scheduler made.
Elements(s) == {e \in Nat : M!Contains(pool[s], e)}
PoolTyped ==
    /\ made \in Nat /\ item \in [Threads -> Nat] /\ pool \in [Scheds -> Seq(Nat)]
    /\ co \in [Threads -> {"start", "want", "queued", "parked", "in", "out"}]
    /\ \A c \in Threads : item[c] <= made /\ (item[c] = 0 <=> co[c] = "start")
    /\ \A s \in Scheds : Elements(s) \subseteq 1 .. made
HeldOnce == \A c, d \in Threads : item[c] = item[d] /\ item[c] # 0 => c = d
StackedOnce ==
    /\ \A s \in Scheds : Distinct(pool[s])
    /\ \A s, r \in Scheds : s # r => Elements(s) \intersect Elements(r) = {}
    /\ \A c \in Threads, s \in Scheds : item[c] \notin Elements(s)
PoolInv == PoolTyped /\ HeldOnce /\ StackedOnce

LEMMA PoolStart ==
  ASSUME NEW started \in SUBSET Threads, M!MutexInit(started)
  PROVE  PoolInv
<1>1. made \in Nat /\ made = 0 /\ item \in [Threads -> Nat] /\ \A c \in Threads : item[c] = 0
  BY DEF M!MutexInit
<1>2. co \in [Threads -> {"start", "want", "queued", "parked", "in", "out"}]
      /\ \A c \in Threads : co[c] = "start"
  BY DEF M!MutexInit
<1>3. pool \in [Scheds -> Seq(Nat)] /\ \A s \in Scheds : pool[s] = <<>>
  BY EmptySeq DEF M!MutexInit
<1>4. \A s \in Scheds : Elements(s) = {} /\ Distinct(pool[s])
  BY <1>3 DEF Elements, M!Contains, Distinct
<1> QED
  BY <1>1, <1>2, <1>3, <1>4 DEF PoolInv, PoolTyped, HeldOnce, StackedOnce

\* A coroutine takes the element on top of the pool, or makes one.
LEMMA PoolPop ==
  ASSUME PoolInv, Home \in [Threads -> Scheds], NEW c \in Threads, M!Pop(c)
  PROVE  PoolInv'
<1> DEFINE p == pool[Home[c]]
<1>1. Home[c] \in Scheds /\ p \in Seq(Nat) /\ Distinct(p) /\ co[c] = "start" /\ item[c] = 0
  BY DEF PoolInv, PoolTyped, StackedOnce, M!Pop
<1>2. co' \in [Threads -> {"start", "want", "queued", "parked", "in", "out"}]
      /\ \A d \in Threads : co'[d] = IF d = c THEN "want" ELSE co[d]
  BY DEF M!Pop, M!To, PoolInv, PoolTyped
<1>3. CASE p # <<>>
  <2>1. /\ M!Last(p) \in Nat /\ M!Front(p) \in Seq(Nat) /\ M!Contains(p, M!Last(p))
        /\ Distinct(M!Front(p)) /\ ~M!Contains(M!Front(p), M!Last(p))
        /\ \A e : M!Contains(M!Front(p), e) => M!Contains(p, e)
    BY <1>1, <1>3, FrontSeq
  <2>2. item' = [item EXCEPT ![c] = M!Last(p)] /\ UNCHANGED made
        /\ pool' = [pool EXCEPT ![Home[c]] = M!Front(p)]
    BY <1>3 DEF M!Pop
  <2> DEFINE e == M!Last(p)
  <2>3. e \in Elements(Home[c]) /\ e \in 1 .. made /\ e \in Nat
    BY <1>1, <2>1 DEF Elements, PoolInv, PoolTyped
  <2>4. /\ item' \in [Threads -> Nat]
        /\ \A d \in Threads : item'[d] = IF d = c THEN e ELSE item[d]
    BY <2>1, <2>2 DEF PoolInv, PoolTyped
  <2>5. /\ pool' \in [Scheds -> Seq(Nat)]
        /\ \A s \in Scheds : pool'[s] = IF s = Home[c] THEN M!Front(p) ELSE pool[s]
    BY <2>1, <2>2 DEF PoolInv, PoolTyped
  <2>6. /\ \A s \in Scheds : Elements(s)' \subseteq Elements(s) /\ Distinct(pool[s])'
        /\ e \notin Elements(Home[c])'
    BY <1>1, <2>1, <2>5 DEF Elements, PoolInv, StackedOnce
  <2> HIDE DEF e, p
  <2>7. PoolTyped'
    BY <1>2, <2>2, <2>3, <2>4, <2>5, <2>6 DEF PoolInv, PoolTyped
  <2>8. HeldOnce'
    BY <1>1, <2>3, <2>4 DEF PoolInv, HeldOnce, StackedOnce
  <2>9. StackedOnce'
    <3>1. \A s, r \in Scheds : s # r => Elements(s) \intersect Elements(r) = {}
      BY DEF PoolInv, StackedOnce
    <3>2. \A s, r \in Scheds : s # r => Elements(s)' \intersect Elements(r)' = {}
      BY <2>6, <3>1
    <3>3. \A s \in Scheds : e \notin Elements(s)'
      BY <1>1, <2>3, <2>6, <3>1
    <3>4. \A d \in Threads, s \in Scheds : item'[d] \notin Elements(s)'
      BY <2>4, <2>6, <3>3 DEF PoolInv, StackedOnce
    <3> QED
      BY <2>6, <3>2, <3>4 DEF StackedOnce
  <2> QED
    BY <2>7, <2>8, <2>9 DEF PoolInv
<1>4. CASE p = <<>>
  <2>1. made' = made + 1 /\ item' = [item EXCEPT ![c] = made'] /\ UNCHANGED pool
    BY <1>4 DEF M!Pop
  <2>2. made \in Nat /\ made' \in Nat
    BY <2>1 DEF PoolInv, PoolTyped
  <2>3. /\ item' \in [Threads -> Nat]
        /\ \A d \in Threads : item'[d] = IF d = c THEN made + 1 ELSE item[d]
    BY <2>1, <2>2 DEF PoolInv, PoolTyped
  <2>4. \A s \in Scheds : Elements(s)' = Elements(s)
    BY <2>1 DEF Elements
  <2> HIDE DEF p
  <2>5. PoolTyped'
    BY <1>2, <2>1, <2>2, <2>3, <2>4 DEF PoolInv, PoolTyped
  <2>6. HeldOnce'
    <3>1. \A d \in Threads : item[d] # made + 1
      BY <2>2 DEF PoolInv, PoolTyped
    <3> QED
      BY <2>3, <3>1 DEF PoolInv, HeldOnce
  <2>7. StackedOnce'
    BY <2>1, <2>2, <2>3, <2>4 DEF PoolInv, PoolTyped, StackedOnce
  <2> QED
    BY <2>5, <2>6, <2>7 DEF PoolInv
<1> QED
  BY <1>3, <1>4

\* It gives its element back to the pool it is from.
LEMMA PoolPush ==
  ASSUME PoolInv, Home \in [Threads -> Scheds], NEW c \in Threads, M!Push(c)
  PROVE  PoolInv'
<1> DEFINE e == item[c]
<1>1. /\ Home[c] \in Scheds /\ pool[Home[c]] \in Seq(Nat) /\ e \in Nat /\ e # 0 /\ e \in 1 .. made
      /\ made \in Nat /\ \A s \in Scheds : e \notin Elements(s)
  BY DEF PoolInv, PoolTyped, StackedOnce, M!Push
<1>2. /\ co' \in [Threads -> {"start", "want", "queued", "parked", "in", "out"}]
      /\ \A d \in Threads : co'[d] = IF d = c THEN "start" ELSE co[d]
      /\ item' \in [Threads -> Nat]
      /\ \A d \in Threads : item'[d] = IF d = c THEN 0 ELSE item[d]
      /\ UNCHANGED made
  BY DEF M!Push, M!To, PoolInv, PoolTyped
<1>3. /\ Append(pool[Home[c]], e) \in Seq(Nat)
      /\ \A d : M!Contains(Append(pool[Home[c]], e), d) <=> M!Contains(pool[Home[c]], d) \/ d = e
      /\ Distinct(Append(pool[Home[c]], e))
  <2>1. ~M!Contains(pool[Home[c]], e) /\ Distinct(pool[Home[c]])
    BY <1>1 DEF Elements, PoolInv, StackedOnce
  <2> QED
    BY <1>1, <2>1, AppendSeq
<1>4. /\ pool' \in [Scheds -> Seq(Nat)]
      /\ \A s \in Scheds : pool'[s] = IF s = Home[c] THEN Append(pool[Home[c]], e) ELSE pool[s]
  BY <1>1, <1>3 DEF M!Push, PoolInv, PoolTyped
<1>5. \A s \in Scheds : /\ Elements(s)' = IF s = Home[c] THEN Elements(s) \union {e} ELSE Elements(s)
                        /\ Distinct(pool[s])'
  <2> SUFFICES ASSUME NEW s \in Scheds
               PROVE  /\ Elements(s)' = IF s = Home[c] THEN Elements(s) \union {e} ELSE Elements(s)
                      /\ Distinct(pool[s])'
    OBVIOUS
  <2> HIDE DEF e
  <2>1. CASE s = Home[c]
    <3>1. pool'[s] = Append(pool[s], e)
      BY <1>4, <2>1
    <3> QED
      BY <1>1, <1>3, <2>1, <3>1 DEF Elements
  <2>2. CASE s # Home[c]
    BY <1>4, <2>2 DEF Elements, PoolInv, StackedOnce
  <2> QED
    BY <2>1, <2>2
<1>6. \A d \in Threads \ {c} : item[d] # e
  BY <1>1 DEF PoolInv, HeldOnce
<1> HIDE DEF e
<1>7. \A s \in Scheds : 0 \notin Elements(s)
  BY DEF PoolInv, PoolTyped
<1>8. PoolTyped'
  <2>1. \A s \in Scheds : Elements(s)' \subseteq 1 .. made'
    BY <1>1, <1>2, <1>5, ZenonT(20) DEF PoolInv, PoolTyped
  <2>2. \A d \in Threads : item'[d] <= made' /\ (item'[d] = 0 <=> co'[d] = "start")
    BY <1>1, <1>2 DEF PoolInv, PoolTyped
  <2> QED
    BY <1>1, <1>2, <1>4, <2>1, <2>2 DEF PoolTyped
<1>9. HeldOnce'
  BY <1>2 DEF PoolInv, HeldOnce
<1>10. StackedOnce'
  BY <1>1, <1>2, <1>5, <1>6, <1>7 DEF PoolInv, StackedOnce
<1> QED
  BY <1>8, <1>9, <1>10 DEF PoolInv

\* The mutex is no matter of the pool.
LEMMA PoolSame ==
  ASSUME PoolInv, NEW c \in Threads, NEW l \in {"want", "queued", "parked", "in", "out"},
         co[c] # "start", co' = [co EXCEPT ![c] = l], UNCHANGED <<pool, item, made>>
  PROVE  PoolInv'
<1>1. /\ co' \in [Threads -> {"start", "want", "queued", "parked", "in", "out"}]
      /\ \A d \in Threads : co'[d] = "start" <=> co[d] = "start"
  BY DEF PoolInv, PoolTyped
<1> QED
  BY <1>1 DEF PoolInv, PoolTyped, HeldOnce, StackedOnce, Elements

LEMMA PoolStep ==
  ASSUME PoolInv, M!MutexNext
  PROVE  PoolInv'
<1> USE CoAssumption
<1>1. ASSUME NEW c \in Threads, M!Pop(c) \/ M!Push(c)
      PROVE  PoolInv'
  BY <1>1, PoolPop, PoolPush
<1>2. ASSUME NEW c \in Threads, M!Lock(c) \/ M!TryLock(c) \/ M!Park(c) \/ M!Granted(c) \/ M!Unlock(c)
      PROVE  PoolInv'
  <2>1. co[c] # "start" /\ UNCHANGED <<pool, item, made>>
    BY <1>2 DEF M!Lock, M!TryLock, M!Park, M!Granted, M!Unlock
  <2>2. (\E l \in {"queued", "parked", "in", "out"} : co' = [co EXCEPT ![c] = l]) \/ co' = co
    BY <1>2 DEF M!Lock, M!TryLock, M!Park, M!Granted, M!Unlock, M!To
  <2>3. CASE co' = co
    BY <2>1, <2>3 DEF PoolInv, PoolTyped, HeldOnce, StackedOnce, Elements
  <2> QED
    BY <2>1, <2>2, <2>3, PoolSame
<1>3. ASSUME UNCHANGED <<co, pool, item, made>>
      PROVE  PoolInv'
  BY <1>3 DEF PoolInv, PoolTyped, HeldOnce, StackedOnce, Elements
<1>4. ASSUME NEW c \in Threads, M!Pause(c)
      PROVE  PoolInv'
  BY <1>3, <1>4 DEF M!Pause
<1>5. ASSUME NEW s \in Scheds, M!ResumeNext(s)
      PROVE  PoolInv'
  BY <1>3, <1>5 DEF M!ResumeNext
<1> QED
  BY <1>1, <1>2, <1>4, <1>5 DEF M!MutexNext, M!Work

\* What the invariants are for: the mutex excludes.
LEMMA Excludes ==
  ASSUME OneHolds, LockIsHeld
  PROVE  M!MutualExclusion
<1> DEFINE S == M!Inside \union {c \in Threads : M!Chosen(c)}
<1>1. \A c : c \in S <=> c \in Threads /\ Holds(c)
  BY DEF M!Inside, Holds, M!Chosen
<1>2. S # {} <=> \E c \in Threads : Holds(c)
  BY <1>1
<1>3. S = {} \/ \E c : S = {c}
  BY <1>1 DEF OneHolds
<1> HIDE DEF S
<1>4. Cardinality(S) <= 1
  <2>1. CASE S = {}
    BY <2>1, FS_EmptySet
  <2>2. CASE \E c : S = {c}
    <3>1. Cardinality(S) = 1
      BY <2>2, FS_Singleton
    <3> QED
      BY <3>1
  <2> QED
    BY <1>3, <2>1, <2>2
<1>5. M!Cardinality(S) = Cardinality(S)
  BY Zenon DEF M!Cardinality, Cardinality
<1> QED
  BY <1>2, <1>4, <1>5 DEF M!MutualExclusion, LockIsHeld, S

\* And no element is in two hands.
LEMMA KeepsApart ==
  ASSUME PoolInv
  PROVE  M!PoolKeepsApart
<1> DEFINE held(s) == {item[c] : c \in {d \in Threads : Home[d] = s /\ item[d] # 0}}
           all(s) == held(s) \union M!ToSet(pool[s])
<1>1. ASSUME NEW s \in Scheds
      PROVE  M!ToSet(pool[s]) = Elements(s)
  <2>1. pool[s] \in Seq(Nat) /\ Len(pool[s]) \in Nat
    BY LenProperties DEF PoolInv, PoolTyped
  <2> QED
    BY <2>1 DEF M!ToSet, Elements, M!Contains
<1>2. ASSUME NEW s \in Scheds, NEW r \in Scheds, s # r
      PROVE  all(s) \intersect all(r) = {}
  <2>1. held(s) \intersect held(r) = {}
    BY <1>2 DEF PoolInv, HeldOnce
  <2>2. held(s) \intersect Elements(r) = {} /\ held(r) \intersect Elements(s) = {}
    BY DEF PoolInv, StackedOnce
  <2>3. Elements(s) \intersect Elements(r) = {}
    BY <1>2 DEF PoolInv, StackedOnce
  <2> QED
    BY <1>1, <2>1, <2>2, <2>3
<1>3. ASSUME NEW s \in Scheds
      PROVE  Cardinality(held(s)) + Len(pool[s]) = Cardinality(all(s))
  <2>1. pool[s] \in Seq(Nat) /\ Len(pool[s]) \in Nat /\ Distinct(pool[s]) /\ made \in Nat
    BY LenProperties DEF PoolInv, PoolTyped, StackedOnce
  <2>2. held(s) \subseteq 1 .. made /\ held(s) \intersect Elements(s) = {}
    BY DEF PoolInv, PoolTyped, StackedOnce
  <2>3. IsFiniteSet(held(s)) /\ Cardinality(held(s)) \in Nat
    <3>1. IsFiniteSet(1 .. made)
      BY <2>1, FS_Interval
    <3>2. IsFiniteSet(held(s))
      BY <2>2, <3>1, FS_Subset
    <3> QED
      BY <3>2, FS_CardinalityType
  <2>4. IsFiniteSet(Elements(s)) /\ Cardinality(Elements(s)) = Len(pool[s])
    <3> DEFINE n == Len(pool[s])
    <3>1. pool[s] \in [1 .. n -> Elements(s)]
      BY <2>1 DEF Elements, M!Contains
    <3>2. pool[s] \in Bijection(1 .. n, Elements(s))
      BY <2>1, <3>1 DEF Bijection, Injection, Surjection, IsInjective, Distinct, Elements, M!Contains
    <3>3. IsFiniteSet(1 .. n) /\ Cardinality(1 .. n) = n
      <4> HIDE DEF n
      <4>1. n \in Nat
        BY <2>1 DEF n
      <4>2. IsFiniteSet(1 .. n) /\ Cardinality(1 .. n) = IF 1 > n THEN 0 ELSE n - 1 + 1
        BY <4>1, FS_Interval
      <4>3. (IF 1 > n THEN 0 ELSE n - 1 + 1) = n
        BY <4>1
      <4> QED
        BY <4>1, <4>2
    <3> QED
      BY <3>2, <3>3, FS_Bijection DEF ExistsBijection
  <2> HIDE DEF held
  <2>5. Cardinality(held(s) \union Elements(s))
          = Cardinality(held(s)) + Cardinality(Elements(s)) - Cardinality(held(s) \intersect Elements(s))
    BY <2>3, <2>4, FS_Union
  <2>6. Cardinality(held(s) \intersect Elements(s)) = 0
    BY <2>2, FS_EmptySet
  <2>7. all(s) = held(s) \union Elements(s)
    BY <1>1, Zenon DEF held
  <2> HIDE DEF all
  <2>8. Cardinality(all(s)) = Cardinality(held(s)) + Len(pool[s]) - 0
    BY <2>4, <2>5, <2>6, <2>7, Zenon
  <2> QED
    BY <2>1, <2>3, <2>8
<1>4. \A S : M!Cardinality(S) = Cardinality(S)
  BY Zenon DEF M!Cardinality, Cardinality
<1> QED
  BY <1>2, <1>3, <1>4, Zenon DEF M!PoolKeepsApart

MutexInv == Placed /\ OneHolds /\ LockIsHeld /\ PoolInv

---------------------------------------------------------------------------
(* The hooks.                                                              *)

\* What a scheduler remembers is of the file that is open now.
Current(s) == s \notin behind /\ hk[s].known
HookInfos == [r : {-1, 0, Ms}, w : {-1, 0, Ms}, known : BOOLEAN]
Files ==
    [open : BOOLEAN, socket : BOOLEAN, nonblock : BOOLEAN, wanted : BOOLEAN, limit : {0, Ms},
     users : SUBSET (Scheds \union {0}), connected : BOOLEAN, changed : BOOLEAN]
HookTyped == file \in Files /\ hk \in [Scheds -> HookInfos] /\ behind \in SUBSET Scheds

\* A scheduler is behind with what it knows; of no file there is nothing to know.
Remembered ==
    /\ \A s \in behind : hk[s].known
    /\ ~file.open => \A s \in Scheds : ~Current(s)

\* What it remembers is right while the file stays as it was opened: a socket
\* is non-blocking, a hookable one was not meant to be, and the limits are its own.
RemembersRight ==
    file.open /\ ~file.changed =>
        /\ file.wanted => file.nonblock
        /\ \A s \in Scheds : Current(s) =>
              /\ file.socket => file.nonblock
              /\ H!hookable(hk[s]) => ~file.wanted
              /\ {hk[s].r, hk[s].w} \subseteq {0, H!Timeout}

\* A file that nobody wanted non-blocking was made so by a scheduler that
\* knows of it.
MadeByHook ==
    file.open /\ ~file.changed /\ file.nonblock /\ ~file.wanted /\ ~file.connected =>
        \E s \in file.users \intersect Scheds : Current(s) /\ H!hookable(hk[s])
HookInv == HookTyped /\ Remembered /\ RemembersRight /\ MadeByHook /\ H!HookHides

LEMMA HookStart ==
  ASSUME H!HookInit
  PROVE  HookInv
<1> USE CoAssumption
<1>1. file \in Files /\ file.open = FALSE
  BY DEF H!HookInit, H!NoFile, Files
<1>2. hk \in [Scheds -> HookInfos] /\ \A s \in Scheds : hk[s].known = FALSE
  BY DEF H!HookInit, H!Forgotten, HookInfos
<1> QED
  BY <1>1, <1>2 DEF H!HookInit, H!Nothing, HookInv, HookTyped, Remembered, RemembersRight,
     MadeByHook, H!HookHides, Current

\* What get_hook_info says of a descriptor.
LEMMA Info ==
  ASSUME HookTyped, NEW s \in Scheds, NEW dir \in {"r", "w", "any"}, NEW h,
         h = H!get_hook_info(s, dir)
  PROVE  /\ h \in HookInfos /\ h.known
         /\ hk[s].known => /\ H!hookable(h) <=> H!hookable(hk[s])
                           /\ h.r \in {hk[s].r, H!Timeout} /\ h.w \in {hk[s].w, H!Timeout}
         /\ ~hk[s].known => /\ H!hookable(h) <=> ~file.nonblock /\ H!Timeout # 0
                            /\ {h.r, h.w} \subseteq {0, H!Timeout}
<1> USE CoAssumption
<1>1. H!Timeout \in {-1, 0, Ms}
  BY DEF HookTyped, Files, H!Timeout
<1>2. hk[s] \in HookInfos
  BY DEF HookTyped
<1>3. CASE ~hk[s].known
  <2>1. h = H!Made(dir)
    BY <1>3 DEF H!get_hook_info, H!Known
  <2>2. CASE file.nonblock \/ H!Timeout = 0
    <3>1. h = [r |-> 0, w |-> 0, known |-> TRUE]
      BY <2>1, <2>2 DEF H!Made, H!NotHookable
    <3> QED
      BY <1>3, <2>2, <3>1 DEF HookInfos, H!hookable
  <2>3. CASE ~(file.nonblock \/ H!Timeout = 0)
    <3>1. h = IF dir = "r" THEN [r |-> H!Timeout, w |-> 0, known |-> TRUE]
                           ELSE [r |-> 0, w |-> H!Timeout, known |-> TRUE]
      BY <2>1, <2>3 DEF H!Made, H!NotHookable
    <3> QED
      BY <1>1, <1>3, <2>3, <3>1 DEF HookInfos, H!hookable
  <2> QED
    BY <2>2, <2>3
<1>4. CASE hk[s].known
  <2>1. h = IF H!hookable(hk[s]) /\ dir # "any" /\ hk[s][dir] = 0
            THEN [hk[s] EXCEPT ![dir] = H!Timeout] ELSE hk[s]
    BY <1>4 DEF H!get_hook_info, H!Known
  <2>2. CASE h = hk[s]
    BY <1>2, <1>4, <2>2
  <2>3. CASE h # hk[s]
    <3>1. H!hookable(hk[s]) /\ dir # "any" /\ hk[s][dir] = 0 /\ h = [hk[s] EXCEPT ![dir] = H!Timeout]
      BY <2>1, <2>3
    <3>2. CASE dir = "r"
      <4>1. h = [hk[s] EXCEPT !.r = H!Timeout] /\ hk[s].r = 0
        BY <3>1, <3>2
      <4>2. h.r = H!Timeout /\ h.w = hk[s].w /\ h.known = hk[s].known /\ h \in HookInfos
        BY <1>1, <1>2, <4>1 DEF HookInfos
      <4> QED
        BY <1>4, <3>1, <4>1, <4>2 DEF H!hookable
    <3>3. CASE dir = "w"
      <4>1. h = [hk[s] EXCEPT !.w = H!Timeout] /\ hk[s].w = 0
        BY <3>1, <3>3
      <4>2. h.w = H!Timeout /\ h.r = hk[s].r /\ h.known = hk[s].known /\ h \in HookInfos
        BY <1>1, <1>2, <4>1 DEF HookInfos
      <4> QED
        BY <1>4, <3>1, <4>1, <4>2 DEF H!hookable
    <3> QED
      BY <3>1, <3>2, <3>3
  <2> QED
    BY <2>2, <2>3
<1> QED
  BY <1>3, <1>4

\* Files come, change and go; with them goes what was right about them.
LEMMA HookFiles ==
  ASSUME HookInv, H!Open \/ H!SetFlag \/ H!SetLimit \/ H!Unhooked
  PROVE  HookInv'
<1> USE CoAssumption
<1>1. UNCHANGED <<hk, behind>> /\ \A s \in Scheds : Current(s)' <=> Current(s)
  BY DEF H!Open, H!SetFlag, H!SetLimit, H!Unhooked, Current
<1>2. CASE H!Open
  <2>1. PICK socket \in BOOLEAN, wanted \in BOOLEAN :
           file' = [H!NoFile EXCEPT !.open = TRUE, !.socket = socket,
                                    !.nonblock = wanted, !.wanted = wanted]
    BY <1>2 DEF H!Open
  <2>2. file' = [open |-> TRUE, socket |-> socket, nonblock |-> wanted, wanted |-> wanted,
                 limit |-> 0, users |-> {}, connected |-> FALSE, changed |-> FALSE]
    BY <2>1 DEF H!NoFile
  <2>3. file' \in Files /\ file'.nonblock = file'.wanted
    BY <2>2 DEF Files
  <2>4. \A s \in Scheds : ~Current(s)'
    BY <1>1, <1>2 DEF HookInv, Remembered, H!Open
  <2>5. outcome'.how = "none"
    BY <1>2 DEF H!Open, H!Nothing
  <2> QED
    BY <1>1, <2>3, <2>4, <2>5 DEF HookInv, HookTyped, Remembered, RemembersRight, MadeByHook,
       H!HookHides
<1>3. CASE H!SetFlag \/ H!SetLimit
  <2>1. file' \in Files /\ file'.changed /\ file'.open
    <3>1. CASE H!SetFlag
      <4>1. PICK wanted \in BOOLEAN :
               file' = [file EXCEPT !.nonblock = wanted, !.wanted = wanted, !.changed = TRUE]
        BY <3>1 DEF H!SetFlag
      <4> QED
        BY <3>1, <4>1 DEF H!SetFlag, HookInv, HookTyped, Files
    <3>2. CASE H!SetLimit
      <4>1. file' = [file EXCEPT !.limit = Ms, !.changed = TRUE] /\ file.open
        BY <3>2 DEF H!SetLimit
      <4> QED
        BY <4>1 DEF HookInv, HookTyped, Files
    <3> QED
      BY <1>3, <3>1, <3>2
  <2>2. outcome'.how = "none"
    <3>1. outcome' = H!Nothing
      BY <1>3, Zenon DEF H!SetFlag, H!SetLimit
    <3> QED
      BY <3>1 DEF H!Nothing
  <2> QED
    BY <1>1, <2>1, <2>2 DEF HookInv, HookTyped, Remembered, RemembersRight, MadeByHook, H!HookHides
<1>4. CASE H!Unhooked
  <2>1. file' = [file EXCEPT !.users = @ \union {0}] /\ file.open /\ file \in Files
    BY <1>4 DEF H!Unhooked, HookInv, HookTyped
  <2>2. /\ file'.open = file.open /\ file'.socket = file.socket /\ file'.nonblock = file.nonblock
        /\ file'.wanted = file.wanted /\ file'.limit = file.limit /\ file'.changed = file.changed
        /\ file'.connected = file.connected /\ file'.users = file.users \union {0}
        /\ file' \in Files
    BY <2>1 DEF Files
  <2>3. outcome'.how \in {"again", "thread"}
    BY <1>4 DEF H!Unhooked
  <2>4. H!Timeout' = H!Timeout
    BY <2>2 DEF H!Timeout
  <2>5. HookTyped' /\ Remembered'
    BY <1>1, <2>2 DEF HookInv, HookTyped, Remembered
  <2>6. RemembersRight'
    BY <1>1, <2>2, <2>4 DEF HookInv, RemembersRight
  <2>7. MadeByHook'
    BY <1>1, <2>2 DEF HookInv, MadeByHook
  <2>8. H!HookHides'
    BY <2>2, <2>3 DEF H!HookHides
  <2> QED
    BY <2>5, <2>6, <2>7, <2>8 DEF HookInv
<1> QED
  BY <1>2, <1>3, <1>4

LEMMA HookCloses ==
  ASSUME HookInv, H!CloseElsewhere \/ \E s \in Scheds : H!Close(s)
  PROVE  HookInv'
<1> USE CoAssumption
<1>1. file' = [open |-> FALSE, socket |-> FALSE, nonblock |-> FALSE, wanted |-> FALSE, limit |-> 0,
               users |-> {}, connected |-> FALSE, changed |-> FALSE]
      /\ outcome'.how = "none"
  BY DEF H!Close, H!CloseElsewhere, H!NoFile, H!Nothing
<1>2. file' \in Files /\ ~file'.open
  BY <1>1 DEF Files
<1>3. hk' \in [Scheds -> HookInfos] /\ behind' \in SUBSET Scheds /\ Remembered'
  <2>1. ASSUME NEW s \in Scheds, H!Close(s)
        PROVE  hk' \in [Scheds -> HookInfos] /\ behind' \in SUBSET Scheds /\ Remembered'
    <3>1. hk' = [hk EXCEPT ![s] = [r |-> 0, w |-> 0, known |-> FALSE]]
          /\ behind' = (behind \ {s}) \union {t \in Scheds \ {s} : hk[t].known}
      BY <2>1 DEF H!Close, H!find_and_erase, H!Forgotten, H!Known
    <3>2. [r |-> 0, w |-> 0, known |-> FALSE] \in HookInfos
      BY DEF HookInfos
    <3>3. \A t \in Scheds : hk'[t].known <=> hk[t].known /\ t # s
      BY <3>1 DEF HookInv, HookTyped
    <3>4. hk' \in [Scheds -> HookInfos] /\ behind' \in SUBSET Scheds
      BY <3>1, <3>2 DEF HookInv, HookTyped
    <3> QED
      BY <1>2, <3>1, <3>3, <3>4 DEF HookInv, HookTyped, Remembered, Current
  <2>2. CASE H!CloseElsewhere
    BY <1>2, <2>2 DEF H!CloseElsewhere, H!Known, HookInv, HookTyped, Remembered, Current
  <2> QED
    BY <2>1, <2>2
<1> QED
  BY <1>1, <1>2, <1>3 DEF HookInv, HookTyped, RemembersRight, MadeByHook, H!HookHides

\* A call of a coroutine, which connect() is but for what it forgets.
LEMMA HookUses ==
  ASSUME HookInv, NEW s \in Scheds, NEW dir \in {"r", "w", "any"},
         H!Call(s, dir) \/ (dir = "w" /\ H!Connect(s))
  PROVE  HookInv'
<1> USE CoAssumption
<1> DEFINE info == H!get_hook_info(s, dir)
<1>1. PICK h \in HookInfos : h = info
  BY Info DEF HookInv
<1>2. /\ h.known
      /\ hk[s].known => /\ H!hookable(h) <=> H!hookable(hk[s])
                        /\ h.r \in {hk[s].r, H!Timeout} /\ h.w \in {hk[s].w, H!Timeout}
      /\ ~hk[s].known => /\ H!hookable(h) <=> ~file.nonblock /\ H!Timeout # 0
                         /\ {h.r, h.w} \subseteq {0, H!Timeout}
  BY <1>1, Info DEF HookInv
<1> HIDE DEF info
<1> DEFINE B == file.nonblock \/ (~hk[s].known /\ H!hookable(h))
<1>3. /\ file.open /\ file \in Files
      /\ outcome' = H!Ends(s, B, h, dir)
      /\ \E lost \in BOOLEAN :
            /\ file' = [file EXCEPT !.nonblock = B, !.users = @ \union {s},
                                    !.connected = @ \/ lost]
            /\ hk' = [hk EXCEPT ![s] = IF lost THEN H!Forgotten ELSE h]
            /\ behind' = IF lost THEN behind \ {s} ELSE behind
            /\ lost => H!hookable(h)
  <2>1. CASE H!Call(s, dir)
    <3>1. /\ file.open /\ hk' = [hk EXCEPT ![s] = h] /\ behind' = behind
          /\ file' = [file EXCEPT !.nonblock = B, !.users = @ \union {s}]
          /\ outcome' = H!Ends(s, B, h, dir)
      BY <1>1, <2>1 DEF H!Call, H!Known, info
    <3>2. file \in Files
      BY DEF HookInv, HookTyped
    <3>3. [file EXCEPT !.nonblock = B, !.users = @ \union {s}]
            = [file EXCEPT !.nonblock = B, !.users = @ \union {s}, !.connected = @ \/ FALSE]
      BY <3>2 DEF Files
    <3> QED
      BY <3>1, <3>2, <3>3
  <2>2. CASE dir = "w" /\ H!Connect(s)
    <3>1. /\ file.open /\ hk' = [hk EXCEPT ![s] = IF H!hookable(h) THEN H!Forgotten ELSE h]
          /\ behind' = IF H!hookable(h) THEN behind \ {s} ELSE behind
          /\ file' = [file EXCEPT !.nonblock = B, !.users = @ \union {s},
                                  !.connected = @ \/ H!hookable(h)]
          /\ outcome' = H!Ends(s, B, h, dir)
      BY <1>1, <2>2 DEF H!Connect, H!Known, info
    <3>2. file \in Files
      BY DEF HookInv, HookTyped
    <3>3. H!hookable(h) \in BOOLEAN
      BY DEF H!hookable
    <3> QED
      BY <3>1, <3>2, <3>3
  <2> QED
    BY <2>1, <2>2
<1>4. PICK lost \in BOOLEAN :
            /\ file' = [file EXCEPT !.nonblock = B, !.users = @ \union {s},
                                    !.connected = @ \/ lost]
            /\ hk' = [hk EXCEPT ![s] = IF lost THEN H!Forgotten ELSE h]
            /\ behind' = IF lost THEN behind \ {s} ELSE behind
            /\ lost => H!hookable(h)
  BY <1>3
<1>5. /\ file'.open /\ file'.socket = file.socket /\ file'.wanted = file.wanted
      /\ file'.limit = file.limit /\ file'.changed = file.changed
      /\ file'.users = file.users \union {s} /\ file' \in Files
      /\ file'.nonblock <=> B
      /\ file'.connected <=> file.connected \/ lost
  <2>1. B \in BOOLEAN
    OBVIOUS
  <2> HIDE DEF B
  <2> QED
    BY <1>3, <1>4, <2>1 DEF Files
<1>6. H!Timeout' = H!Timeout
  BY <1>5 DEF H!Timeout
<1>7. H!Forgotten \in HookInfos /\ ~H!Forgotten.known
  BY DEF H!Forgotten, HookInfos
<1>8. \A t \in Scheds : hk'[t] = IF t # s THEN hk[t] ELSE IF lost THEN H!Forgotten ELSE h
  BY <1>4 DEF HookInv, HookTyped
<1>9. \A t \in Scheds : /\ t # s => (Current(t)' <=> Current(t))
                        /\ Current(s)' <=> ~lost /\ s \notin behind
  BY <1>2, <1>4, <1>7, <1>8 DEF Current
<1>10. HookTyped' /\ Remembered'
  <2>1. HookTyped'
    BY <1>1, <1>4, <1>5, <1>7 DEF HookInv, HookTyped
  <2>2. \A t \in behind' : hk'[t].known
    BY <1>2, <1>4, <1>8 DEF HookInv, HookTyped, Remembered
  <2> QED
    BY <1>5, <2>1, <2>2 DEF Remembered
<1>11. s \notin behind => (hk[s].known <=> Current(s))
  BY DEF Current
<1>12. RemembersRight'
  <2> SUFFICES ASSUME ~file.changed
               PROVE  /\ file.wanted => B
                      /\ \A t \in Scheds : Current(t)' =>
                            /\ file.socket => B
                            /\ H!hookable(hk'[t]) => ~file.wanted
                            /\ {hk'[t].r, hk'[t].w} \subseteq {0, H!Timeout}
    BY <1>5, <1>6 DEF RemembersRight, H!hookable
  <2>1. file.wanted => file.nonblock
    BY <1>3 DEF HookInv, RemembersRight
  <2>2. ASSUME NEW t \in Scheds \ {s}, Current(t)'
        PROVE  /\ file.socket => B
               /\ H!hookable(hk'[t]) => ~file.wanted
               /\ {hk'[t].r, hk'[t].w} \subseteq {0, H!Timeout}
    BY <1>3, <1>8, <1>9, <2>2 DEF HookInv, RemembersRight
  <2>3. ASSUME Current(s)'
        PROVE  /\ file.socket => B
               /\ H!hookable(hk'[s]) => ~file.wanted
               /\ {hk'[s].r, hk'[s].w} \subseteq {0, H!Timeout}
    <3>1. hk'[s] = h /\ s \notin behind
      BY <1>8, <1>9, <2>3
    <3>2. CASE hk[s].known
      BY <1>2, <1>3, <1>11, <3>1, <3>2 DEF HookInv, RemembersRight
    <3>3. CASE ~hk[s].known
      <4>1. file.socket => H!Timeout # 0
        BY <1>3 DEF H!Timeout, Files
      <4> QED
        BY <1>2, <2>1, <3>1, <3>3, <4>1
    <3> QED
      BY <3>2, <3>3
  <2> QED
    BY <2>1, <2>2, <2>3
<1>13. MadeByHook'
  <2> SUFFICES ASSUME ~file.changed, B, ~file.wanted, ~file.connected, ~lost
               PROVE  \E t \in (file.users \union {s}) \intersect Scheds :
                          Current(t)' /\ H!hookable(hk'[t])
    BY <1>5 DEF MadeByHook, H!hookable
  <2>1. CASE ~hk[s].known /\ H!hookable(h)
    <3>1. s \notin behind
      BY <2>1 DEF HookInv, Remembered
    <3> QED
      BY <1>8, <1>9, <2>1, <3>1
  <2>2. CASE file.nonblock
    <3>1. PICK t \in file.users \intersect Scheds : Current(t) /\ H!hookable(hk[t])
      BY <1>3, <2>2 DEF HookInv, MadeByHook
    <3>2. CASE t # s
      BY <1>8, <1>9, <3>1, <3>2
    <3>3. CASE t = s
      BY <1>2, <1>8, <1>9, <3>1, <3>3 DEF Current
    <3> QED
      BY <3>2, <3>3
  <2> QED
    BY <2>1, <2>2
<1>14. H!HookHides'
  <2>1. /\ outcome'.how = IF ~B THEN "blocks" ELSE IF H!hookable(h) THEN "waits" ELSE "again"
        /\ outcome'.stale <=> s \in behind
        /\ outcome'.limit = IF dir = "any" THEN 0 ELSE h[dir]
    BY <1>3 DEF H!Ends
  <2>2. ASSUME ~file.changed, s \notin behind
        PROVE  /\ B /\ H!hookable(h) => ~file.wanted /\ outcome'.limit \in {0, H!Timeout}
               /\ ~B => ~file.socket
    <3>1. {h.r, h.w} \subseteq {0, H!Timeout}
      BY <1>2, <1>3, <1>11, <2>2 DEF HookInv, RemembersRight
    <3>2. outcome'.limit \in {0, H!Timeout}
      BY <2>1, <3>1
    <3>3. CASE hk[s].known
      BY <1>2, <1>3, <1>11, <2>2, <3>2, <3>3 DEF HookInv, RemembersRight
    <3>4. CASE ~hk[s].known
      <4>1. file.socket => H!Timeout # 0
        BY <1>3 DEF H!Timeout, Files
      <4> QED
        BY <1>2, <1>3, <2>2, <3>2, <3>4, <4>1 DEF HookInv, RemembersRight
    <3> QED
      BY <3>3, <3>4
  <2>3. ASSUME ~file.changed, s \notin behind, ~file.connected, B, ~H!hookable(h), ~file.wanted
        PROVE  \E t \in file.users : t # s
    <3>1. file.nonblock
      BY <2>3
    <3>2. PICK t \in file.users \intersect Scheds : Current(t) /\ H!hookable(hk[t])
      BY <1>3, <2>3, <3>1 DEF HookInv, MadeByHook
    <3>3. t # s
      BY <1>2, <2>3, <3>2 DEF Current
    <3> QED
      BY <3>2, <3>3
  <2> HIDE DEF B
  <2>4. outcome'.how = "again" /\ ~file.wanted => \/ outcome'.stale \/ file.changed \/ file'.connected
                                                  \/ \E t, u \in file'.users : t # u
    <3>1. ASSUME ~outcome'.stale, ~file.changed, ~file'.connected, outcome'.how = "again", ~file.wanted
          PROVE  \E t, u \in file'.users : t # u
      <4>1. B /\ ~H!hookable(h) /\ s \notin behind /\ ~file.connected
        BY <1>5, <2>1, <3>1
      <4>2. PICK t \in file.users : t # s
        BY <2>3, <3>1, <4>1
      <4> QED
        BY <1>5, <4>2
    <3> QED
      BY <3>1
  <2>5. outcome'.how = "blocks" /\ file.socket => outcome'.stale \/ file.changed
    BY <2>1, <2>2
  <2>6. outcome'.how = "waits" => \/ outcome'.stale \/ file.changed
                                  \/ ~file.wanted /\ outcome'.limit \in {0, H!Timeout}
    BY <2>1, <2>2
  <2> QED
    BY <1>5, <1>6, <2>4, <2>5, <2>6 DEF H!HookHides
<1> QED
  BY <1>10, <1>12, <1>13, <1>14 DEF HookInv

LEMMA HookStep ==
  ASSUME HookInv, H!HookNext
  PROVE  HookInv'
<1>1. CASE H!Open \/ H!SetFlag \/ H!SetLimit \/ H!Unhooked
  BY <1>1, HookFiles
<1>2. CASE H!CloseElsewhere \/ \E s \in Scheds : H!Close(s)
  BY <1>2, HookCloses
<1>3. ASSUME NEW s \in Scheds, H!Connect(s)
      PROVE  HookInv'
  BY <1>3, HookUses
<1>4. ASSUME NEW s \in Scheds, NEW dir \in {"r", "w", "any"}, H!Call(s, dir)
      PROVE  HookInv'
  BY <1>4, HookUses
<1> QED
  BY <1>1, <1>2, <1>3, <1>4 DEF H!HookNext

---------------------------------------------------------------------------
(* poll and select.                                                        *)

\* The time left and the time waited are the time asked for; nothing is left
\* only when the steps have used it up exactly.
PollInv ==
    /\ asked \in -1 .. MaxWait /\ left \in Int /\ waited \in Nat
    /\ asked > 0 => /\ left >= 0
                    /\ left > 0 => left + waited = asked /\ waited % Step = 0
                    /\ left = 0 => asked % Step = 0

LEMMA StepOn ==
  ASSUME NEW a \in Nat, NEW s \in Nat \ {0}, a % s = 0
  PROVE  (a + s) % s = 0
<1>1. a = s * (a \div s) /\ a \div s \in Nat
  OBVIOUS
<1>2. PICK k \in Nat : a = s * k
  BY <1>1
<1>3. a + s = s * (k + 1) /\ k + 1 \in Nat
  BY <1>2
<1>4. \A n \in Nat : (s * n) % s = 0
  OBVIOUS
<1> QED
  BY <1>3, <1>4

LEMMA PollStart == H!PollInit => PollInv
  BY CoAssumption DEF H!PollInit, PollInv

LEMMA PollStep ==
  ASSUME PollInv, H!PollNext
  PROVE  PollInv'
<1> USE CoAssumption DEF PollInv
<1>1. ASSUME NEW t \in -1 .. MaxWait, H!PollBegin(t)
      PROVE  PollInv'
  <2>1. 0 % Step = 0
    OBVIOUS
  <2> QED
    BY <1>1, <2>1 DEF H!PollBegin
<1>2. CASE H!PollRound
  <2>1. waited' = waited + Step /\ left' = H!Left /\ asked' = (IF H!GivesUp THEN 0 ELSE asked)
    BY <1>2 DEF H!PollRound
  <2>2. CASE left > 0 /\ ~H!GivesUp /\ asked > 0
    <3>1. left' = left - Step /\ left' >= 0 /\ asked' = asked /\ left + waited = asked
          /\ waited % Step = 0
      BY <2>1, <2>2 DEF H!Left, H!GivesUp
    <3>2. waited' % Step = 0 /\ left' + waited' = asked'
      BY <2>1, <3>1, StepOn, SMTT(20)
    <3> QED
      BY <2>1, <2>2, <3>1, <3>2
  <2>3. CASE ~(left > 0 /\ asked > 0)
    BY <2>1, <2>3 DEF H!Left, H!GivesUp
  <2>4. CASE H!GivesUp
    BY <2>1, <2>4 DEF H!Left
  <2> QED
    BY <2>2, <2>3, <2>4
<1>3. CASE H!PollReady
  BY <1>3 DEF H!PollReady
<1> QED
  BY <1>1, <1>2, <1>3 DEF H!PollNext

LEMMA PollIsRight == PollInv => H!PollGivesUp
  BY CoAssumption DEF PollInv, H!PollGivesUp, H!GivesUp, H!Left

---------------------------------------------------------------------------
(* Timed tasks.  Time is counted in units; a second is Second of them.     *)

Units(n) == n * Second
Took(t) == Units(t.sec - t.count)

\* With u units that have passed but were not counted yet, the task has not
\* been counted down by more than the time since it was asked for, the time
\* the scheduler owed then, and the second in which it was asked for.
NotAhead(t, u) == Took(t) + u <= t.age + t.owed + Second

\* It has been counted down by what it has waited, but for u units.
NotBehind(t, u) == t.age - t.held <= Took(t) + u

\* A task before its first round, or with something left to wait for.
Counts(t) == t.count >= 1 \/ t.count = t.sec

Tasks ==
    [id : Nat, sec : Nat, period : Nat, count : Int, age : Nat, held : Nat, owed : Nat]
TaskTyped ==
    /\ tmp \in Seq(Tasks) /\ tasks \in Seq(Tasks) /\ added \in Nat
    /\ phase \in {"wait", "scan", "fun", "ended"} /\ slept \in 0 .. Second
    /\ i \in Nat \ {0} /\ less \in Nat \ {0} /\ ms \in Nat /\ spent \in Nat
    /\ phase = "fun" => i <= Len(tasks)
    /\ phase = "wait" => spent = 0

\* Units of this wait, and all that the scheduler has still to count for a task
\* that a round is done with.
Slept == IF phase = "wait" THEN slept ELSE 0
Uncounted == ms + spent + Slept

NewTasks ==
    phase # "ended" =>
        \A k \in 1 .. Len(tmp) : LET t == tmp[k] IN
            t.count = t.sec /\ NotAhead(t, Uncounted) /\ NotBehind(t, Slept)

\* Tasks in the wait, and those of a round that it has looked at.
IsDone(k) == phase = "wait" \/ (phase \in {"scan", "fun"} /\ k < i)
DoneTasks ==
    \A k \in 1 .. Len(tasks) : IsDone(k) => LET t == tasks[k] IN
        t.count >= 1 /\ NotAhead(t, Uncounted) /\ NotBehind(t, Slept)

\* Those the round has not reached.
IsAhead(k) == (phase = "scan" /\ k >= i) \/ (phase = "fun" /\ k > i)
TasksAhead ==
    \A k \in 1 .. Len(tasks) : IsAhead(k) => LET t == tasks[k] IN
        Counts(t) /\ NotAhead(t, Units(less) + Uncounted) /\ NotBehind(t, Second)

\* The one that runs: it had counted before this round took from its count.
TaskRuns ==
    phase = "fun" => LET t == tasks[i] IN
        /\ t.count <= 0 /\ NotAhead(t, Uncounted)
        /\ t.count + less >= 1 \/ t.count + less = t.sec
        /\ t.age - t.held <= Units(t.sec - (t.count + less)) + Second

TaskInv == TaskTyped /\ NewTasks /\ DoneTasks /\ TasksAhead /\ TaskRuns

LEMMA UnitsAre ==
  /\ Units(0) = 0 /\ Units(1) = Second
  /\ \A a \in Int : Units(a) \in Int
  /\ \A a, b \in Int : Units(a + b) = Units(a) + Units(b)
  /\ \A a, b \in Int : a <= b => Units(a) <= Units(b)
<1>1. Second \in Nat
  BY CoAssumption
<1>2. \A a, b \in Int : a <= b => a * Second <= b * Second
  <2> SUFFICES ASSUME NEW a \in Int, NEW b \in Int, a <= b
               PROVE  a * Second <= b * Second
    OBVIOUS
  <2>1. PICK d \in Nat : b = a + d
    <3>1. b - a \in Nat /\ b = a + (b - a)
      OBVIOUS
    <3> QED
      BY <3>1
  <2>2. d * Second \in Nat /\ b * Second = a * Second + d * Second
    BY <1>1, <2>1
  <2> QED
    BY <1>1, <2>2
<1> QED
  BY <1>1, <1>2 DEF Units

\* What a round makes good and what it leaves are what it was owed, and a second.
LEMMA RoundUnits ==
  ASSUME NEW n \in Nat
  PROVE  /\ (n \div Second) + 1 \in Nat \ {0} /\ n % Second \in Nat
         /\ Units((n \div Second) + 1) + (n % Second) = n + Second
<1>1. Second \in Nat \ {0}
  BY CoAssumption
<1>2. /\ n \div Second \in Nat /\ n % Second \in Nat
      /\ n = Second * (n \div Second) + (n % Second)
  BY <1>1
<1>3. Units((n \div Second) + 1) = Second * (n \div Second) + Second
  BY <1>1, <1>2 DEF Units
<1> DEFINE q == n \div Second
           r == n % Second
<1>4. q \in Nat /\ r \in Nat /\ n = Second * q + r /\ Units(q + 1) = Second * q + Second
  BY <1>2, <1>3
<1> HIDE DEF q, r
<1>5. PICK m \in Int : m = Second * q
  BY <1>1, <1>4
<1>6. Units(q + 1) + r = n + Second
  BY <1>1, <1>4, <1>5
<1> QED
  <2>1. Units((n \div Second) + 1) + (n % Second) = n + Second
    BY <1>6, Zenon DEF q, r
  <2>2. (n \div Second) + 1 \in Nat \ {0}
    BY <1>2
  <2> QED
    BY <1>2, <2>1, <2>2

\* A unit of time passes, in a task (f is 1) or in the wait (f is 0).
LEMMA UnitPasses ==
  ASSUME NEW t \in Tasks, NEW f \in {0, 1}, NEW r,
         r = [t EXCEPT !.age = @ + 1, !.held = @ + f]
  PROVE  /\ r \in Tasks /\ r.count = t.count /\ r.sec = t.sec
         /\ r.age - r.held = (t.age - t.held) + (1 - f)
         /\ \A u \in Int : NotAhead(t, u) => NotAhead(r, u + 1)
         /\ \A u \in Int : NotBehind(t, u) => NotBehind(r, u + (1 - f))
<1>1. /\ r \in Tasks /\ r.count = t.count /\ r.sec = t.sec /\ r.owed = t.owed
      /\ r.age = t.age + 1 /\ r.held = t.held + f
  <2>1. t.age + 1 \in Nat /\ t.held + f \in Nat
    BY DEF Tasks
  <2>2. r = [id |-> t.id, sec |-> t.sec, period |-> t.period, count |-> t.count,
             age |-> t.age + 1, held |-> t.held + f, owed |-> t.owed]
    BY DEF Tasks
  <2> QED
    BY <2>1, <2>2 DEF Tasks
<1>2. Took(r) = Took(t) /\ Took(t) \in Int /\ {t.age, t.held, t.owed, Second} \subseteq Int
  BY <1>1, UnitsAre, CoAssumption DEF Took, Tasks
<1> HIDE DEF Tasks
<1> QED
  BY <1>1, <1>2 DEF NotAhead, NotBehind

LEMMA OlderIs ==
  ASSUME NEW s \in Seq(Tasks), NEW f \in {0, 1}, f = 1 <=> phase = "fun"
  PROVE  /\ T!Older(s) \in Seq(Tasks) /\ Len(T!Older(s)) = Len(s)
         /\ \A k \in 1 .. Len(s) : T!Older(s)[k] = [s[k] EXCEPT !.age = @ + 1, !.held = @ + f]
<1>1. Len(s) \in Nat /\ DOMAIN s = 1 .. Len(s) /\ \A k \in 1 .. Len(s) : s[k] \in Tasks
  BY LenProperties
<1> DEFINE older(t) == [t EXCEPT !.age = @ + 1, !.held = @ + f]
<1>2. ASSUME NEW t \in Tasks
      PROVE  /\ [t EXCEPT !.age = @ + 1, !.held = IF phase = "fun" THEN @ + 1 ELSE @] = older(t)
             /\ older(t) \in Tasks
  <2>1. older(t) \in Tasks
    BY UnitPasses
  <2>2. (IF phase = "fun" THEN t.held + 1 ELSE t.held) = t.held + f
    BY DEF Tasks
  <2>3. [t EXCEPT !.age = @ + 1, !.held = IF phase = "fun" THEN @ + 1 ELSE @]
          = [t EXCEPT !.age = t.age + 1, !.held = IF phase = "fun" THEN t.held + 1 ELSE t.held]
    BY DEF Tasks
  <2>4. older(t) = [t EXCEPT !.age = t.age + 1, !.held = t.held + f]
    BY DEF Tasks
  <2> QED
    BY <2>1, <2>2, <2>3, <2>4
<1>3. T!Older(s) = [k \in 1 .. Len(s) |->
                       [s[k] EXCEPT !.age = @ + 1, !.held = IF phase = "fun" THEN @ + 1 ELSE @]]
  BY <1>1 DEF T!Older
<1> HIDE DEF older
<1>4. T!Older(s) = [k \in 1 .. Len(s) |-> older(s[k])]
  BY <1>1, <1>2, <1>3
<1>5. /\ T!Older(s) \in Seq(Tasks) /\ Len(T!Older(s)) = Len(s)
      /\ \A k \in 1 .. Len(s) : T!Older(s)[k] = older(s[k])
  <2>1. T!Older(s) \in [1 .. Len(s) -> Tasks] /\ \A k \in 1 .. Len(s) : T!Older(s)[k] = older(s[k])
    BY <1>1, <1>2, <1>4, ZenonT(20)
  <2> QED
    BY <1>1, <2>1
<1> QED
  BY <1>5 DEF older

LEMMA TaskStart ==
  ASSUME NEW where \in {"wait", "ended"}, T!TaskInit(where)
  PROVE  TaskInv
<1>1. tmp = <<>> /\ tasks = <<>> /\ Len(tmp) = 0 /\ Len(tasks) = 0
  BY DEF T!TaskInit
<1>2. TaskTyped
  BY <1>1, EmptySeq, CoAssumption DEF T!TaskInit, TaskTyped
<1> QED
  BY <1>1, <1>2 DEF T!TaskInit, TaskInv, NewTasks, DoneTasks, TasksAhead, TaskRuns

\* A task is asked for.
LEMMA TaskAdded ==
  ASSUME TaskInv, NEW sec \in Nat, NEW period \in Nat, T!Add(T!Task(sec, period))
  PROVE  TaskInv'
<1> DEFINE t == [id |-> added + 1, sec |-> sec, period |-> period, count |-> sec,
                 age |-> 0, held |-> 0, owed |-> ms + spent]
<1>1. /\ tmp' = Append(tmp, t) /\ added' = added + 1 /\ phase # "ended"
      /\ UNCHANGED <<tasks, phase, slept, i, less, ms, spent>>
  BY DEF T!Add, T!Task
<1>2. t \in Tasks /\ tmp \in Seq(Tasks)
  BY DEF TaskInv, TaskTyped, Tasks
<1>3. /\ tmp' \in Seq(Tasks) /\ Len(tmp') = Len(tmp) + 1 /\ Len(tmp) \in Nat
      /\ \A k \in 1 .. Len(tmp) : tmp'[k] = tmp[k]
      /\ tmp'[Len(tmp) + 1] = t
  BY <1>1, <1>2, AppendProperties, LenProperties
<1>4. t.count = t.sec /\ NotAhead(t, Uncounted) /\ NotBehind(t, Slept)
  <2>1. Took(t) = 0
    <3>1. sec - sec = 0
      OBVIOUS
    <3> QED
      BY <3>1, UnitsAre DEF Took
  <2>2. Slept \in 0 .. Second /\ Second \in Nat /\ ms \in Nat /\ spent \in Nat
    BY CoAssumption DEF TaskInv, TaskTyped, Slept
  <2> QED
    BY <2>1, <2>2 DEF NotAhead, NotBehind, Uncounted
<1> HIDE DEF t
<1>5. Uncounted' = Uncounted /\ Slept' = Slept
  BY <1>1 DEF Uncounted, Slept
<1>6. TaskTyped'
  BY <1>1, <1>3 DEF TaskInv, TaskTyped
<1>7. NewTasks'
  <2>1. \A k \in 1 .. Len(tmp') : k \in 1 .. Len(tmp) \/ k = Len(tmp) + 1
    BY <1>3
  <2> QED
    BY <1>1, <1>3, <1>4, <1>5, <2>1 DEF TaskInv, NewTasks
<1>8. DoneTasks' /\ TasksAhead' /\ TaskRuns'
  BY <1>1, <1>5 DEF TaskInv, DoneTasks, TasksAhead, TaskRuns, IsDone, IsAhead
<1> QED
  BY <1>6, <1>7, <1>8 DEF TaskInv

\* A unit of time passes.
LEMMA TaskTick ==
  ASSUME TaskInv, T!Tick
  PROVE  TaskInv'
<1>1. PICK f \in {0, 1} : f = 1 <=> phase = "fun"
  OBVIOUS
<1>2. /\ tmp' = T!Older(tmp) /\ tasks' = T!Older(tasks)
      /\ UNCHANGED <<added, phase, i, less, ms>>
      /\ phase = "wait" => slept < Second /\ slept' = slept + 1 /\ spent' = spent
      /\ phase = "fun" => spent' = spent + 1 /\ slept' = slept
      /\ phase \in {"wait", "fun"}
  BY DEF T!Tick
<1>3. TaskTyped
  BY DEF TaskInv
<1>4. /\ Len(tmp') = Len(tmp) /\ Len(tasks') = Len(tasks)
      /\ Len(tmp) \in Nat /\ Len(tasks) \in Nat
      /\ tmp' \in Seq(Tasks) /\ tasks' \in Seq(Tasks)
      /\ \A k \in 1 .. Len(tmp) : tmp[k] \in Tasks /\ tmp'[k] = [tmp[k] EXCEPT !.age = @ + 1, !.held = @ + f]
      /\ \A k \in 1 .. Len(tasks) : tasks[k] \in Tasks /\ tasks'[k] = [tasks[k] EXCEPT !.age = @ + 1, !.held = @ + f]
  <2>1. tmp \in Seq(Tasks) /\ tasks \in Seq(Tasks)
    BY <1>3 DEF TaskTyped
  <2>2. /\ T!Older(tmp) \in Seq(Tasks) /\ Len(T!Older(tmp)) = Len(tmp)
        /\ \A k \in 1 .. Len(tmp) : T!Older(tmp)[k] = [tmp[k] EXCEPT !.age = @ + 1, !.held = @ + f]
    BY <1>1, <2>1, OlderIs
  <2>3. /\ T!Older(tasks) \in Seq(Tasks) /\ Len(T!Older(tasks)) = Len(tasks)
        /\ \A k \in 1 .. Len(tasks) : T!Older(tasks)[k] = [tasks[k] EXCEPT !.age = @ + 1, !.held = @ + f]
    BY <1>1, <2>1, OlderIs
  <2>4. /\ Len(tmp) \in Nat /\ \A k \in 1 .. Len(tmp) : tmp[k] \in Tasks
        /\ Len(tasks) \in Nat /\ \A k \in 1 .. Len(tasks) : tasks[k] \in Tasks
    BY <2>1, LenProperties
  <2> QED
    BY <1>2, <2>2, <2>3, <2>4
<1>5. /\ Uncounted \in Int /\ Slept \in Int /\ Units(less) \in Int /\ Second \in Nat
      /\ Uncounted' = Uncounted + 1 /\ Slept' = Slept + (1 - f)
  <2>1. /\ ms \in Nat /\ spent \in Nat /\ slept \in Nat /\ less \in Int /\ Second \in Nat
        /\ Units(less) \in Int
    BY <1>3, UnitsAre, CoAssumption DEF TaskTyped
  <2>2. CASE f = 1
    BY <1>1, <1>2, <2>1, <2>2 DEF Uncounted, Slept
  <2>3. CASE f = 0
    <3>1. phase = "wait" /\ phase' = "wait" /\ slept' = slept + 1 /\ spent' = spent /\ ms' = ms
      BY <1>1, <1>2, <2>3
    <3> QED
      BY <2>1, <2>3, <3>1 DEF Uncounted, Slept
  <2> QED
    BY <2>2, <2>3
<1>6. TaskTyped'
  <2>1. slept' \in 0 .. Second /\ spent' \in Nat /\ (phase' = "wait" => spent' = 0)
    BY <1>2, <1>3, CoAssumption DEF TaskTyped
  <2> QED
    <3>1. phase' = phase /\ i' = i /\ less' = less /\ ms' = ms /\ added' = added
      BY <1>2
    <3>2. phase' = "fun" => i' <= Len(tasks')
      BY <1>3, <1>4, <3>1 DEF TaskTyped
    <3>3. tmp' \in Seq(Tasks) /\ tasks' \in Seq(Tasks)
      BY <1>4
    <3>4. /\ added' \in Nat /\ phase' \in {"wait", "scan", "fun", "ended"}
          /\ i' \in Nat \ {0} /\ less' \in Nat \ {0} /\ ms' \in Nat
      BY <1>3, <3>1 DEF TaskTyped
    <3> QED
      BY <2>1, <3>2, <3>3, <3>4 DEF TaskTyped
<1>7. NewTasks'
  <2> SUFFICES ASSUME NEW k \in 1 .. Len(tmp)
               PROVE  /\ tmp'[k].count = tmp'[k].sec /\ NotAhead(tmp'[k], Uncounted')
                      /\ NotBehind(tmp'[k], Slept')
    BY <1>4 DEF NewTasks, NotAhead, NotBehind, Took
  <2>1. tmp[k].count = tmp[k].sec /\ NotAhead(tmp[k], Uncounted) /\ NotBehind(tmp[k], Slept)
    BY <1>2 DEF TaskInv, NewTasks
  <2>2. /\ tmp'[k].count = tmp[k].count /\ tmp'[k].sec = tmp[k].sec
        /\ NotAhead(tmp'[k], Uncounted + 1) /\ NotBehind(tmp'[k], Slept + (1 - f))
    <3>1. tmp[k] \in Tasks /\ tmp'[k] = [tmp[k] EXCEPT !.age = @ + 1, !.held = @ + f]
      BY <1>4
    <3>2. /\ tmp'[k].count = tmp[k].count /\ tmp'[k].sec = tmp[k].sec
          /\ \A u \in Int : NotAhead(tmp[k], u) => NotAhead(tmp'[k], u + 1)
          /\ \A u \in Int : NotBehind(tmp[k], u) => NotBehind(tmp'[k], u + (1 - f))
      BY <3>1, UnitPasses
    <3> QED
      BY <1>5, <2>1, <3>2
  <2> QED
    BY <1>5, <2>1, <2>2
<1>8. DoneTasks'
  <2> SUFFICES ASSUME NEW k \in 1 .. Len(tasks), IsDone(k)'
               PROVE  /\ tasks'[k].count >= 1 /\ NotAhead(tasks'[k], Uncounted')
                      /\ NotBehind(tasks'[k], Slept')
    BY <1>4 DEF DoneTasks, NotAhead, NotBehind, Took
  <2>1. IsDone(k)
    BY <1>2 DEF IsDone
  <2>2. tasks[k].count >= 1 /\ NotAhead(tasks[k], Uncounted) /\ NotBehind(tasks[k], Slept)
    BY <2>1 DEF TaskInv, DoneTasks
  <2>3. /\ tasks'[k].count = tasks[k].count
        /\ NotAhead(tasks'[k], Uncounted + 1) /\ NotBehind(tasks'[k], Slept + (1 - f))
    <3>1. tasks[k] \in Tasks /\ tasks'[k] = [tasks[k] EXCEPT !.age = @ + 1, !.held = @ + f]
      BY <1>4
    <3>2. /\ tasks'[k].count = tasks[k].count
          /\ \A u \in Int : NotAhead(tasks[k], u) => NotAhead(tasks'[k], u + 1)
          /\ \A u \in Int : NotBehind(tasks[k], u) => NotBehind(tasks'[k], u + (1 - f))
      BY <3>1, UnitPasses
    <3> QED
      BY <1>5, <2>2, <3>2
  <2> QED
    BY <1>5, <2>2, <2>3
<1>9. CASE phase = "wait"
  <2>1. TasksAhead' /\ TaskRuns'
    BY <1>2, <1>9 DEF TasksAhead, TaskRuns, IsAhead
  <2> QED
    BY <1>6, <1>7, <1>8, <2>1 DEF TaskInv
<1>10. CASE phase = "fun"
  <2>1. f = 1 /\ 1 - f = 0 /\ i \in 1 .. Len(tasks)
    BY <1>1, <1>3, <1>10 DEF TaskTyped
  <2>2. TasksAhead'
    <3> SUFFICES ASSUME NEW k \in 1 .. Len(tasks), k > i
                 PROVE  /\ Counts(tasks'[k]) /\ NotAhead(tasks'[k], Units(less) + Uncounted')
                        /\ NotBehind(tasks'[k], Second)
      BY <1>2, <1>4, <1>10 DEF TasksAhead, IsAhead, NotAhead, NotBehind, Took, Counts, Units
    <3>1. /\ Counts(tasks[k]) /\ NotAhead(tasks[k], Units(less) + Uncounted)
          /\ NotBehind(tasks[k], Second)
      BY <1>10 DEF TaskInv, TasksAhead, IsAhead
    <3>2. Units(less) + Uncounted' = (Units(less) + Uncounted) + 1 /\ Second + (1 - f) = Second
      BY <1>5, <2>1
    <3>3. /\ tasks'[k].count = tasks[k].count /\ tasks'[k].sec = tasks[k].sec
          /\ NotAhead(tasks'[k], (Units(less) + Uncounted) + 1)
          /\ NotBehind(tasks'[k], Second + (1 - f))
      <4>1. Units(less) + Uncounted \in Int /\ Second \in Int
        BY <1>5
      <4> QED
        BY <1>4, <2>1, <3>1, <4>1, UnitPasses
    <3> QED
      BY <3>1, <3>2, <3>3 DEF Counts
  <2>3. TaskRuns'
    <3>1. /\ tasks[i].count <= 0 /\ NotAhead(tasks[i], Uncounted)
          /\ tasks[i].count + less >= 1 \/ tasks[i].count + less = tasks[i].sec
          /\ tasks[i].age - tasks[i].held <= Units(tasks[i].sec - (tasks[i].count + less)) + Second
      BY <1>10 DEF TaskInv, TaskRuns
    <3>2. /\ tasks'[i].count = tasks[i].count /\ tasks'[i].sec = tasks[i].sec
          /\ tasks'[i].age - tasks'[i].held = (tasks[i].age - tasks[i].held) + (1 - f)
          /\ NotAhead(tasks'[i], Uncounted + 1) /\ tasks[i] \in Tasks
      BY <1>4, <1>5, <2>1, <3>1, UnitPasses
    <3>3. tasks'[i].age - tasks'[i].held = tasks[i].age - tasks[i].held
      BY <2>1, <3>2 DEF Tasks
    <3> QED
      BY <1>2, <1>5, <3>1, <3>2, <3>3 DEF TaskRuns, NotAhead, Took, Units
  <2> QED
    BY <1>6, <1>7, <1>8, <2>2, <2>3 DEF TaskInv
<1> QED
  BY <1>2, <1>9, <1>10

\* The wait is over: all the tasks are still ahead.
LEMMA TaskRound ==
  ASSUME TaskInv, T!Round
  PROVE  TaskInv'
<1>1. /\ phase = "wait" /\ slept = Second /\ phase' = "scan" /\ i' = 1 /\ spent' = 0
      /\ tasks' = tasks \o tmp /\ tmp' = <<>>
      /\ less' = (ms \div Second) + 1 /\ ms' = ms % Second
      /\ UNCHANGED <<added, slept>>
  BY DEF T!Round, T!Joined
<1>2. TaskTyped /\ spent = 0 /\ ms \in Nat /\ Second \in Nat
  BY <1>1, CoAssumption DEF TaskInv, TaskTyped
<1>3. /\ less' \in Nat \ {0} /\ ms' \in Nat /\ Units(less') + ms' = ms + Second
  BY <1>1, <1>2, RoundUnits
<1>4. Uncounted = ms + Second /\ Slept = Second /\ Uncounted' = ms' /\ Slept' = 0
  BY <1>1, <1>2, <1>3 DEF Uncounted, Slept
<1>5. /\ tasks' \in Seq(Tasks) /\ Len(tasks) \in Nat /\ Len(tmp) \in Nat
      /\ Len(tasks') = Len(tasks) + Len(tmp)
      /\ \A k \in 1 .. Len(tasks') :
            tasks'[k] = IF k <= Len(tasks) THEN tasks[k] ELSE tmp[k - Len(tasks)]
  <2>1. tmp \in Seq(Tasks) /\ tasks \in Seq(Tasks)
    BY <1>2 DEF TaskTyped
  <2> QED
    BY <1>1, <2>1, ConcatProperties, LenProperties
<1>6. ASSUME NEW k \in 1 .. Len(tasks')
      PROVE  /\ Counts(tasks'[k]) /\ NotAhead(tasks'[k], ms + Second)
             /\ NotBehind(tasks'[k], Second)
  <2>1. CASE k <= Len(tasks)
    <3>1. k \in 1 .. Len(tasks) /\ tasks'[k] = tasks[k] /\ IsDone(k)
      BY <1>1, <1>5, <2>1 DEF IsDone
    <3> QED
      BY <1>4, <3>1 DEF TaskInv, DoneTasks, Counts
  <2>2. CASE ~(k <= Len(tasks))
    <3>1. k - Len(tasks) \in 1 .. Len(tmp) /\ tasks'[k] = tmp[k - Len(tasks)]
      BY <1>5, <2>2
    <3> QED
      BY <1>1, <1>4, <3>1 DEF TaskInv, NewTasks, Counts
  <2> QED
    BY <2>1, <2>2
<1>7. TaskTyped'
  <2>1. tmp' \in Seq(Tasks)
    BY <1>1, EmptySeq
  <2> QED
    BY <1>1, <1>2, <1>3, <1>5, <2>1 DEF TaskTyped
<1>8. NewTasks'
  BY <1>1 DEF NewTasks
<1>9. DoneTasks' /\ TaskRuns'
  BY <1>1 DEF DoneTasks, IsDone, TaskRuns
<1>10. TasksAhead'
  <2>1. Units(less') + Uncounted' = ms + Second
    BY <1>3, <1>4
  <2> QED
    BY <1>6, <2>1 DEF TasksAhead, Counts, NotAhead, NotBehind, Took, Units
<1> QED
  BY <1>7, <1>8, <1>9, <1>10 DEF TaskInv

\* A task is counted down.
Down(t, d) == [t EXCEPT !.count = @ - d]
LEMMA CountedDown ==
  ASSUME NEW t \in Tasks, NEW d \in Nat \ {0}, NEW u \in Int,
         Counts(t), NotAhead(t, Units(d) + u), NotBehind(t, Second)
  PROVE  /\ Down(t, d) \in Tasks /\ Down(t, d).count \in Int /\ Down(t, d).count = t.count - d
         /\ NotAhead(Down(t, d), u) /\ NotBehind(Down(t, d), 0)
         /\ Down(t, d).count + d >= 1 \/ Down(t, d).count + d = t.sec
         /\ Down(t, d).age - Down(t, d).held
              <= Units(t.sec - (Down(t, d).count + d)) + Second
         /\ Down(t, d).sec = t.sec
<1> DEFINE r == Down(t, d)
<1>1. /\ r \in Tasks /\ r.count = t.count - d /\ r.sec = t.sec /\ r.age = t.age
      /\ r.held = t.held /\ r.owed = t.owed /\ t.count \in Int /\ t.sec \in Int
      /\ t.age \in Int /\ t.held \in Int /\ t.owed \in Int
  <2>1. r = [id |-> t.id, sec |-> t.sec, period |-> t.period, count |-> t.count - d,
             age |-> t.age, held |-> t.held, owed |-> t.owed]
    BY DEF Down, Tasks
  <2>2. t.count \in Int /\ t.count - d \in Int
    BY DEF Tasks
  <2> QED
    BY <2>1, <2>2 DEF Tasks
<1> HIDE DEF r
<1>2. /\ Took(r) = Took(t) + Units(d) /\ Took(t) \in Int /\ Units(d) \in Int
      /\ Units(d) >= Second /\ Second \in Nat
  <2>1. /\ t.sec - t.count \in Int /\ d \in Int
        /\ r.sec - r.count = (t.sec - t.count) + d
    BY <1>1
  <2>2. Units(1) <= Units(d)
    <3>1. 1 \in Int /\ d \in Int /\ 1 <= d
      OBVIOUS
    <3> QED
      BY <3>1, UnitsAre
  <2>3. Units(r.sec - r.count) = Units(t.sec - t.count) + Units(d)
    BY <2>1, UnitsAre
  <2>4. Units(t.sec - t.count) \in Int /\ Units(d) \in Int
    BY <2>1, UnitsAre
  <2> QED
    BY <2>2, <2>3, <2>4, UnitsAre, CoAssumption DEF Took
<1>3. NotAhead(r, u) /\ NotBehind(r, 0)
  BY <1>1, <1>2 DEF NotAhead, NotBehind
<1>4. r.count + d = t.count
  BY <1>1
<1>5. r.count + d >= 1 \/ r.count + d = r.sec
  BY <1>1, <1>4 DEF Counts
<1>6. r.age - r.held <= Units(r.sec - (r.count + d)) + Second
  BY <1>1, <1>4 DEF NotBehind, Took
<1> QED
  BY <1>1, <1>3, <1>5, <1>6 DEF r

\* The next task is counted down: it is left behind, or it runs.
LEMMA TaskScan ==
  ASSUME TaskInv, T!Scan
  PROVE  TaskInv'
<1>1. /\ phase = "scan" /\ i <= Len(tasks)
      /\ UNCHANGED <<tmp, added, slept, less, ms, spent>>
  BY DEF T!Scan
<1>2. /\ tasks \in Seq(Tasks) /\ Len(tasks) \in Nat /\ i \in 1 .. Len(tasks)
      /\ less \in Nat \ {0} /\ less \in Int /\ i \in Nat
      /\ Uncounted \in Int /\ Units(less) \in Int
  <2>1. tasks \in Seq(Tasks) /\ i \in Nat \ {0} /\ less \in Nat \ {0}
    BY DEF TaskInv, TaskTyped
  <2>2. Uncounted \in Int
    BY CoAssumption DEF TaskInv, TaskTyped, Uncounted, Slept
  <2> QED
    BY <1>1, <2>1, <2>2, UnitsAre, LenProperties
<1>3. PICK t \in Tasks : t = tasks[i]
  BY <1>2
<1>4. PICK r : r = Down(t, less)
  OBVIOUS
<1>5. Counts(t) /\ NotAhead(t, Units(less) + Uncounted) /\ NotBehind(t, Second)
  BY <1>1, <1>2, <1>3 DEF TaskInv, TasksAhead, IsAhead
<1>6. /\ r \in Tasks /\ r.count \in Int /\ r.count = t.count - less
      /\ NotAhead(r, Uncounted) /\ NotBehind(r, 0)
      /\ r.count + less >= 1 \/ r.count + less = r.sec
      /\ r.age - r.held <= Units(r.sec - (r.count + less)) + Second
  BY <1>2, <1>4, <1>5, CountedDown
<1>7. /\ tasks' = [tasks EXCEPT ![i] = r]
      /\ tasks' \in Seq(Tasks) /\ Len(tasks') = Len(tasks)
      /\ \A k \in 1 .. Len(tasks) : tasks'[k] = IF k = i THEN r ELSE tasks[k]
  <2>1. tasks' = [tasks EXCEPT ![i] = r]
    BY <1>2, <1>3, <1>4 DEF T!Scan, Down
  <2> QED
    BY <1>2, <1>6, <2>1, ExceptSeq
<1>8. CASE r.count <= 0
  <2>1. phase' = "fun" /\ i' = i
    BY <1>2, <1>7, <1>8 DEF T!Scan
  <2>2. Uncounted' = Uncounted /\ Slept' = Slept
    BY <1>1, <2>1 DEF Uncounted, Slept
  <2>3. TaskTyped'
    BY <1>1, <1>2, <1>7, <2>1 DEF TaskInv, TaskTyped
  <2>4. NewTasks'
    BY <1>1, <2>1, <2>2 DEF TaskInv, NewTasks
  <2>5. DoneTasks'
    BY <1>1, <1>2, <1>7, <2>1, <2>2 DEF TaskInv, DoneTasks, IsDone
  <2>6. TasksAhead'
    BY <1>1, <1>2, <1>7, <2>1, <2>2 DEF TaskInv, TasksAhead, IsAhead
  <2>7. TaskRuns'
    <3>1. tasks'[i'] = r /\ less' = less
      BY <1>1, <1>2, <1>7, <2>1
    <3> QED
      BY <1>6, <1>8, <2>2, <3>1 DEF TaskRuns, NotAhead, Took, Units
  <2> QED
    BY <2>3, <2>4, <2>5, <2>6, <2>7 DEF TaskInv
<1>9. CASE ~(r.count <= 0)
  <2>1. phase' = "scan" /\ i' = i + 1
    BY <1>1, <1>2, <1>7, <1>9 DEF T!Scan
  <2>2. Uncounted' = Uncounted /\ Slept' = 0
    BY <1>1, <2>1 DEF Uncounted, Slept
  <2>3. TaskTyped'
    BY <1>1, <1>2, <1>7, <2>1 DEF TaskInv, TaskTyped
  <2>4. NewTasks'
    BY <1>1, <2>1, <2>2 DEF TaskInv, NewTasks, Slept
  <2>5. r.count >= 1
    BY <1>6, <1>9
  <2>6. DoneTasks'
    <3> SUFFICES ASSUME NEW k \in 1 .. Len(tasks), k < i + 1
                 PROVE  /\ tasks'[k].count >= 1 /\ NotAhead(tasks'[k], Uncounted)
                        /\ NotBehind(tasks'[k], 0)
      BY <1>7, <2>1, <2>2 DEF DoneTasks, IsDone, NotAhead, NotBehind, Took, Units
    <3>1. CASE k = i
      BY <1>7, <1>6, <2>5, <3>1
    <3>2. CASE k # i
      <4>1. k < i /\ tasks'[k] = tasks[k] /\ Slept = 0
        BY <1>1, <1>2, <1>7, <3>2 DEF Slept
      <4> QED
        BY <1>1, <4>1 DEF TaskInv, DoneTasks, IsDone
    <3> QED
      BY <3>1, <3>2
  <2>7. TasksAhead'
    <3> SUFFICES ASSUME NEW k \in 1 .. Len(tasks), k >= i + 1
                 PROVE  /\ Counts(tasks'[k]) /\ NotAhead(tasks'[k], Units(less) + Uncounted)
                        /\ NotBehind(tasks'[k], Second)
      BY <1>1, <1>7, <2>1, <2>2 DEF TasksAhead, IsAhead, NotAhead, NotBehind, Took, Units, Counts
    <3>1. k >= i /\ tasks'[k] = tasks[k]
      BY <1>2, <1>7
    <3> QED
      BY <1>1, <3>1 DEF TaskInv, TasksAhead, IsAhead
  <2>8. TaskRuns'
    BY <2>1 DEF TaskRuns
  <2> QED
    BY <2>3, <2>4, <2>6, <2>7, <2>8 DEF TaskInv
<1> QED
  BY <1>8, <1>9

LEMMA TaskOthers ==
  ASSUME TaskInv, T!RoundEnd \/ T!Stop \/ T!End \/ T!StopReturns
  PROVE  TaskInv'
<1>1. CASE T!RoundEnd
  <2>1. /\ phase = "scan" /\ i > Len(tasks) /\ ms' = ms + spent /\ spent' = 0
        /\ phase' = "wait" /\ slept' = 0 /\ UNCHANGED <<tmp, tasks, added, i, less>>
    BY <1>1 DEF T!RoundEnd
  <2>2. TaskTyped /\ Len(tasks) \in Nat /\ Second \in Nat /\ ms \in Nat /\ spent \in Nat
    BY CoAssumption, LenProperties DEF TaskInv, TaskTyped
  <2>3. Uncounted' = Uncounted /\ Slept' = 0 /\ Slept = 0
    BY <2>1, <2>2 DEF Uncounted, Slept
  <2>4. TaskTyped'
    BY <2>1, <2>2 DEF TaskTyped
  <2>5. NewTasks'
    BY <2>1, <2>3 DEF TaskInv, NewTasks
  <2>6. DoneTasks'
    <3>1. \A k \in 1 .. Len(tasks) : IsDone(k)
      BY <2>1, <2>2 DEF IsDone, TaskTyped
    <3> QED
      BY <2>1, <2>3, <3>1 DEF TaskInv, DoneTasks
  <2>7. TasksAhead' /\ TaskRuns'
    BY <2>1 DEF TasksAhead, IsAhead, TaskRuns
  <2> QED
    BY <2>4, <2>5, <2>6, <2>7 DEF TaskInv
<1>2. CASE T!Stop
  <2>1. UNCHANGED <<tmp, tasks, added, phase, slept, i, less, ms, spent>>
    BY <1>2 DEF T!Stop
  <2> QED
    BY <2>1 DEF TaskInv, TaskTyped, NewTasks, DoneTasks, TasksAhead, TaskRuns, IsDone, IsAhead,
       Uncounted, Slept
<1>3. CASE T!End \/ T!StopReturns
  <2>1. /\ phase' = "ended" /\ UNCHANGED <<added, slept, i, less, ms, spent>>
        /\ tmp' \in Seq(Tasks) /\ tasks' \in Seq(Tasks)
    <3>1. CASE T!End
      BY <3>1 DEF T!End, TaskInv, TaskTyped
    <3>2. CASE T!StopReturns
      BY <3>2, EmptySeq DEF T!StopReturns
    <3> QED
      BY <1>3, <3>1, <3>2
  <2>2. TaskTyped'
    BY <2>1 DEF TaskInv, TaskTyped
  <2> QED
    BY <2>1, <2>2 DEF TaskInv, NewTasks, DoneTasks, TasksAhead, TaskRuns, IsDone, IsAhead
<1> QED
  BY <1>1, <1>2, <1>3

\* A task has run: it is counted anew, or another comes in its place.
LEMMA TaskRan ==
  ASSUME TaskInv, T!Ran
  PROVE  TaskInv'
<1>1. /\ phase = "fun" /\ phase' = "scan"
      /\ UNCHANGED <<tmp, added, slept, less, ms, spent>>
  BY DEF T!Ran
<1>2. /\ tasks \in Seq(Tasks) /\ Len(tasks) \in Nat /\ i \in 1 .. Len(tasks)
      /\ i \in Nat /\ ms \in Nat /\ spent \in Nat /\ Second \in Nat
      /\ \A k \in 1 .. Len(tasks) : tasks[k] \in Tasks
  <2>1. tasks \in Seq(Tasks) /\ i \in Nat \ {0} /\ i <= Len(tasks) /\ ms \in Nat /\ spent \in Nat
    BY <1>1 DEF TaskInv, TaskTyped
  <2> QED
    BY <2>1, LenProperties, CoAssumption
<1>3. Uncounted = ms + spent /\ Uncounted' = Uncounted /\ Slept' = Slept /\ Slept = 0
  BY <1>1, <1>2 DEF Uncounted, Slept
<1>4. PICK t \in Tasks : t = tasks[i]
  BY <1>2
<1>5. ASSUME tasks' \in Seq(Tasks), i' \in Nat \ {0}
      PROVE  TaskTyped' /\ NewTasks' /\ TaskRuns'
  <2>1. TaskTyped'
    BY <1>1, <1>5 DEF TaskInv, TaskTyped
  <2> QED
    BY <1>1, <1>3, <2>1 DEF TaskInv, NewTasks, TaskRuns
<1>6. CASE t.period > 0
  <2>1. PICK r : r = [t EXCEPT !.count = t.period, !.sec = t.period,
                               !.age = 0, !.held = 0, !.owed = ms + spent]
    OBVIOUS
  <2>2. /\ r \in Tasks /\ r.count >= 1 /\ r.count = r.sec
        /\ r.age = 0 /\ r.held = 0 /\ r.owed = ms + spent
    <3>1. r = [id |-> t.id, sec |-> t.period, period |-> t.period, count |-> t.period,
               age |-> 0, held |-> 0, owed |-> ms + spent]
      BY <2>1 DEF Tasks
    <3>2. ms + spent \in Nat /\ t.period \in Nat \ {0}
      <4>1. t.period \in Nat
        BY DEF Tasks
      <4> QED
        BY <1>2, <1>6, <4>1
    <3> QED
      BY <3>1, <3>2 DEF Tasks
  <2>3. NotAhead(r, Uncounted) /\ NotBehind(r, 0)
    <3>1. Took(r) = 0
      <4>1. r.sec - r.count = 0
        BY <2>2 DEF Tasks
      <4> QED
        BY <4>1, UnitsAre DEF Took
    <3> QED
      BY <1>2, <1>3, <2>2, <3>1 DEF NotAhead, NotBehind
  <2>4. /\ i' = i + 1 /\ tasks' = [tasks EXCEPT ![i] = r]
        /\ tasks' \in Seq(Tasks) /\ Len(tasks') = Len(tasks)
        /\ \A k \in 1 .. Len(tasks) : tasks'[k] = IF k = i THEN r ELSE tasks[k]
    <3>1. i' = i + 1 /\ tasks' = [tasks EXCEPT ![i] = r]
      BY <1>2, <1>4, <1>6, <2>1 DEF T!Ran
    <3> QED
      BY <1>2, <2>2, <3>1, ExceptSeq
  <2>5. TaskTyped' /\ NewTasks' /\ TaskRuns'
    BY <1>2, <1>5, <2>4
  <2>6. DoneTasks'
    <3> SUFFICES ASSUME NEW k \in 1 .. Len(tasks), k < i + 1
                 PROVE  /\ tasks'[k].count >= 1 /\ NotAhead(tasks'[k], Uncounted)
                        /\ NotBehind(tasks'[k], 0)
      BY <1>1, <1>3, <2>4 DEF DoneTasks, IsDone, NotAhead, NotBehind, Took, Units
    <3>1. CASE k = i
      BY <2>2, <2>3, <2>4, <3>1
    <3>2. CASE k # i
      <4>1. k < i /\ tasks'[k] = tasks[k]
        BY <1>2, <2>4, <3>2
      <4> QED
        BY <1>1, <1>3, <4>1 DEF TaskInv, DoneTasks, IsDone
    <3> QED
      BY <3>1, <3>2
  <2>7. TasksAhead'
    <3> SUFFICES ASSUME NEW k \in 1 .. Len(tasks), k >= i + 1
                 PROVE  /\ Counts(tasks'[k]) /\ NotAhead(tasks'[k], Units(less) + Uncounted)
                        /\ NotBehind(tasks'[k], Second)
      BY <1>1, <1>3, <2>4 DEF TasksAhead, IsAhead, NotAhead, NotBehind, Took, Units, Counts
    <3>1. k > i /\ tasks'[k] = tasks[k]
      BY <1>2, <2>4
    <3> QED
      BY <1>1, <3>1 DEF TaskInv, TasksAhead, IsAhead
  <2> QED
    BY <2>5, <2>6, <2>7 DEF TaskInv
<1>7. CASE ~(t.period > 0)
  <2>1. i' = i /\ tasks' = T!Front([tasks EXCEPT ![i] = T!Last(tasks)])
    BY <1>4, <1>7 DEF T!Ran, T!Drop
  <2>2. /\ tasks' \in Seq(Tasks) /\ Len(tasks') = Len(tasks) - 1
        /\ \A k \in 1 .. Len(tasks) - 1 :
              tasks'[k] = IF k = i THEN tasks[Len(tasks)] ELSE tasks[k]
    <3> DEFINE moved == [tasks EXCEPT ![i] = tasks[Len(tasks)]]
    <3>1. T!Last(tasks) = tasks[Len(tasks)] /\ tasks[Len(tasks)] \in Tasks
      BY <1>2 DEF T!Last
    <3>2. /\ moved \in Seq(Tasks) /\ Len(moved) = Len(tasks)
          /\ \A k \in 1 .. Len(tasks) : moved[k] = IF k = i THEN tasks[Len(tasks)] ELSE tasks[k]
      BY <1>2, <3>1, ExceptSeq
    <3>3. tasks' = T!Front(moved)
      BY <2>1, <3>1
    <3> HIDE DEF moved
    <3>4. moved # <<>>
      BY <1>2, <3>2
    <3>5. /\ T!Front(moved) \in Seq(Tasks) /\ Len(T!Front(moved)) = Len(moved) - 1
          /\ \A k \in 1 .. Len(moved) - 1 : T!Front(moved)[k] = moved[k]
      BY <3>2, <3>4, AllButLast DEF T!Front
    <3> QED
      BY <1>2, <3>2, <3>3, <3>5
  <2>3. TaskTyped' /\ NewTasks' /\ TaskRuns'
    BY <1>2, <1>5, <2>1, <2>2
  <2>4. DoneTasks'
    <3> SUFFICES ASSUME NEW k \in 1 .. Len(tasks) - 1, k < i
                 PROVE  /\ tasks'[k].count >= 1 /\ NotAhead(tasks'[k], Uncounted)
                        /\ NotBehind(tasks'[k], 0)
      BY <1>1, <1>3, <2>1, <2>2 DEF DoneTasks, IsDone, NotAhead, NotBehind, Took, Units
    <3>1. k \in 1 .. Len(tasks) /\ tasks'[k] = tasks[k]
      BY <1>2, <2>2
    <3> QED
      BY <1>1, <1>3, <3>1 DEF TaskInv, DoneTasks, IsDone
  <2>5. TasksAhead'
    <3> SUFFICES ASSUME NEW k \in 1 .. Len(tasks) - 1, k >= i
                 PROVE  /\ Counts(tasks'[k]) /\ NotAhead(tasks'[k], Units(less) + Uncounted)
                        /\ NotBehind(tasks'[k], Second)
      BY <1>1, <1>3, <2>1, <2>2 DEF TasksAhead, IsAhead, NotAhead, NotBehind, Took, Units, Counts
    <3>1. PICK n \in 1 .. Len(tasks) : n > i /\ tasks'[k] = tasks[n]
      <4>1. CASE k = i
        BY <1>2, <2>2, <4>1
      <4>2. CASE k # i
        BY <1>2, <2>2, <4>2
      <4> QED
        BY <4>1, <4>2
    <3>2. Counts(tasks[n]) /\ NotAhead(tasks[n], Units(less) + Uncounted) /\ NotBehind(tasks[n], Second)
      BY <1>1, <3>1 DEF TaskInv, TasksAhead, IsAhead
    <3> QED
      BY <3>1, <3>2
  <2> QED
    BY <2>3, <2>4, <2>5 DEF TaskInv
<1> QED
  BY <1>6, <1>7

LEMMA TaskStep ==
  ASSUME TaskInv, T!TaskNext
  PROVE  TaskInv'
<1>1. CASE T!Loop
  BY <1>1, TaskRound, TaskScan, TaskRan, TaskOthers DEF T!Loop
<1>2. CASE T!Tick \/ T!Stop
  BY <1>2, TaskTick, TaskOthers
<1>3. ASSUME NEW sec \in Secs, T!RunIn(sec) \/ T!RunEvery(sec)
      PROVE  TaskInv'
  <2>1. sec \in Nat
    BY CoAssumption
  <2> QED
    BY <1>3, <2>1, TaskAdded DEF T!RunIn, T!RunEvery
<1>4. ASSUME NEW now \in 0 .. Day - 1, NEW then \in 0 .. Day - 1, T!RunDaily(now, then)
      PROVE  TaskInv'
  <2>1. T!Until(now, then) \in Nat /\ Day \in Nat
    BY CoAssumption DEF T!Until
  <2> QED
    BY <1>4, <2>1, TaskAdded DEF T!RunDaily
<1> QED
  BY <1>1, <1>2, <1>3, <1>4 DEF T!TaskNext

\* The task that runs is not ahead by more than a second and what the scheduler
\* owed, and not behind by more than its own wait, or a round.
LEMMA TaskIsPunctual == TaskInv => Punctual
<1> SUFFICES ASSUME TaskInv, T!Due
             PROVE  /\ tasks[i].age + Second + tasks[i].owed >= tasks[i].sec * Second
                    /\ tasks[i].age - tasks[i].held <= T!Max({tasks[i].sec, 1}) * Second
  BY DEF Punctual, T!Punctual
<1>1. /\ phase = "fun" /\ tasks \in Seq(Tasks) /\ i \in 1 .. Len(tasks)
      /\ ms \in Nat /\ spent = 0 /\ less \in Nat \ {0} /\ Second \in Nat
  BY CoAssumption, LenProperties DEF TaskInv, TaskTyped, T!Due
<1>2. PICK t \in Tasks : t = tasks[i]
  BY <1>1
<1>3. /\ t.sec \in Nat /\ t.count \in Int /\ t.age \in Nat /\ t.held \in Nat /\ t.owed \in Nat
  BY DEF Tasks
<1>4. /\ t.count <= 0 /\ NotAhead(t, Uncounted)
      /\ t.count + less >= 1 \/ t.count + less = t.sec
      /\ t.age - t.held <= Units(t.sec - (t.count + less)) + Second
  BY <1>1, <1>2 DEF TaskInv, TaskRuns
<1>5. t.age + Second + t.owed >= t.sec * Second
  <2>1. Uncounted \in Nat
    BY <1>1 DEF Uncounted, Slept
  <2>2. /\ Units(t.sec) \in Int /\ Units(t.sec - t.count) \in Int
        /\ Units(t.sec) <= Units(t.sec - t.count)
    <3>1. t.sec \in Int /\ t.sec - t.count \in Int /\ t.sec <= t.sec - t.count
      BY <1>3, <1>4
    <3> QED
      BY <3>1, UnitsAre
  <2>3. Units(t.sec) <= t.age + Second + t.owed
    BY <1>1, <1>3, <1>4, <2>1, <2>2 DEF NotAhead, Took
  <2>4. Units(t.sec) = t.sec * Second
    BY DEF Units
  <2>5. t.sec * Second \in Int
    BY <2>2, <2>4
  <2> QED
    BY <1>1, <1>3, <2>3, <2>4, <2>5
<1>6. PICK m \in Int : m = T!Max({t.sec, 1}) /\ m >= t.sec /\ m >= 1
  <2>1. \E m \in {t.sec, 1} : \A n \in {t.sec, 1} : m >= n
    BY <1>3
  <2>2. /\ T!Max({t.sec, 1}) \in {t.sec, 1}
        /\ \A n \in {t.sec, 1} : T!Max({t.sec, 1}) >= n
    BY <2>1, Zenon DEF T!Max
  <2> QED
    BY <1>3, <2>2
<1>7. t.age - t.held <= m * Second
  <2>1. t.sec - (t.count + less) \in Int /\ (t.sec - (t.count + less)) + 1 \in Int
        /\ (t.sec - (t.count + less)) + 1 <= m
    BY <1>1, <1>3, <1>4, <1>6, SMTT(20)
  <2>2. /\ Units((t.sec - (t.count + less)) + 1) = Units(t.sec - (t.count + less)) + Second
        /\ Units((t.sec - (t.count + less)) + 1) <= Units(m)
        /\ Units(t.sec - (t.count + less)) \in Int /\ Units(m) \in Int
    BY <1>6, <2>1, UnitsAre
  <2>3. t.age - t.held <= Units(m)
    BY <1>1, <1>3, <1>4, <2>2
  <2> QED
    BY <2>3 DEF Units
<1> QED
  BY <1>2, <1>5, <1>6, <1>7

---------------------------------------------------------------------------
(* The behaviours of MCCo: a step is of one subject.                       *)

IInv == SocketInv /\ EventInv /\ MutexInv /\ TaskInv /\ HookInv /\ PollInv

LEMMA Start == CoInit => IInv
<1> SUFFICES ASSUME CoInit
             PROVE  IInv
  OBVIOUS
<1>1. EventInit(IF subject = "event" THEN BOOLEAN ELSE {TRUE})
      /\ (IF subject = "event" THEN BOOLEAN ELSE {TRUE}) \in SUBSET BOOLEAN
  BY DEF CoInit
<1>2. M!MutexInit(IF subject = "mutex" THEN Threads ELSE {})
      /\ (IF subject = "mutex" THEN Threads ELSE {}) \in SUBSET Threads
  BY DEF CoInit
<1>3. EventInv
  BY <1>1, EventStart
<1>4. MutexInv
  BY <1>2, PlacedStart, PoolStart DEF MutexInv
<1>5. TaskInv
  <2>1. PICK where \in {"wait", "ended"} : T!TaskInit(where)
    BY DEF CoInit
  <2> QED
    BY <2>1, TaskStart
<1>6. HookInv /\ PollInv
  BY HookStart, PollStart DEF CoInit
<1>7. SocketInv
  <2>1. PICK programs : SocketInit(programs) /\ programs \in {Programs, {One({}, {})}}
    BY DEF CoInit
  <2>2. \A p \in programs : p.fds \subseteq Fds
    BY <2>1, CoAssumption DEF One
  <2> QED
    BY <2>1, <2>2, SocketStart
<1> QED
  BY <1>3, <1>4, <1>5, <1>6, <1>7 DEF IInv

\* What leaves the variables of a subject alone leaves its invariant alone.
LEMMA EventSame == EventInv /\ UNCHANGED eventVars => EventInv'
  BY DEF eventVars, EventInv, EventTyped, Waiting, NoneBlocked, Blocked, WokenInTime,
     OthersWillReset, AssertHolds

LEMMA MutexSame == MutexInv /\ UNCHANGED mutexVars => MutexInv'
<1> SUFFICES ASSUME MutexInv, UNCHANGED mutexVars
             PROVE  MutexInv'
  OBVIOUS
<1>1. UNCHANGED <<lock, queue, tasksOf, onStack, co, pool, item, made>>
  BY DEF mutexVars
<1>2. Placed'
  BY <1>1 DEF MutexInv, Placed, MutexTyped, AtHome, PlacedOnce, Has, Ready, Queued, M!Runs
<1>3. OneHolds' /\ LockIsHeld'
  BY <1>1 DEF MutexInv, OneHolds, LockIsHeld, Holds, M!Chosen
<1>4. PoolInv'
  BY <1>1 DEF MutexInv, PoolInv, PoolTyped, HeldOnce, StackedOnce, Elements
<1> QED
  BY <1>2, <1>3, <1>4 DEF MutexInv

LEMMA TaskSame == TaskInv /\ UNCHANGED taskVars => TaskInv'
<1> SUFFICES ASSUME TaskInv, UNCHANGED taskVars
             PROVE  TaskInv'
  OBVIOUS
<1>1. UNCHANGED <<tmp, tasks, added, phase, slept, i, less, ms, spent>>
  BY DEF taskVars
<1> QED
  BY <1>1 DEF TaskInv, TaskTyped, NewTasks, DoneTasks, TasksAhead, TaskRuns, IsDone, IsAhead,
     Uncounted, Slept

LEMMA HookSame == HookInv /\ UNCHANGED hookVars => HookInv'
<1> SUFFICES ASSUME HookInv, UNCHANGED hookVars
             PROVE  HookInv'
  OBVIOUS
<1>1. UNCHANGED <<file, hk, behind, opened, outcome>>
  BY DEF hookVars
<1> QED
  BY <1>1 DEF HookInv, HookTyped, Remembered, RemembersRight, MadeByHook, Current, H!HookHides,
     H!Timeout, H!hookable

LEMMA PollSame == PollInv /\ UNCHANGED pollVars => PollInv'
  BY DEF pollVars, PollInv

LEMMA StepKeeps == IInv /\ [CoNext]_coVars => IInv'
<1> SUFFICES ASSUME IInv, [CoNext]_coVars
             PROVE  IInv'
  OBVIOUS
<1> USE DEF IInv
<1>1. ASSUME UNCHANGED <<eventVars, mutexVars, taskVars, hookVars, pollVars>>
      PROVE  EventInv' /\ MutexInv' /\ TaskInv' /\ HookInv' /\ PollInv'
  BY <1>1, EventSame, MutexSame, TaskSame, HookSame, PollSame
<1>2. CASE Socket(SocketNext) \/ UNCHANGED coVars
  BY <1>1, <1>2, SocketStep, SocketSame DEF Socket, coVars
<1>3. CASE OfEvent(EventNext)
  BY <1>3, EventStep, SocketSame, MutexSame, TaskSame, HookSame, PollSame DEF OfEvent
<1>4. CASE OfMutex(M!MutexNext)
  <2>1. MutexInv'
    BY <1>4, PlacedStep, PoolStep DEF OfMutex, MutexInv
  <2> QED
    BY <1>4, <2>1, SocketSame, EventSame, TaskSame, HookSame, PollSame DEF OfMutex
<1>5. CASE OfTasks(T!TaskNext)
  BY <1>5, TaskStep, SocketSame, EventSame, MutexSame, HookSame, PollSame DEF OfTasks
<1>6. CASE Hooked
  BY <1>6, HookStep, SocketSame, EventSame, MutexSame, TaskSame, PollSame DEF Hooked
<1>7. CASE Polling
  BY <1>7, PollStep, SocketSame, EventSame, MutexSame, TaskSame, HookSame DEF Polling
<1> QED
  BY <1>2, <1>3, <1>4, <1>5, <1>6, <1>7 DEF CoNext

\* Asserts of an event hold and it does not stay signaled without a cause, the
\* mutex excludes, and the elements of a pool stay apart, for any number of
\* threads, coroutines and schedulers (SyncEvent, MutexImpl, PoolImpl).
THEOREM LocksAreRightHolds == CoSpec => []LocksAreRight
<1>1. IInv => LocksAreRight
  BY EventIsRight, Excludes, KeepsApart DEF IInv, MutexInv, LocksAreRight
<1> QED
  BY <1>1, Start, StepKeeps, PTL DEF CoSpec

\* Code that never asked for a non-blocking socket is not told to try again, no
\* scheduler's thread blocks on a socket, and poll gives up in time, but for
\* the causes that HookHides and PollGivesUp name, for any number of schedulers
\* and of files, any time limits and any step (Hook, poll, select).
THEOREM HooksAreRightHolds == CoSpec => []HooksAreRight
<1>1. IInv => HooksAreRight
  BY PollIsRight DEF IInv, HookInv, HooksAreRight
<1> QED
  BY <1>1, Start, StepKeeps, PTL DEF CoSpec

\* A timed task runs neither early nor late, but for the time that Punctual
\* names, whatever the times asked for and however many tasks are added or how
\* long they take (TaskSchedImpl::_Run).
THEOREM PunctualHolds == CoSpec => []Punctual
<1>1. IInv => Punctual
  BY TaskIsPunctual DEF IInv
<1> QED
  BY <1>1, Start, StepKeeps, PTL DEF CoSpec

\* A call whose socket is ready is going to be told of it, but for the causes
\* that Notified names, and no registration for writing outlives its call, for
\* any number of coroutines and sockets and any programs (Epoll::add_ev_read,
\* Epoll::add_ev_write, EvRead, EvWrite).
THEOREM SocketsAreRightHolds == CoSpec => []SocketsAreRight
<1>1. IInv => SocketsAreRight
  BY SocketIsRight DEF IInv
<1> QED
  BY <1>1, Start, StepKeeps, PTL DEF CoSpec

\* What a call answers is true, unless its coroutine was once resumed for
\* something it did not wait for (Scheduler::resume).
THEOREM AnswersAreTrueHolds == CoSpec => AnswersAreTrue
<1> DEFINE Answers(c) ==
        LET f == call[c].fd IN
        /\ answer'[c] = "timeout" => why[c] = "time" \/ c \in strayed
        /\ answer'[c] = "ok" /\ call[c].op \in Connects =>
              link[f] \in {"up", "closed"} \/ c \in strayed
        /\ answer'[c] = "ok" /\ call[c].op \in Polls => Can(f, Row(c).dir) \/ c \in strayed
<1>1. IInv /\ [CoNext]_coVars =>
         [\A c \in Cos : Waits(c) /\ call'[c] = Idle => Answers(c)]_socketVars
  <2> SUFFICES ASSUME IInv, [CoNext]_coVars
               PROVE  [\A c \in Cos : Waits(c) /\ call'[c] = Idle => Answers(c)]_socketVars
    OBVIOUS
  <2>1. CASE Socket(SocketNext)
    <3>1. SocketInv /\ SocketNext
      BY <2>1 DEF IInv, Socket
    <3> QED
      BY <3>1, AnswerIs
  <2>2. CASE UNCHANGED socketVars
    BY <2>2
  <2> QED
    BY <2>1, <2>2 DEF CoNext, OfEvent, OfMutex, OfTasks, Hooked, Polling, coVars
<1> QED
  BY <1>1, Start, StepKeeps, PTL DEF CoSpec, AnswersAreTrue
===========================================================================
