-------------------------- MODULE LevelLogger_proofs --------------------------
(***************************************************************************)
(* Proofs about LevelLogger, for any number of threads and lines, any size *)
(* of the buffer and of the files, and any number of files.                *)
(***************************************************************************)
EXTENDS LevelLogger, SequenceTheorems, FiniteSetTheorems, TLAPS

Label ==
    {"idle", "push", "wait", "signaled", "timeout", "swap", "swap_reset", "open", "append",
     "ended", "join", "lock", "drain", "drain_append", "unlock", "over", "fatal", "abort"}

TypeOK ==
    /\ pushed \in Nat
    /\ fs \in Seq(Nat) /\ batch \in Seq(Nat) /\ fatal \in Seq(Nat)
    /\ files \subseteq Indices /\ chain \in [Indices -> Seq(Nat)]
    /\ handle \in {"log", "fatal", "gone", None}
    /\ lost \in [Reasons -> SUBSET Nat]
    /\ event \in BOOLEAN /\ wedged \in BOOLEAN /\ dead \in BOOLEAN
    /\ stop \in Threads \union {None} /\ owner \in Threads \union {None}
    /\ pc \in [Threads -> Label]
    /\ then \in [Threads -> {None, "return", "fatal", "raise"}]
    /\ mark \in [Threads -> Nat] /\ closed \subseteq Threads
    /\ faults \in Nat

(***************************************************************************)
(* Where the threads are.  Who is in a critical section holds _log_mutex;  *)
(* a signal may take the holder elsewhere, so not the other way round.     *)
(* Only the thread that set _stop waits for the logger and writes the      *)
(* rest, once the logger has ended - or is that thread itself, in a signal *)
(* handler that it never returns from.                                     *)
(***************************************************************************)
Critical == {"push", "swap", "swap_reset", "drain", "drain_append", "unlock"}
Draining == {"lock", "drain", "drain_append", "unlock"}
Closing == Draining \union {"join", "over"}

Placed ==
    /\ \A t \in Threads : pc[t] \in Critical => owner = t
    /\ \A t \in Threads : pc[t] \in Draining \union {"join"} => stop = t
    /\ \A t \in Threads : pc[t] \in Draining => t = Logger \/ pc[Logger] = "ended"
    /\ \A t \in Threads : pc[t] \in Closing => then[t] \in {"return", "fatal", "raise"}
    /\ \A t \in Threads : pc[t] \in {"idle", "push"} /\ stop = t => t \in closed
    /\ pc[Logger] \notin {"idle", "push", "fatal", "abort"}
    /\ pc[Logger] \in Closing => then[Logger] = "raise"
    /\ \A t \in Callers :
          pc[t] \in {"idle", "push", "fatal", "abort"} \union Closing

\* The logging thread has nothing in its own buffer while it waits or swaps.
Idle == {"wait", "signaled", "timeout", "swap", "swap_reset", "ended"}
Swapped == pc[Logger] \in Idle => batch = <<>>

\* What close() promises holds as soon as the rest has been written.
Written ==
    /\ \A t \in Threads : mark[t] <= pushed
    /\ \A t \in Threads :
          /\ stop = t
          /\ t \in closed \/ (pc[t] \in {"unlock", "over"} /\ then[t] = "return")
          => Unwritten \intersect (1 .. mark[t]) = {}

(***************************************************************************)
(* Order.  Lines get from the buffer to the batch and to the files, never  *)
(* one past another - unless the logging thread is interrupted by a signal *)
(* that ends the process: then its batch is never written.                 *)
(***************************************************************************)
Ordered ==
    /\ Rises(fs) /\ Rises(batch)
    /\ FilesInOrder
    /\ Unwritten \subseteq 1 .. pushed
    /\ Precedes(Lines(batch), Lines(fs))
    /\ \A i \in Indices :
          /\ Precedes(Lines(chain[i]), Lines(fs))
          /\ pc[Logger] \in {"open", "append"} => Precedes(Lines(chain[i]), Lines(batch))
          /\ Lines(chain[i]) \subseteq 1 .. pushed

IInv == TypeOK /\ Placed /\ Swapped /\ Written /\ Ordered /\ EveryLineAccounted

-----------------------------------------------------------------------------
(***************************************************************************)
(* The lines of a sequence.                                                *)
(***************************************************************************)
LEMMA LinesAre ==
  ASSUME NEW q \in Seq(Nat)
  PROVE  /\ Lines(q) \subseteq Nat \ {0}
         /\ \A k \in 1..Len(q) : q[k] \in Nat /\ (q[k] # 0 => q[k] \in Lines(q))
         /\ \A l \in Lines(q) : \E k \in 1..Len(q) : q[k] = l /\ l # 0
         /\ Len(q) \in Nat /\ DOMAIN q = 1..Len(q)
<1>1. /\ Len(q) \in Nat /\ DOMAIN q = 1..Len(q)
      /\ \A k \in 1..Len(q) : q[k] \in Nat
  BY LenProperties, ElementOfSeq
<1> QED
  BY <1>1 DEF Lines, Marker

LEMMA NoLines == Lines(<<>>) = {} /\ Rises(<<>>) /\ <<>> \in Seq(Nat)
BY DEF Lines, Rises

\* Sequences one after the other: write() appends to a file.
LEMMA ConcatLines ==
  ASSUME NEW q \in Seq(Nat), NEW r \in Seq(Nat)
  PROVE  /\ q \o r \in Seq(Nat)
         /\ Lines(q \o r) = Lines(q) \union Lines(r)
         /\ Rises(q) /\ Rises(r) /\ Precedes(Lines(q), Lines(r)) => Rises(q \o r)
<1>1. /\ q \o r \in Seq(Nat) /\ Len(q \o r) = Len(q) + Len(r)
      /\ \A k \in 1..Len(q) + Len(r) : (q \o r)[k] = IF k <= Len(q) THEN q[k] ELSE r[k - Len(q)]
  BY ConcatProperties
<1>2. /\ Len(q) \in Nat /\ Len(r) \in Nat /\ DOMAIN q = 1..Len(q) /\ DOMAIN r = 1..Len(r)
      /\ DOMAIN (q \o r) = 1..Len(q) + Len(r)
  BY <1>1, LenProperties
<1>3. \A k \in 1..Len(r) : k + Len(q) \in 1..Len(q) + Len(r) /\ (q \o r)[k + Len(q)] = r[k]
  BY <1>1, <1>2
<1>4. Lines(q \o r) \subseteq Lines(q) \union Lines(r)
  <2> SUFFICES ASSUME NEW l \in Lines(q \o r) PROVE l \in Lines(q) \union Lines(r)
    OBVIOUS
  <2>0. PICK k \in 1..Len(q) + Len(r) : (q \o r)[k] = l /\ l # 0
    BY <1>1, LinesAre
  <2>1. CASE k <= Len(q)
    <3>1. k \in 1..Len(q) /\ (q \o r)[k] = q[k]
      BY <1>1, <1>2, <2>1
    <3> QED
      BY <2>0, <3>1, LinesAre
  <2>2. CASE ~(k <= Len(q))
    <3>1. k - Len(q) \in 1..Len(r) /\ (q \o r)[k] = r[k - Len(q)]
      BY <1>1, <1>2, <2>2
    <3> QED
      BY <2>0, <3>1, LinesAre
  <2> QED
    BY <2>1, <2>2
<1>5. Lines(q) \subseteq Lines(q \o r)
  <2> SUFFICES ASSUME NEW l \in Lines(q) PROVE l \in Lines(q \o r)
    OBVIOUS
  <2>1. PICK k \in 1..Len(q) : q[k] = l /\ l # 0
    BY LinesAre
  <2>2. k \in 1..Len(q \o r) /\ (q \o r)[k] = q[k]
    BY <1>1, <1>2
  <2> QED
    BY <1>1, <2>1, <2>2, LinesAre
<1>6. Lines(r) \subseteq Lines(q \o r)
  <2> SUFFICES ASSUME NEW l \in Lines(r) PROVE l \in Lines(q \o r)
    OBVIOUS
  <2>1. PICK k \in 1..Len(r) : r[k] = l /\ l # 0
    BY LinesAre
  <2>2. k + Len(q) \in 1..Len(q \o r) /\ (q \o r)[k + Len(q)] = r[k]
    BY <1>1, <1>3
  <2> QED
    BY <1>1, <2>1, <2>2, LinesAre
<1>7. ASSUME Rises(q), Rises(r), Precedes(Lines(q), Lines(r))
      PROVE  Rises(q \o r)
  <2> SUFFICES ASSUME NEW k \in 1..Len(q) + Len(r), NEW n \in 1..Len(q) + Len(r),
                      k < n, (q \o r)[k] # 0, (q \o r)[n] # 0
               PROVE  (q \o r)[k] < (q \o r)[n]
    BY <1>2 DEF Rises, IsLine, Marker
  <2>1. CASE n <= Len(q)
    <3>1. k \in 1..Len(q) /\ n \in 1..Len(q)
      BY <1>2, <2>1
    <3>2. (q \o r)[k] = q[k] /\ (q \o r)[n] = q[n]
      BY <1>1, <1>2, <2>1
    <3> QED
      BY <1>2, <1>7, <3>1, <3>2 DEF Rises, IsLine, Marker
  <2>2. CASE Len(q) < k
    <3>1. k - Len(q) \in 1..Len(r) /\ n - Len(q) \in 1..Len(r) /\ k - Len(q) < n - Len(q)
      BY <1>2, <2>2
    <3>2. (q \o r)[k] = r[k - Len(q)] /\ (q \o r)[n] = r[n - Len(q)]
      BY <1>1, <1>2, <2>2
    <3> QED
      BY <1>2, <1>7, <3>1, <3>2 DEF Rises, IsLine, Marker
  <2>3. CASE k <= Len(q) /\ Len(q) < n
    <3>1. n - Len(q) \in 1..Len(r) /\ k \in 1..Len(q)
      BY <1>2, <2>3
    <3>2. (q \o r)[k] = q[k] /\ (q \o r)[n] = r[n - Len(q)]
      BY <1>1, <1>2, <2>3
    <3>3. q[k] \in Lines(q) /\ r[n - Len(q)] \in Lines(r)
      BY <3>1, <3>2, LinesAre
    <3> QED
      BY <1>7, <3>2, <3>3 DEF Precedes
  <2> QED
    BY <1>2, <2>1, <2>2, <2>3
<1> QED
  BY <1>1, <1>4, <1>5, <1>6, <1>7

\* A new line at the end of the buffer (LevelLogger::push).
LEMMA AppendLines ==
  ASSUME NEW q \in Seq(Nat), NEW l \in Nat \ {0}
  PROVE  /\ Append(q, l) \in Seq(Nat)
         /\ Lines(Append(q, l)) = Lines(q) \union {l}
         /\ Rises(q) /\ Precedes(Lines(q), {l}) => Rises(Append(q, l))
<1>1. Append(q, l) = q \o <<l>>
  BY AppendIsConcat
<1>2. <<l>> \in Seq(Nat) /\ Len(<<l>>) = 1 /\ <<l>>[1] = l
  OBVIOUS
<1>3. Lines(<<l>>) = {l} /\ Rises(<<l>>)
  BY <1>2 DEF Lines, Marker, Rises
<1>4. /\ q \o <<l>> \in Seq(Nat)
      /\ Lines(q \o <<l>>) = Lines(q) \union Lines(<<l>>)
      /\ Rises(q) /\ Rises(<<l>>) /\ Precedes(Lines(q), Lines(<<l>>)) => Rises(q \o <<l>>)
  BY <1>2, ConcatLines
<1> QED
  BY <1>1, <1>3, <1>4

LEMMA SizeType ==
  ASSUME NEW q \in Seq(Nat)
  PROVE  Size(q) \in 0..Len(q)
<1>1. Len(q) \in Nat /\ DOMAIN q = 1..Len(q)
  BY LenProperties
<1>2. IsFiniteSet(1..Len(q)) /\ Cardinality(1..Len(q)) = Len(q)
  BY <1>1, FS_Interval, SMTT(20)
<1>3. {k \in DOMAIN q : IsLine(q[k])} \in SUBSET (1..Len(q))
  BY <1>1
<1>4. /\ IsFiniteSet({k \in DOMAIN q : IsLine(q[k])})
      /\ Cardinality({k \in DOMAIN q : IsLine(q[k])}) <= Len(q)
  BY <1>2, <1>3, FS_Subset
<1>5. Cardinality({k \in DOMAIN q : IsLine(q[k])}) \in Nat
  BY <1>4, FS_CardinalityType
<1> QED
  BY <1>1, <1>4, <1>5 DEF Size

\* The end of the buffer, which stays when it is full.
LEMMA EndLines ==
  ASSUME NEW q \in Seq(Nat), NEW n \in Nat \ {0}
  PROVE  LET e == SubSeq(q, n, Len(q))
         IN  e \in Seq(Nat) /\ Lines(e) \subseteq Lines(q) /\ (Rises(q) => Rises(e))
<1> DEFINE e == SubSeq(q, n, Len(q))
<1>1. Len(q) \in Nat /\ DOMAIN q = 1..Len(q) /\ \A k \in n..Len(q) : q[k] \in Nat
  BY LenProperties, ElementOfSeq
<1>2. /\ e \in Seq(Nat)
      /\ Len(e) = IF n <= Len(q) THEN Len(q) - n + 1 ELSE 0
      /\ \A k \in 1..Len(q) - n + 1 : e[k] = q[n + k - 1]
  BY <1>1, SubSeqProperties
<1>3. DOMAIN e = 1..Len(e) /\ \A k \in 1..Len(e) : n + k - 1 \in 1..Len(q) /\ e[k] = q[n + k - 1]
  BY <1>1, <1>2, LenProperties
<1> HIDE DEF e
<1>4. Lines(e) \subseteq Lines(q)
  <2> SUFFICES ASSUME NEW l \in Lines(e) PROVE l \in Lines(q)
    OBVIOUS
  <2>1. PICK k \in 1..Len(e) : e[k] = l /\ l # 0
    BY <1>2, LinesAre
  <2> QED
    BY <1>3, <2>1, LinesAre
<1>5. ASSUME Rises(q) PROVE Rises(e)
  <2> SUFFICES ASSUME NEW k \in DOMAIN e, NEW m \in DOMAIN e, k < m, IsLine(e[k]), IsLine(e[m])
               PROVE  e[k] < e[m]
    BY DEF Rises
  <2>1. n + k - 1 < n + m - 1
    BY <1>3
  <2> QED
    BY <1>1, <1>3, <1>5, <2>1 DEF Rises
<1> QED
  BY <1>2, <1>4, <1>5 DEF e

\* LevelLogger::push, full buffer: no line is made, and they stay in order.
LEMMA DropLines ==
  ASSUME NEW q \in Seq(Nat)
  PROVE  /\ DropHalf(q) \in Seq(Nat)
         /\ Lines(DropHalf(q)) \subseteq Lines(q)
         /\ Rises(q) => Rises(DropHalf(q))
<1> DEFINE n == Len(q) - Size(q) + (Size(q) \div 2) + 2
           e == SubSeq(q, n, Len(q))
<1>1. n \in Nat \ {0}
  <2>1. Len(q) \in Nat /\ Size(q) \in 0..Len(q) /\ Size(q) \div 2 \in Nat
    BY LenProperties, SizeType
  <2> QED
    BY <2>1
<1>2. e \in Seq(Nat) /\ Lines(e) \subseteq Lines(q) /\ (Rises(q) => Rises(e))
  BY <1>1, EndLines
<1>3. DropHalf(q) = <<Marker>> \o e
  BY DEF DropHalf
<1>4. <<Marker>> \in Seq(Nat) /\ Len(<<Marker>>) = 1 /\ <<Marker>>[1] = 0
  BY DEF Marker
<1>5. Lines(<<Marker>>) = {} /\ Rises(<<Marker>>)
  BY <1>4 DEF Lines, Marker, Rises
<1> HIDE DEF e
<1> QED
  BY <1>2, <1>3, <1>4, <1>5, ConcatLines DEF Precedes

-----------------------------------------------------------------------------
(***************************************************************************)
(* Types.                                                                  *)
(***************************************************************************)
LEMMA Constants ==
  /\ 0 \in Indices /\ Logger \in Threads /\ Callers \subseteq Threads
  /\ None \notin Threads /\ Logger \notin Callers
  /\ None \notin {"log", "fatal", "gone"}
  /\ \A t \in Threads : t # Logger => t \in Callers
  /\ Reasons = {"full", "open", "old", "deleted"}
BY LoggerAssumption DEF Indices, Threads, Reasons

LEMMA LinesType ==
  /\ TypeOK => Lines(fs) \subseteq Nat /\ Lines(batch) \subseteq Nat
  /\ TypeOK => \A i \in Indices : Lines(chain[i]) \subseteq Nat
<1>1. \A q \in Seq(Nat) : Lines(q) \subseteq Nat
  BY LinesAre
<1> QED
  BY <1>1 DEF TypeOK

LEMMA LoseType ==
  ASSUME TypeOK, NEW r \in Reasons, NEW ls \in SUBSET Nat, Lose(r, ls)
  PROVE  /\ lost' \in [Reasons -> SUBSET Nat]
         /\ lost'[r] = lost[r] \union ls
         /\ \A x \in Reasons \ {r} : lost'[x] = lost[x]
BY DEF TypeOK, Lose

\* write(): what happens to the lines that are written.
WrittenAs(q) ==
    \/ chain' = [chain EXCEPT ![0] = @ \o q] /\ UNCHANGED <<fatal, lost>>
    \/ fatal' = fatal \o q /\ UNCHANGED <<chain, lost>>
    \/ Lose("deleted", Lines(q)) /\ UNCHANGED <<chain, fatal>>
    \/ Lose("open", Lines(q)) /\ UNCHANGED <<chain, fatal>>

LEMMA WriteIs ==
  ASSUME TypeOK, NEW q \in Seq(Nat), WriteLines(q)
  PROVE  /\ files' = files /\ handle' \in {"log", "fatal", "gone", None}
         /\ WrittenAs(q)
<1>1. files' = files /\ handle' \in {"log", "fatal", "gone", None}
  BY DEF WriteLines, TypeOK
<1>2. CASE handle = "log"
  BY <1>2, Zenon DEF WriteLines, WrittenAs
<1>3. CASE handle = "fatal"
  BY <1>3 DEF WriteLines, WrittenAs
<1>4. CASE handle = "gone"
  BY <1>4 DEF WriteLines, WrittenAs
<1>5. CASE handle = None
  BY <1>5, Constants DEF WriteLines, WrittenAs
<1> QED
  BY <1>1, <1>2, <1>3, <1>4, <1>5 DEF TypeOK

LEMMA WriteType ==
  ASSUME TypeOK, NEW q \in Seq(Nat), WriteLines(q)
  PROVE  /\ chain' \in [Indices -> Seq(Nat)] /\ fatal' \in Seq(Nat)
         /\ lost' \in [Reasons -> SUBSET Nat]
         /\ files' \subseteq Indices /\ handle' \in {"log", "fatal", "gone", None}
<1>1. /\ files' \subseteq Indices /\ handle' \in {"log", "fatal", "gone", None}
      /\ WrittenAs(q)
  BY WriteIs DEF TypeOK
<1>2. chain[0] \in Seq(Nat) /\ chain[0] \o q \in Seq(Nat) /\ fatal \o q \in Seq(Nat)
  BY Constants, ConcatLines DEF TypeOK
<1>3. Lines(q) \subseteq Nat /\ {"deleted", "open"} \subseteq Reasons
  BY LinesAre DEF Reasons
<1>4. CASE chain' = [chain EXCEPT ![0] = @ \o q] /\ UNCHANGED <<fatal, lost>>
  BY <1>1, <1>2, <1>4 DEF TypeOK
<1>5. CASE fatal' = fatal \o q /\ UNCHANGED <<chain, lost>>
  BY <1>1, <1>2, <1>5 DEF TypeOK
<1>6. CASE Lose("deleted", Lines(q)) /\ UNCHANGED <<chain, fatal>>
  BY <1>1, <1>3, <1>6, LoseType DEF TypeOK
<1>7. CASE Lose("open", Lines(q)) /\ UNCHANGED <<chain, fatal>>
  BY <1>1, <1>3, <1>7, LoseType DEF TypeOK
<1> QED
  BY <1>1, <1>4, <1>5, <1>6, <1>7 DEF WrittenAs

LEMMA OpenType ==
  ASSUME TypeOK, OpenLog
  PROVE  /\ chain' \in [Indices -> Seq(Nat)] /\ lost' \in [Reasons -> SUBSET Nat]
         /\ files' \subseteq Indices /\ handle' = "log"
<1>1. handle' = "log"
  BY DEF OpenLog
<1>2. CASE Len(chain[0]) >= MaxFile
  <2>1. chain' = Renamed /\ files' = files \union Taken /\ Lose("old", Overwritten)
    BY <1>2 DEF OpenLog
  <2>2. Overwritten \in SUBSET Nat /\ "old" \in Reasons
    BY LinesType DEF Overwritten, Taken, Reasons
  <2>3. \A i \in Indices : i # 0 => i - 1 \in Indices
    BY LoggerAssumption DEF Indices
  <2>4. Renamed \in [Indices -> Seq(Nat)]
    BY <2>3, NoLines DEF Renamed, TypeOK
  <2>5. Taken \subseteq Indices
    BY DEF Taken
  <2>6. lost' \in [Reasons -> SUBSET Nat]
    BY <2>1, <2>2, LoseType
  <2> QED
    BY <1>1, <2>1, <2>4, <2>5, <2>6 DEF TypeOK
<1>3. CASE ~(Len(chain[0]) >= MaxFile)
  BY <1>1, <1>3, Constants DEF OpenLog, TypeOK
<1> QED
  BY <1>2, <1>3

LEMMA WriteOpenType ==
  ASSUME TypeOK, NEW t \in Threads, NEW at, NEW to \in Label, WriteOpen(t, at, to)
  PROVE  TypeOK'
<1> USE DEF buffers, closing
<1>1. /\ pc' \in [Threads -> Label]
      /\ UNCHANGED <<pushed, fs, batch, event, owner, stop, then, mark, closed, wedged, dead>>
      /\ fatal' = fatal
  BY DEF WriteOpen, Goto, TypeOK, disk
<1>2. faults' \in Nat
  BY DEF WriteOpen, TypeOK, disk
<1>3. /\ chain' \in [Indices -> Seq(Nat)] /\ lost' \in [Reasons -> SUBSET Nat]
      /\ files' \subseteq Indices /\ handle' \in {"log", "fatal", "gone", None}
  <2>1. CASE OpenLog
    BY <2>1, OpenType
  <2>2. CASE UNCHANGED disk
    BY <2>2 DEF disk, TypeOK
  <2> QED
    BY <2>1, <2>2 DEF WriteOpen
<1> QED
  BY <1>1, <1>2, <1>3 DEF TypeOK

LEMMA CloseType ==
  ASSUME TypeOK, NEW t \in Threads, NEW next \in {"return", "fatal", "raise"}, Close(t, next)
  PROVE  /\ then' \in [Threads -> {None, "return", "fatal", "raise"}]
         /\ mark' \in [Threads -> Nat] /\ closed' \subseteq Threads
         /\ stop' \in Threads \union {None} /\ event' \in BOOLEAN
         /\ pc' \in [Threads -> Label]
<1>1. /\ then' = [then EXCEPT ![t] = next]
      /\ mark' = [mark EXCEPT ![t] = IF next = "return" THEN pushed ELSE 0]
      /\ closed' = closed \ {t}
  BY DEF Close
<1>2. \E l \in {"join", "over"} : pc' = [pc EXCEPT ![t] = l]
  BY DEF Close, Goto
<1>3. stop' \in {stop, t} /\ event' \in {event, TRUE}
  BY DEF Close
<1>4. {"join", "over"} \subseteq Label
  BY DEF Label
<1> QED
  BY <1>1, <1>2, <1>3, <1>4 DEF TypeOK

LEMMA TypeInit == Init => TypeOK
<1> SUFFICES ASSUME Init PROVE TypeOK
  OBVIOUS
<1>1. chain \in [Indices -> Seq(Nat)] /\ lost \in [Reasons -> SUBSET Nat]
  BY NoLines DEF Init
<1>2. /\ pc \in [Threads -> Label] /\ then \in [Threads -> {None, "return", "fatal", "raise"}]
      /\ mark \in [Threads -> Nat]
  BY DEF Init, Label
<1>3. fs \in Seq(Nat) /\ batch \in Seq(Nat) /\ fatal \in Seq(Nat)
  BY NoLines DEF Init
<1> QED
  BY <1>1, <1>2, <1>3 DEF Init, TypeOK

\* Every action of the callers, of the logging thread, of signals and of
\* others that remove files keeps the types.
LEMMA TypeStep == TypeOK /\ Placed /\ [Next]_vars => TypeOK'
<1> SUFFICES ASSUME TypeOK, Placed, [Next]_vars PROVE TypeOK'
  OBVIOUS
<1> USE DEF buffers, disk, closing, outside
<1>1. /\ {"idle", "push", "join", "lock", "drain", "drain_append", "unlock", "over", "fatal",
          "abort", "wait", "signaled", "timeout", "swap", "swap_reset", "open", "append",
          "ended"} \subseteq Label
      /\ Logger \in Threads
      /\ \A t, l : t \in Threads /\ l \in Label => [pc EXCEPT ![t] = l] \in [Threads -> Label]
  BY Constants DEF Label, TypeOK
<1>2. ASSUME NEW t \in Threads, PushBegin(t) PROVE TypeOK'
  BY <1>1, <1>2 DEF PushBegin, Lock, Goto, TypeOK
<1>3. ASSUME NEW t \in Threads, Push(t) PROVE TypeOK'
  <2> DEFINE room == IF Size(fs) >= MaxBuffer THEN DropHalf(fs) ELSE fs
  <2>1. room \in Seq(Nat) /\ pushed + 1 \in Nat \ {0}
    BY DropLines DEF TypeOK
  <2>2. fs' = Append(room, pushed + 1) /\ Lose("full", Lines(fs) \ Lines(room)) /\ pushed' = pushed + 1
    BY <1>3 DEF Push
  <2> HIDE DEF room
  <2>3. fs' \in Seq(Nat)
    BY <2>1, <2>2, AppendLines
  <2>4. Lines(fs) \ Lines(room) \in SUBSET Nat /\ "full" \in Reasons
    BY LinesType DEF Reasons
  <2>5. lost' \in [Reasons -> SUBSET Nat]
    BY <2>2, <2>4, LoseType
  <2>6. pc' \in [Threads -> Label] /\ owner' = None /\ event' \in BOOLEAN
    BY <1>1, <1>3 DEF Push, Goto, TypeOK
  <2>7. UNCHANGED <<batch, files, chain, fatal, handle, closing, outside>>
    BY <1>3 DEF Push
  <2> QED
    BY <2>1, <2>2, <2>3, <2>5, <2>6, <2>7 DEF TypeOK
<1>4. CASE Wake
  <2>1. Woken \in Label
    BY <1>1 DEF Woken
  <2> QED
    BY <1>1, <1>4, <2>1 DEF Wake, Goto, TypeOK
<1>5. CASE SwapBegin
  BY <1>1, <1>5 DEF SwapBegin, Lock, Goto, TypeOK
<1>6. CASE Swap
  BY <1>1, <1>6 DEF Swap, Goto, TypeOK
<1>7. CASE LoggerOpen
  BY <1>1, <1>7, WriteOpenType DEF LoggerOpen
<1>8. CASE LoggerAppend
  <2>1. WriteLines(batch) /\ batch \in Seq(Nat) /\ batch' = <<>>
    BY <1>8 DEF LoggerAppend, Cleared, TypeOK
  <2>2. /\ chain' \in [Indices -> Seq(Nat)] /\ fatal' \in Seq(Nat)
        /\ lost' \in [Reasons -> SUBSET Nat]
        /\ files' \subseteq Indices /\ handle' \in {"log", "fatal", "gone", None}
    BY <2>1, WriteType
  <2>3. pc' \in [Threads -> Label] /\ UNCHANGED <<pushed, fs, event, owner, closing, outside>>
    BY <1>1, <1>8 DEF LoggerAppend, Goto, TypeOK
  <2> QED
    BY <2>1, <2>2, <2>3, NoLines DEF TypeOK
<1>9. ASSUME NEW t \in Threads, CallClose(t) PROVE TypeOK'
  <2>1. PICK next \in {"return", "fatal"} : Close(t, next)
    BY <1>9 DEF CallClose
  <2>2. UNCHANGED <<pushed, fs, batch, owner, disk, outside>>
    BY <1>9 DEF CallClose
  <2> QED
    BY <2>1, <2>2, CloseType DEF TypeOK
<1>10. ASSUME NEW t \in Threads, OnSignal(t) PROVE TypeOK'
  <2>1. Close(t, "raise")
    BY <1>10 DEF OnSignal
  <2>2. UNCHANGED <<pushed, fs, batch, owner, disk, dead>> /\ faults' \in Nat /\ wedged' \in BOOLEAN
    BY <1>10 DEF OnSignal, TypeOK
  <2> QED
    BY <2>1, <2>2, CloseType DEF TypeOK
<1>11. ASSUME NEW t \in Threads, Join(t) PROVE TypeOK'
  BY <1>1, <1>11 DEF Join, Goto, TypeOK
<1>12. ASSUME NEW t \in Threads, DrainBegin(t) PROVE TypeOK'
  <2>1. Rest \in Label
    BY <1>1 DEF Rest
  <2> QED
    BY <1>1, <1>12, <2>1 DEF DrainBegin, Lock, Goto, TypeOK
<1>13. ASSUME NEW t \in Threads, DrainOpen(t) PROVE TypeOK'
  BY <1>1, <1>13, WriteOpenType DEF DrainOpen
<1>14. ASSUME NEW t \in Threads, DrainAppend(t) PROVE TypeOK'
  <2>1. WriteLines(fs) /\ fs \in Seq(Nat) /\ fs' = <<>>
    BY <1>14 DEF DrainAppend, Cleared, TypeOK
  <2>2. /\ chain' \in [Indices -> Seq(Nat)] /\ fatal' \in Seq(Nat)
        /\ lost' \in [Reasons -> SUBSET Nat]
        /\ files' \subseteq Indices /\ handle' \in {"log", "fatal", "gone", None}
    BY <2>1, WriteType
  <2>3. pc' \in [Threads -> Label] /\ UNCHANGED <<pushed, batch, event, owner, closing, outside>>
    BY <1>1, <1>14 DEF DrainAppend, Goto, TypeOK
  <2> QED
    BY <2>1, <2>2, <2>3, NoLines DEF TypeOK
<1>15. ASSUME NEW t \in Threads, Unlock(t) PROVE TypeOK'
  BY <1>1, <1>15 DEF Unlock, Goto, TypeOK
<1>16. ASSUME NEW t \in Threads, Return(t) PROVE TypeOK'
  <2>1. /\ pc' \in [Threads -> Label] /\ closed' \subseteq Threads /\ dead' \in BOOLEAN
        /\ UNCHANGED <<pushed, buffers, disk, stop, then, mark, wedged, faults>>
    <3>1. UNCHANGED <<pushed, buffers, disk, stop, then, mark, wedged, faults>>
      BY <1>16 DEF Return
    <3>2. CASE then[t] = "return"
      BY <1>1, <1>16, <3>2 DEF Return, Goto, TypeOK
    <3>3. CASE then[t] = "fatal"
      BY <1>1, <1>16, <3>3 DEF Return, Goto, TypeOK
    <3>4. CASE then[t] = "raise"
      BY <1>1, <1>16, <3>4 DEF Return, Goto, TypeOK
    <3>5. then[t] \in {"return", "fatal", "raise"}
      BY <1>16 DEF Return, Placed, Closing
    <3> QED
      BY <3>1, <3>2, <3>3, <3>4, <3>5
  <2> QED
    BY <2>1 DEF TypeOK
<1>17. ASSUME NEW t \in Threads, FatalOpen(t) PROVE TypeOK'
  BY <1>1, <1>17 DEF FatalOpen, Goto, TypeOK
<1>18. ASSUME NEW t \in Threads, Abort(t) PROVE TypeOK'
  BY <1>18 DEF Abort, TypeOK
<1>19. ASSUME NEW i \in Indices, Delete(i) PROVE TypeOK'
  <2>1. /\ lost' \in [Reasons -> SUBSET Nat]
    BY <1>19, LinesType, LoseType, Constants DEF Delete
  <2>2. chain' \in [Indices -> Seq(Nat)]
    BY <1>19, NoLines DEF Delete, TypeOK
  <2> QED
    BY <1>19, <2>1, <2>2 DEF Delete, TypeOK
<1>20. CASE UNCHANGED vars
  BY <1>20 DEF vars, TypeOK
<1> QED
  BY <1>2, <1>3, <1>4, <1>5, <1>6, <1>7, <1>8, <1>9, <1>10, <1>11, <1>12, <1>13, <1>14, <1>15,
     <1>16, <1>17, <1>18, <1>19, <1>20 DEF Next, LoggerStep, Finish, Call, Outside

-----------------------------------------------------------------------------
(***************************************************************************)
(* Where the threads are.                                                  *)
(***************************************************************************)
LEMMA PlacedInit == Init => Placed
BY Constants DEF Init, Placed, Critical, Draining, Closing

\* A step of one thread that leaves _stop, owner and then alone.
LEMMA PlacedMove ==
  ASSUME TypeOK, Placed, NEW t \in Threads, NEW l, pc' = [pc EXCEPT ![t] = l],
         UNCHANGED <<stop, then>>, closed \subseteq closed',
         \A u \in Threads \ {t} : pc[u] \in Critical => owner' = u,
         l \in Critical => owner' = t,
         l \in Draining \union {"join"} => stop = t,
         l \in Draining => t = Logger \/ pc[Logger] = "ended",
         pc[t] = "ended" => l = "ended",
         l \in Closing => then[t] \in {"return", "fatal", "raise"},
         l \in {"idle", "push"} /\ stop = t => t \in closed',
         t = Logger => /\ l \notin {"idle", "push", "fatal", "abort"}
                       /\ l \in Closing => then[t] = "raise",
         t # Logger => l \in {"idle", "push", "fatal", "abort"} \union Closing
  PROVE  Placed'
<1>1. pc'[t] = l /\ \A u \in Threads \ {t} : pc'[u] = pc[u]
  BY DEF TypeOK
<1>2. \A u \in Threads : pc'[u] \in Critical => owner' = u
  BY <1>1
<1>3. \A u \in Threads : pc'[u] \in Draining \union {"join"} => stop' = u
  BY <1>1 DEF Placed
<1>4. pc[Logger] = "ended" => pc'[Logger] = "ended"
  BY <1>1, Constants
<1>5. \A u \in Threads : pc'[u] \in Draining => u = Logger \/ pc'[Logger] = "ended"
  BY <1>1, <1>4 DEF Placed
<1>6. \A u \in Threads : pc'[u] \in Closing => then'[u] \in {"return", "fatal", "raise"}
  BY <1>1 DEF Placed
<1>7. \A u \in Threads : pc'[u] \in {"idle", "push"} /\ stop' = u => u \in closed'
  BY <1>1 DEF Placed
<1>8. /\ pc'[Logger] \notin {"idle", "push", "fatal", "abort"}
      /\ pc'[Logger] \in Closing => then'[Logger] = "raise"
  BY <1>1, Constants DEF Placed
<1>9. \A u \in Callers : pc'[u] \in {"idle", "push", "fatal", "abort"} \union Closing
  BY <1>1, Constants DEF Placed
<1> QED
  BY <1>2, <1>3, <1>5, <1>6, <1>7, <1>8, <1>9 DEF Placed

\* A thread calls close(), or a signal makes it.
LEMMA PlacedClose ==
  ASSUME TypeOK, Placed, NEW t \in Threads, NEW next \in {"return", "fatal", "raise"},
         Close(t, next), owner' = owner, pc[t] # "ended",
         next = "raise" \/ t # Logger
  PROVE  Placed'
<1>1. /\ then'[t] = next /\ \A u \in Threads \ {t} : then'[u] = then[u]
      /\ closed' = closed \ {t}
  BY DEF Close, TypeOK
<1>2. \/ stop = None /\ stop' = t /\ pc' = [pc EXCEPT ![t] = "join"]
      \/ stop' = stop /\ pc' = [pc EXCEPT ![t] = "over"]
  BY DEF Close, Goto
<1>3. /\ \/ stop = None /\ stop' = t /\ pc'[t] = "join"
         \/ stop' = stop /\ pc'[t] = "over"
      /\ \A u \in Threads \ {t} : pc'[u] = pc[u]
  BY <1>2 DEF TypeOK
<1>4. /\ pc'[t] \notin Critical /\ pc'[t] \notin Draining
      /\ pc'[t] \in Closing /\ pc'[t] \notin {"idle", "push"}
  BY <1>3 DEF Critical, Draining, Closing
<1>5. \A u \in Threads : pc'[u] \in Critical => owner' = u
  BY <1>3, <1>4 DEF Placed
<1>6. \A u \in Threads : pc'[u] \in Draining \union {"join"} => stop' = u
  BY <1>3, <1>4, Constants DEF Placed
<1>7. pc[Logger] = "ended" => pc'[Logger] = "ended"
  BY <1>3, Constants
<1>8. \A u \in Threads : pc'[u] \in Draining => u = Logger \/ pc'[Logger] = "ended"
  BY <1>3, <1>4, <1>7 DEF Placed
<1>9. \A u \in Threads : pc'[u] \in Closing => then'[u] \in {"return", "fatal", "raise"}
  BY <1>1, <1>3 DEF Placed
<1>10. \A u \in Threads : pc'[u] \in {"idle", "push"} /\ stop' = u => u \in closed'
  BY <1>1, <1>3, <1>4 DEF Placed
<1>11. /\ pc'[Logger] \notin {"idle", "push", "fatal", "abort"}
       /\ pc'[Logger] \in Closing => then'[Logger] = "raise"
  BY <1>1, <1>3, Constants DEF Placed
<1>12. \A u \in Callers : pc'[u] \in {"idle", "push", "fatal", "abort"} \union Closing
  BY <1>3, <1>4, Constants DEF Placed
<1> QED
  BY <1>5, <1>6, <1>8, <1>9, <1>10, <1>11, <1>12 DEF Placed

LEMMA PlacedStep == TypeOK /\ Placed /\ [Next]_vars => Placed'
<1> SUFFICES ASSUME TypeOK, Placed, [Next]_vars PROVE Placed'
  OBVIOUS
<1> USE DEF buffers, disk, closing, outside
<1>1. \A u \in Threads : u # None
  BY Constants
<1>2. owner = None => \A u \in Threads : pc[u] \notin Critical
  BY <1>1 DEF Placed
<1>3. \A t, u \in Threads : pc[t] \in Critical /\ pc[u] \in Critical => t = u
  BY DEF Placed
<1>4. ASSUME NEW t \in Threads, PushBegin(t) PROVE Placed'
  <2>1. /\ pc[t] = "idle" /\ owner = None /\ owner' = t /\ pc' = [pc EXCEPT ![t] = "push"]
        /\ UNCHANGED <<stop, then, closed>> /\ t \in Callers
    BY <1>4 DEF PushBegin, Lock, Goto
  <2>2. stop = t => t \in closed
    BY <2>1 DEF Placed
  <2> QED
    BY <1>2, <2>1, <2>2, Constants, PlacedMove DEF Draining, Closing
<1>5. ASSUME NEW t \in Threads, Push(t) PROVE Placed'
  <2>1. /\ pc[t] = "push" /\ owner' = None /\ pc' = [pc EXCEPT ![t] = "idle"]
        /\ UNCHANGED <<stop, then, closed>>
    BY <1>5 DEF Push, Goto
  <2>2. /\ stop = t => t \in closed
        /\ t # Logger
        /\ \A u \in Threads \ {t} : pc[u] \notin Critical
    BY <1>3, <2>1 DEF Placed, Critical
  <2> QED
    BY <2>1, <2>2, PlacedMove DEF Critical, Draining, Closing
<1>6. CASE Wake
  <2>1. /\ pc[Logger] = "wait" /\ pc' = [pc EXCEPT ![Logger] = Woken]
        /\ UNCHANGED <<stop, then, closed, owner>> /\ Woken \in {"ended", "signaled", "timeout"}
    BY <1>6 DEF Wake, Goto, Woken
  <2>2. \A u \in Threads \ {Logger} : pc[u] \in Critical => owner' = u
    BY <2>1 DEF Placed
  <2> QED
    BY <2>1, <2>2, Constants, PlacedMove DEF Critical, Draining, Closing
<1>7. CASE SwapBegin
  <2>1. PICK l \in {"swap", "swap_reset"} :
           /\ pc[Logger] \in {"signaled", "timeout"} /\ owner = None /\ owner' = Logger
           /\ pc' = [pc EXCEPT ![Logger] = l]
           /\ UNCHANGED <<stop, then, closed>>
    BY <1>7 DEF SwapBegin, Lock, Goto
  <2> QED
    BY <1>2, <2>1, Constants, PlacedMove DEF Critical, Draining, Closing
<1>8. CASE Swap
  <2>1. PICK l \in {"wait", "open"} :
           /\ pc[Logger] \in {"swap", "swap_reset"} /\ owner' = None
           /\ pc' = [pc EXCEPT ![Logger] = l]
           /\ UNCHANGED <<stop, then, closed>>
    BY <1>8 DEF Swap, Goto
  <2>2. \A u \in Threads \ {Logger} : pc[u] \notin Critical
    BY <1>3, <2>1, Constants DEF Critical
  <2> QED
    BY <2>1, <2>2, Constants, PlacedMove DEF Critical, Draining, Closing
<1>9. CASE LoggerOpen \/ LoggerAppend
  <2>1. PICK l \in {"append", "wait"} :
           /\ pc[Logger] \in {"open", "append"} /\ owner' = owner
           /\ pc' = [pc EXCEPT ![Logger] = l]
           /\ UNCHANGED <<stop, then, closed>>
    BY <1>9 DEF LoggerOpen, WriteOpen, LoggerAppend, Goto
  <2>2. \A u \in Threads \ {Logger} : pc[u] \in Critical => owner' = u
    BY <2>1 DEF Placed
  <2> QED
    BY <2>1, <2>2, Constants, PlacedMove DEF Critical, Draining, Closing
<1>10. ASSUME NEW t \in Threads, CallClose(t) PROVE Placed'
  <2>1. PICK next \in {"return", "fatal"} : Close(t, next)
    BY <1>10 DEF CallClose
  <2>2. t \in Callers /\ pc[t] = "idle" /\ owner' = owner
    BY <1>10 DEF CallClose
  <2> QED
    BY <2>1, <2>2, Constants, PlacedClose
<1>11. ASSUME NEW t \in Threads, OnSignal(t) PROVE Placed'
  BY <1>11, PlacedClose DEF OnSignal
<1>12. ASSUME NEW t \in Threads, Join(t) PROVE Placed'
  <2>1. /\ pc[t] = "join" /\ pc' = [pc EXCEPT ![t] = "lock"]
        /\ UNCHANGED <<stop, then, closed, owner>>
        /\ pc[Logger] = "ended" \/ t = Logger
    BY <1>12 DEF Join, Joined, Goto
  <2>2. /\ \A u \in Threads \ {t} : pc[u] \in Critical => owner' = u
        /\ stop = t
        /\ then[t] \in {"return", "fatal", "raise"}
        /\ t = Logger => then[t] = "raise"
    BY <2>1 DEF Placed, Closing
  <2> QED
    BY <2>1, <2>2, PlacedMove DEF Critical, Draining, Closing
<1>13. ASSUME NEW t \in Threads, DrainBegin(t) PROVE Placed'
  <2>1. PICK l \in {"drain", "unlock"} :
           /\ pc[t] = "lock" /\ owner = None /\ owner' = t
           /\ pc' = [pc EXCEPT ![t] = l]
           /\ UNCHANGED <<stop, then, closed>>
    BY <1>13 DEF DrainBegin, Lock, Goto, Rest
  <2>2. /\ stop = t
        /\ t = Logger \/ pc[Logger] = "ended"
        /\ then[t] \in {"return", "fatal", "raise"}
        /\ t = Logger => then[t] = "raise"
    BY <2>1 DEF Placed, Closing, Draining
  <2> QED
    BY <1>2, <2>1, <2>2, PlacedMove DEF Critical, Draining, Closing
<1>14. ASSUME NEW t \in Threads, DrainOpen(t) \/ DrainAppend(t) PROVE Placed'
  <2>1. PICK l \in {"drain_append", "unlock"} :
           /\ pc[t] \in {"drain", "drain_append"} /\ owner' = owner
           /\ pc' = [pc EXCEPT ![t] = l]
           /\ UNCHANGED <<stop, then, closed>>
    BY <1>14 DEF DrainOpen, DrainAppend, WriteOpen, Goto
  <2>2. /\ \A u \in Threads : pc[u] \in Critical => owner' = u
        /\ stop = t /\ owner' = t
        /\ t = Logger \/ pc[Logger] = "ended"
        /\ then[t] \in {"return", "fatal", "raise"}
        /\ t = Logger => then[t] = "raise"
    BY <2>1 DEF Placed, Closing, Draining, Critical
  <2> QED
    BY <2>1, <2>2, PlacedMove DEF Critical, Draining, Closing
<1>15. ASSUME NEW t \in Threads, Unlock(t) PROVE Placed'
  <2>1. /\ pc[t] = "unlock" /\ owner' = None /\ pc' = [pc EXCEPT ![t] = "over"]
        /\ UNCHANGED <<stop, then, closed>>
    BY <1>15 DEF Unlock, Goto
  <2>2. /\ \A u \in Threads \ {t} : pc[u] \notin Critical
        /\ then[t] \in {"return", "fatal", "raise"}
        /\ t = Logger => then[t] = "raise"
    BY <1>3, <2>1 DEF Placed, Closing, Draining, Critical
  <2> QED
    BY <2>1, <2>2, PlacedMove DEF Critical, Draining, Closing
<1>16. ASSUME NEW t \in Threads, Return(t) PROVE Placed'
  <2>1. /\ pc[t] = "over" /\ UNCHANGED <<stop, then, owner>>
        /\ \A u \in Threads \ {t} : pc[u] \in Critical => owner' = u
        /\ then[t] \in {"return", "fatal", "raise"}
        /\ t = Logger => then[t] = "raise"
    BY <1>16 DEF Return, Placed, Closing
  <2>2. CASE then[t] = "return"
    <3>1. pc' = [pc EXCEPT ![t] = "idle"] /\ closed' = closed \union {t} /\ t # Logger
      BY <1>16, <2>1, <2>2 DEF Return, Goto
    <3> QED
      BY <2>1, <3>1, PlacedMove DEF Critical, Draining, Closing
  <2>3. CASE then[t] = "fatal"
    <3>1. pc' = [pc EXCEPT ![t] = "fatal"] /\ closed' = closed /\ t # Logger
      BY <1>16, <2>1, <2>3 DEF Return, Goto
    <3> QED
      BY <2>1, <3>1, PlacedMove DEF Critical, Draining, Closing
  <2>4. CASE then[t] = "raise"
    <3>1. pc' = pc /\ closed' = closed
      BY <1>16, <2>1, <2>4 DEF Return
    <3> QED
      BY <2>1, <3>1 DEF Placed
  <2> QED
    BY <2>1, <2>2, <2>3, <2>4
<1>17. ASSUME NEW t \in Threads, FatalOpen(t) PROVE Placed'
  <2>1. /\ pc[t] = "fatal" /\ pc' = [pc EXCEPT ![t] = "abort"]
        /\ UNCHANGED <<stop, then, closed, owner>>
    BY <1>17 DEF FatalOpen, Goto
  <2>2. /\ \A u \in Threads \ {t} : pc[u] \in Critical => owner' = u
        /\ t # Logger
    BY <2>1 DEF Placed
  <2> QED
    BY <2>1, <2>2, PlacedMove DEF Critical, Draining, Closing
<1>18. ASSUME UNCHANGED <<pc, stop, then, closed, owner>> PROVE Placed'
  BY <1>18 DEF Placed
<1>19. /\ \A t \in Threads : Abort(t) => UNCHANGED <<pc, stop, then, closed, owner>>
       /\ \A i \in Indices : Delete(i) => UNCHANGED <<pc, stop, then, closed, owner>>
       /\ UNCHANGED vars => UNCHANGED <<pc, stop, then, closed, owner>>
  BY DEF Abort, Delete, vars
<1> QED
  BY <1>4, <1>5, <1>6, <1>7, <1>8, <1>9, <1>10, <1>11, <1>12, <1>13, <1>14, <1>15,
     <1>16, <1>17, <1>18, <1>19 DEF Next, LoggerStep, Finish, Call, Outside

-----------------------------------------------------------------------------
(***************************************************************************)
(* The logging thread's own buffer, and what close() has written.          *)
(***************************************************************************)
LEMMA SwappedStep == TypeOK /\ Placed /\ Swapped /\ [Next]_vars => Swapped'
<1> SUFFICES ASSUME TypeOK, Placed, Swapped, [Next]_vars PROVE Swapped'
  OBVIOUS
<1> USE DEF buffers, disk, closing, outside
<1>1. \A l : \A t \in Threads : pc' = [pc EXCEPT ![t] = l] =>
         pc'[t] = l /\ \A u \in Threads \ {t} : pc'[u] = pc[u]
  BY DEF TypeOK
<1>2. CASE Wake \/ SwapBegin
  <2>1. pc[Logger] \in Idle /\ batch' = batch
    BY <1>2 DEF Wake, SwapBegin, Lock, Idle
  <2> QED
    BY <2>1 DEF Swapped
<1>3. CASE Swap
  <2>1. /\ batch' = fs
        /\ pc' = [pc EXCEPT ![Logger] = IF fs = <<>> THEN "wait" ELSE "open"]
    BY <1>3 DEF Swap, Goto
  <2> QED
    BY <1>1, <2>1, Constants DEF Swapped, Idle
<1>4. CASE LoggerOpen
  <2>1. pc' = [pc EXCEPT ![Logger] = "append"]
    BY <1>4 DEF LoggerOpen, WriteOpen, Goto
  <2> QED
    BY <1>1, <2>1, Constants DEF Swapped, Idle
<1>5. CASE LoggerAppend
  BY <1>5 DEF LoggerAppend, Cleared, Swapped
<1>6. ASSUME NEW t \in Threads, batch' = batch,
             \/ pc' = pc
             \/ \E l \in Label \ Idle : pc' = [pc EXCEPT ![t] = l]
      PROVE  Swapped'
  <2>1. pc'[Logger] \in Idle => pc[Logger] \in Idle
    BY <1>1, <1>6, Constants
  <2> QED
    BY <1>6, <2>1 DEF Swapped
<1>7. {"idle", "push", "join", "lock", "drain", "drain_append", "unlock", "over", "fatal", "abort"}
         \subseteq Label \ Idle
  BY DEF Label, Idle
<1>8. ASSUME NEW t \in Threads, Call(t) PROVE Swapped'
  <2>1. batch' = batch /\ \E l \in Label \ Idle : pc' = [pc EXCEPT ![t] = l]
    BY <1>7, <1>8 DEF Call, PushBegin, Lock, CallClose, Close, Goto
  <2> QED
    BY <1>6, <2>1
<1>9. ASSUME NEW t \in Threads, Finish(t) PROVE Swapped'
  <2>1. CASE Push(t) \/ Join(t) \/ DrainBegin(t) \/ DrainOpen(t) \/ DrainAppend(t) \/ Unlock(t)
    <3>1. batch' = batch /\ \E l \in Label \ Idle : pc' = [pc EXCEPT ![t] = l]
      BY <1>7, <2>1 DEF Push, Join, DrainBegin, Lock, Rest, DrainOpen, DrainAppend, WriteOpen,
         Unlock, Goto
    <3> QED
      BY <1>6, <3>1
  <2>2. CASE Return(t)
    <3>1. then[t] \in {"return", "fatal", "raise"} /\ batch' = batch
      BY <2>2 DEF Return, Placed, Closing
    <3>2. pc' = pc \/ \E l \in Label \ Idle : pc' = [pc EXCEPT ![t] = l]
      BY <1>7, <2>2, <3>1 DEF Return, Goto
    <3> QED
      BY <1>6, <3>1, <3>2
  <2>3. CASE FatalOpen(t) \/ Abort(t)
    <3>1. batch' = batch /\ (pc' = pc \/ \E l \in Label \ Idle : pc' = [pc EXCEPT ![t] = l])
      BY <1>7, <2>3 DEF FatalOpen, Abort, Goto
    <3> QED
      BY <1>6, <3>1
  <2> QED
    BY <1>9, <2>1, <2>2, <2>3 DEF Finish
<1>10. ASSUME NEW t \in Threads, OnSignal(t) PROVE Swapped'
  <2>1. batch' = batch /\ \E l \in Label \ Idle : pc' = [pc EXCEPT ![t] = l]
    BY <1>7, <1>10 DEF OnSignal, Close, Goto
  <2> QED
    BY <1>6, <2>1
<1>11. ASSUME UNCHANGED <<batch, pc>> PROVE Swapped'
  BY <1>11 DEF Swapped
<1>12. /\ \A i \in Indices : Delete(i) => UNCHANGED <<batch, pc>>
       /\ UNCHANGED vars => UNCHANGED <<batch, pc>>
  BY DEF Delete, vars
<1> QED
  BY <1>2, <1>3, <1>4, <1>5, <1>8, <1>9, <1>10, <1>11, <1>12 DEF Next, LoggerStep, Outside

\* The thread has written the rest and goes on after its close().
Done(t) ==
    /\ stop = t
    /\ t \in closed \/ (pc[t] \in {"unlock", "over"} /\ then[t] = "return")

\* A step that brings no old line back to memory.
LEMMA WrittenMove ==
  ASSUME TypeOK, Written, pushed' \in {pushed, pushed + 1},
         Unwritten' \subseteq Unwritten \union {pushed + 1},
         \A t \in Threads : mark'[t] = mark[t] \/ mark'[t] \in {0, pushed},
         \A t \in Threads : Done(t)' => /\ mark'[t] = mark[t]
                                        /\ Done(t) \/ Unwritten' = {}
  PROVE  Written'
<1>1. \A t \in Threads : mark[t] \in Nat /\ mark[t] <= pushed
  BY DEF TypeOK, Written
<1>2. \A t \in Threads : mark'[t] <= pushed'
  <2> SUFFICES ASSUME NEW t \in Threads PROVE mark'[t] <= pushed'
    OBVIOUS
  <2>1. mark'[t] \in {mark[t], 0, pushed} /\ mark[t] \in Nat /\ mark[t] <= pushed
    BY <1>1
  <2>2. pushed \in Nat /\ pushed' \in {pushed, pushed + 1}
    BY DEF TypeOK
  <2> QED
    BY <2>1, <2>2
<1>3. ASSUME NEW t \in Threads, Done(t)'
      PROVE  Unwritten' \intersect (1..mark'[t]) = {}
  <2>1. CASE Unwritten' = {}
    BY <2>1
  <2>2. CASE Done(t)
    <3>1. Unwritten \intersect (1..mark[t]) = {} /\ mark'[t] = mark[t]
      BY <1>3, <2>2 DEF Written, Done
    <3>2. pushed + 1 \notin 1..mark[t]
      BY <1>1 DEF TypeOK
    <3> QED
      BY <3>1, <3>2
  <2> QED
    BY <1>3, <2>1, <2>2
<1>4. \A t \in Threads : Done(t)' => Unwritten' \intersect (1..mark'[t]) = {}
  BY <1>3
<1> QED
  BY <1>2, <1>4 DEF Written, Done

LEMMA WrittenInit == Init => Written /\ Swapped
<1> SUFFICES ASSUME Init PROVE Written /\ Swapped
  OBVIOUS
<1>1. \A t \in Threads : ~(stop = t)
  BY Constants DEF Init
<1> QED
  BY <1>1 DEF Init, Written, Swapped

LEMMA WrittenStep == TypeOK /\ Placed /\ Swapped /\ Written /\ [Next]_vars => Written'
<1> SUFFICES ASSUME TypeOK, Placed, Swapped, Written, [Next]_vars PROVE Written'
  OBVIOUS
<1> USE DEF buffers, disk, closing, outside
<1>1. \A l : \A t \in Threads : pc' = [pc EXCEPT ![t] = l] =>
         pc'[t] = l /\ \A u \in Threads \ {t} : pc'[u] = pc[u]
  BY DEF TypeOK
\* Steps that neither end a close() nor change what is buffered.
<1>2. ASSUME NEW t \in Threads, NEW l, pc' = [pc EXCEPT ![t] = l] \/ pc' = pc,
             UNCHANGED <<stop, then, mark, closed>>, pushed' \in {pushed, pushed + 1},
             Unwritten' \subseteq Unwritten \union {pushed + 1},
             \/ l \notin {"unlock", "over"}
             \/ Unwritten' = {}
             \/ pc[t] = "unlock"
             \/ t = Logger /\ then[Logger] = "raise"
      PROVE  Written'
  <2>1. \A u \in Threads : Done(u)' => Done(u) \/ Unwritten' = {}
    <3> SUFFICES ASSUME NEW u \in Threads, Done(u)', ~(Unwritten' = {}) PROVE Done(u)
      OBVIOUS
    <3>1. CASE pc' = pc \/ u # t
      BY <1>1, <1>2, <3>1 DEF Done
    <3>2. CASE pc' = [pc EXCEPT ![t] = l] /\ u = t
      BY <1>1, <1>2, <3>2 DEF Done
    <3> QED
      BY <1>2, <3>1, <3>2
  <2> QED
    BY <1>2, <2>1, WrittenMove
<1>3. Unwritten' = Unwritten \/ ~UNCHANGED <<fs, batch>>
  BY DEF Unwritten
<1>4. ASSUME NEW t \in Threads, NEW next \in {"return", "fatal", "raise"}, Close(t, next),
             UNCHANGED <<pushed, fs, batch>>,
             next = "return" => pc[t] = "idle" /\ t \notin closed
      PROVE  Written'
  <2>1. /\ mark'[t] \in {0, pushed} /\ \A u \in Threads \ {t} : mark'[u] = mark[u]
        /\ then'[t] = next /\ \A u \in Threads \ {t} : then'[u] = then[u]
        /\ closed' = closed \ {t}
    BY <1>4 DEF Close, TypeOK
  <2>2. /\ \/ stop = None /\ stop' = t /\ pc' = [pc EXCEPT ![t] = "join"]
           \/ stop' = stop /\ pc' = [pc EXCEPT ![t] = "over"]
    BY <1>4 DEF Close, Goto
  <2>3. ~Done(t)'
    <3> SUFFICES ASSUME Done(t)' PROVE FALSE
      OBVIOUS
    <3>1. pc'[t] \in {"unlock", "over"} /\ next = "return" /\ stop' = t
      BY <2>1 DEF Done
    <3>2. stop = t
      BY <1>1, <2>2, <3>1
    <3> QED
      BY <1>4, <3>1, <3>2 DEF Placed
  <2>4. \A u \in Threads \ {t} : Done(u)' => Done(u)
    <3> SUFFICES ASSUME NEW u \in Threads \ {t}, Done(u)' PROVE Done(u)
      OBVIOUS
    <3>1. stop' = stop /\ pc'[u] = pc[u]
      BY <1>1, <2>2 DEF Done
    <3> QED
      BY <2>1, <3>1 DEF Done
  <2>5. Unwritten' = Unwritten
    BY <1>3, <1>4
  <2>6. \A u \in Threads : Done(u)' => mark'[u] = mark[u] /\ Done(u)
    BY <2>1, <2>3, <2>4
  <2> QED
    BY <1>4, <2>1, <2>5, <2>6, WrittenMove
\* Nothing is left when the rest is written: the logger's buffer is empty too.
<1>5. ASSUME NEW t \in Threads, pc[t] \in Draining, t # Logger PROVE batch = <<>>
  BY <1>5 DEF Placed, Swapped, Idle
<1>6. ASSUME NEW t \in Threads, PushBegin(t) PROVE Written'
  BY <1>2, <1>3, <1>6 DEF PushBegin, Lock, Goto
<1>7. ASSUME NEW t \in Threads, Push(t) PROVE Written'
  <2>1. /\ pushed' = pushed + 1 /\ batch' = batch
        /\ \/ fs' = Append(fs, pushed + 1)
           \/ fs' = Append(DropHalf(fs), pushed + 1)
    BY <1>7 DEF Push
  <2>2. pushed + 1 \in Nat \ {0} /\ fs \in Seq(Nat) /\ DropHalf(fs) \in Seq(Nat)
    BY DropLines DEF TypeOK
  <2>3. Lines(fs') \subseteq Lines(fs) \union {pushed + 1}
    <3>1. /\ Lines(Append(fs, pushed + 1)) = Lines(fs) \union {pushed + 1}
          /\ Lines(Append(DropHalf(fs), pushed + 1)) = Lines(DropHalf(fs)) \union {pushed + 1}
      BY <2>2, AppendLines
    <3>2. Lines(DropHalf(fs)) \subseteq Lines(fs)
      BY <2>2, DropLines
    <3> QED
      BY <2>1, <3>1, <3>2
  <2>4. Unwritten' \subseteq Unwritten \union {pushed + 1}
    BY <2>1, <2>3 DEF Unwritten
  <2> QED
    BY <1>2, <1>7, <2>1, <2>4 DEF Push, Goto
<1>8. CASE Wake \/ SwapBegin
  <2>1. PICK l \in {"ended", "signaled", "timeout", "swap", "swap_reset"} :
           pc' = [pc EXCEPT ![Logger] = l]
    BY <1>8 DEF Wake, SwapBegin, Lock, Goto, Woken
  <2> QED
    BY <1>2, <1>3, <1>8, <2>1, Constants DEF Wake, SwapBegin
<1>9. CASE Swap
  <2>1. PICK l \in {"wait", "open"} : pc' = [pc EXCEPT ![Logger] = l]
    BY <1>9 DEF Swap, Goto
  <2>2. Unwritten' = Unwritten
    BY <1>9 DEF Swap, Unwritten
  <2> QED
    BY <1>2, <1>9, <2>1, <2>2, Constants DEF Swap
<1>10. CASE LoggerOpen
  BY <1>2, <1>3, <1>10, Constants DEF LoggerOpen, WriteOpen, Goto
<1>11. CASE LoggerAppend
  <2>1. Unwritten' \subseteq Unwritten
    BY <1>11, NoLines DEF LoggerAppend, Cleared, Unwritten
  <2> QED
    BY <1>2, <1>11, <2>1, Constants DEF LoggerAppend, Goto
<1>12. ASSUME NEW t \in Threads, CallClose(t) PROVE Written'
  <2>1. PICK next \in {"return", "fatal"} : Close(t, next)
    BY <1>12 DEF CallClose
  <2>2. UNCHANGED <<pushed, fs, batch>> /\ pc[t] = "idle" /\ t \notin closed
    BY <1>12 DEF CallClose
  <2> QED
    BY <1>4, <2>1, <2>2
<1>13. ASSUME NEW t \in Threads, OnSignal(t) PROVE Written'
  BY <1>4, <1>13 DEF OnSignal
<1>14. ASSUME NEW t \in Threads, Join(t) PROVE Written'
  BY <1>2, <1>3, <1>14 DEF Join, Goto
<1>15. ASSUME NEW t \in Threads, DrainBegin(t) PROVE Written'
  <2>1. /\ pc' = [pc EXCEPT ![t] = Rest] /\ pc[t] = "lock"
        /\ UNCHANGED <<pushed, fs, batch, stop, then, mark, closed>>
    BY <1>15 DEF DrainBegin, Lock, Goto
  <2>2. CASE fs # <<>>
    BY <1>2, <1>3, <2>1, <2>2 DEF Rest
  <2>3. CASE fs = <<>> /\ t # Logger
    <3>1. Unwritten' = {}
      BY <1>5, <2>1, <2>3, NoLines DEF Unwritten, Draining
    <3> QED
      BY <1>2, <2>1, <3>1
  <2>4. CASE t = Logger
    BY <1>2, <1>3, <2>1, <2>4 DEF Placed, Closing, Draining
  <2> QED
    BY <2>2, <2>3, <2>4
<1>16. ASSUME NEW t \in Threads, DrainOpen(t) PROVE Written'
  BY <1>2, <1>3, <1>16 DEF DrainOpen, WriteOpen, Goto
<1>17. ASSUME NEW t \in Threads, DrainAppend(t) PROVE Written'
  <2>1. /\ pc' = [pc EXCEPT ![t] = "unlock"] /\ pc[t] = "drain_append" /\ fs' = <<>>
        /\ UNCHANGED <<pushed, batch, stop, then, mark, closed>>
    BY <1>17 DEF DrainAppend, Cleared, Goto
  <2>2. Unwritten' \subseteq Unwritten
    BY <2>1, NoLines DEF Unwritten
  <2>3. CASE t # Logger
    <3>1. Unwritten' = {}
      BY <1>5, <2>1, <2>3, NoLines DEF Unwritten, Draining
    <3> QED
      BY <1>2, <2>1, <3>1
  <2>4. CASE t = Logger
    BY <1>2, <2>1, <2>2, <2>4 DEF Placed, Closing, Draining
  <2> QED
    BY <2>3, <2>4
<1>18. ASSUME NEW t \in Threads, Unlock(t) PROVE Written'
  BY <1>2, <1>3, <1>18 DEF Unlock, Goto
<1>19. ASSUME NEW t \in Threads, Return(t) PROVE Written'
  <2>1. /\ pc[t] = "over" /\ UNCHANGED <<pushed, fs, batch, stop, then, mark>>
        /\ then[t] \in {"return", "fatal", "raise"}
    BY <1>19 DEF Return, Placed, Closing
  <2>2. CASE then[t] = "return"
    <3>1. closed' = closed \union {t} /\ pc' = [pc EXCEPT ![t] = "idle"]
      BY <1>19, <2>2 DEF Return, Goto
    <3>2. \A u \in Threads : Done(u)' => Done(u)
      <4>1. stop = t => Done(t)
        BY <2>1, <2>2 DEF Done
      <4>2. \A u \in Threads \ {t} : Done(u)' => Done(u)
        BY <1>1, <2>1, <3>1 DEF Done
      <4>3. Done(t)' => stop = t
        BY <2>1 DEF Done
      <4> QED
        BY <4>1, <4>2, <4>3
    <3> QED
      BY <1>3, <2>1, <3>2, WrittenMove
  <2>3. CASE then[t] = "fatal"
    BY <1>2, <1>3, <1>19, <2>1, <2>3 DEF Return, Goto
  <2>4. CASE then[t] = "raise"
    <3>1. UNCHANGED <<pc, closed>>
      BY <1>19, <2>4 DEF Return
    <3> QED
      BY <1>2, <1>3, <2>1, <3>1
  <2> QED
    BY <2>1, <2>2, <2>3, <2>4
<1>20. ASSUME NEW t \in Threads, FatalOpen(t) PROVE Written'
  BY <1>2, <1>3, <1>20 DEF FatalOpen, Goto
<1>21. ASSUME UNCHANGED <<pushed, fs, batch, pc, stop, then, mark, closed>> PROVE Written'
  BY <1>2, <1>3, <1>21, Constants
<1>22. /\ \A t \in Threads : Abort(t) => UNCHANGED <<pushed, fs, batch, pc, stop, then, mark, closed>>
       /\ \A i \in Indices : Delete(i) => UNCHANGED <<pushed, fs, batch, pc, stop, then, mark, closed>>
       /\ UNCHANGED vars => UNCHANGED <<pushed, fs, batch, pc, stop, then, mark, closed>>
  BY DEF Abort, Delete, vars
<1> QED
  BY <1>6, <1>7, <1>8, <1>9, <1>10, <1>11, <1>12, <1>13, <1>14, <1>15, <1>16, <1>17, <1>18,
     <1>19, <1>20, <1>21, <1>22 DEF Next, LoggerStep, Finish, Call, Outside

-----------------------------------------------------------------------------
(***************************************************************************)
(* The order of the lines.                                                 *)
(***************************************************************************)
LEMMA PrecedesSub ==
  ASSUME NEW S, NEW T, NEW S1 \in SUBSET S, NEW T1 \in SUBSET T, Precedes(S, T)
  PROVE  Precedes(S1, T1)
BY DEF Precedes

\* write(): the lines go to the end of xx, and nowhere else in the files.
LEMMA WriteOrder ==
  ASSUME TypeOK, FilesInOrder, NEW q \in Seq(Nat), Rises(q), WrittenAs(q),
         \A i \in Indices : Precedes(Lines(chain[i]), Lines(q))
  PROVE  /\ FilesInOrder'
         /\ \A i \in Indices : Lines(chain'[i]) \subseteq Lines(chain[i]) \union Lines(q)
<1>1. CASE chain' = chain
  BY <1>1 DEF FilesInOrder
<1>2. CASE chain' = [chain EXCEPT ![0] = @ \o q]
  <2>1. /\ chain'[0] = chain[0] \o q
        /\ \A i \in Indices \ {0} : chain'[i] = chain[i]
    BY <1>2, Constants DEF TypeOK
  <2>2. /\ Lines(chain[0] \o q) = Lines(chain[0]) \union Lines(q)
        /\ Rises(chain[0] \o q)
    BY Constants, ConcatLines DEF TypeOK, FilesInOrder
  <2>3. \A i \in Indices : Rises(chain'[i])
    BY <2>1, <2>2 DEF FilesInOrder
  <2>4. \A j \in Indices : 0 < j => Precedes(Lines(chain'[j]), Lines(chain'[0]))
    <3> SUFFICES ASSUME NEW j \in Indices, 0 < j
                 PROVE  Precedes(Lines(chain'[j]), Lines(chain'[0]))
      OBVIOUS
    <3>1. Precedes(Lines(chain[j]), Lines(chain[0])) /\ Precedes(Lines(chain[j]), Lines(q))
      BY Constants DEF FilesInOrder
    <3>2. j # 0
      BY LoggerAssumption DEF Indices
    <3>3. Lines(chain'[j]) = Lines(chain[j]) /\ Lines(chain'[0]) = Lines(chain[0]) \union Lines(q)
      BY <2>1, <2>2, <3>2
    <3> QED
      BY <3>1, <3>3 DEF Precedes
  <2>5. \A i, j \in Indices : i < j => j # 0 /\ (i = 0 \/ i \in Indices \ {0})
    BY LoggerAssumption DEF Indices
  <2>6. \A i, j \in Indices : i < j => Precedes(Lines(chain'[j]), Lines(chain'[i]))
    <3> SUFFICES ASSUME NEW i \in Indices, NEW j \in Indices, i < j
                 PROVE  Precedes(Lines(chain'[j]), Lines(chain'[i]))
      OBVIOUS
    <3>1. CASE i = 0
      BY <2>4, <3>1
    <3>2. CASE i # 0
      BY <2>1, <2>5, <3>2 DEF FilesInOrder
    <3> QED
      BY <3>1, <3>2
  <2> QED
    BY <2>1, <2>2, <2>3, <2>6 DEF FilesInOrder
<1> QED
  BY <1>1, <1>2 DEF WrittenAs

\* open_log_file: a file moves to the next name, or stays.
LEMMA RenamedIs ==
  ASSUME TypeOK, NEW i \in Indices, i # 0
  PROVE  /\ Moves(i) => i - 1 \in Indices /\ Renamed[i] = chain[i - 1]
         /\ ~Moves(i) => Renamed[i] = chain[i]
         /\ \A j \in Indices : i < j /\ Moves(j) => Moves(i)
<1>1. Moves(i) => i - 1 \in Indices
  BY LoggerAssumption DEF Indices
<1>2. \A j \in Indices : i < j /\ Moves(j) => Moves(i)
  BY LoggerAssumption DEF Indices, Moves
<1> QED
  BY <1>1, <1>2 DEF Renamed

LEMMA OpenOrder ==
  ASSUME TypeOK, FilesInOrder, OpenLog
  PROVE  /\ FilesInOrder'
         /\ \A i \in Indices : \E j \in Indices : Lines(chain'[i]) \subseteq Lines(chain[j])
<1>1. CASE chain' = chain
  BY <1>1 DEF FilesInOrder
<1>2. CASE chain' = Renamed
  <2>1. chain'[0] = <<>>
    BY <1>2, Constants DEF Renamed
  <2> DEFINE from(i) == IF Moves(i) THEN i - 1 ELSE i
  <2>2. \A i \in Indices \ {0} : from(i) \in Indices /\ chain'[i] = chain[from(i)]
    BY <1>2, RenamedIs
  <2>3. \A i, j \in Indices \ {0} : i < j => from(i) < from(j)
    <3> SUFFICES ASSUME NEW i \in Indices \ {0}, NEW j \in Indices \ {0}, i < j
                 PROVE  from(i) < from(j)
      OBVIOUS
    <3>1. i \in Nat /\ j \in Nat /\ i < j
      BY DEF Indices
    <3>2. Moves(j) => Moves(i)
      BY RenamedIs
    <3>3. CASE Moves(i) /\ Moves(j)
      BY <3>1, <3>3
    <3>4. CASE Moves(i) /\ ~Moves(j)
      BY <3>1, <3>4
    <3>5. CASE ~Moves(i) /\ ~Moves(j)
      BY <3>1, <3>5
    <3> QED
      BY <3>2, <3>3, <3>4, <3>5
  <2> HIDE DEF from
  <2>4. \A i \in Indices : Rises(chain'[i])
    <3> SUFFICES ASSUME NEW i \in Indices PROVE Rises(chain'[i])
      OBVIOUS
    <3>1. CASE i = 0
      BY <2>1, <3>1, NoLines
    <3>2. CASE i # 0
      BY <2>2, <3>2 DEF FilesInOrder
    <3> QED
      BY <3>1, <3>2
  <2>5. \A i, j \in Indices : i < j => Precedes(Lines(chain'[j]), Lines(chain'[i]))
    <3> SUFFICES ASSUME NEW i \in Indices, NEW j \in Indices, i < j
                 PROVE  Precedes(Lines(chain'[j]), Lines(chain'[i]))
      OBVIOUS
    <3>1. CASE i = 0
      BY <2>1, <3>1, NoLines DEF Precedes
    <3>2. CASE i # 0
      <4>1. i \in Indices \ {0} /\ j \in Indices \ {0}
        BY <3>2 DEF Indices
      <4>2. from(i) \in Indices /\ from(j) \in Indices /\ from(i) < from(j)
        BY <2>2, <2>3, <4>1
      <4>3. chain'[i] = chain[from(i)] /\ chain'[j] = chain[from(j)]
        BY <2>2, <4>1
      <4> QED
        BY <4>2, <4>3 DEF FilesInOrder
    <3> QED
      BY <3>1, <3>2
  <2>6. \A i \in Indices : \E j \in Indices : Lines(chain'[i]) \subseteq Lines(chain[j])
    <3> SUFFICES ASSUME NEW i \in Indices
                 PROVE  \E j \in Indices : Lines(chain'[i]) \subseteq Lines(chain[j])
      OBVIOUS
    <3>1. CASE i = 0
      BY <2>1, <3>1, NoLines, Constants
    <3>2. CASE i # 0
      BY <2>2, <3>2
    <3> QED
      BY <3>1, <3>2
  <2> QED
    BY <2>4, <2>5, <2>6 DEF FilesInOrder
<1> QED
  BY <1>1, <1>2 DEF OpenLog

\* A step of the files keeps the order if what it adds is between the files and
\* what is still to be written.
LEMMA OrderedFiles ==
  ASSUME TypeOK, Ordered, FilesInOrder', pushed' = pushed,
         \/ UNCHANGED <<fs, batch>> /\ pc'[Logger] = "append" /\ pc[Logger] = "open"
         \/ UNCHANGED <<fs, batch>> /\ pc'[Logger] \notin {"open", "append"}
         \/ fs' = fs /\ batch' = <<>>
         \/ fs' = <<>> /\ batch' = batch /\ pc'[Logger] \notin {"open", "append"},
         \A i \in Indices :
            \E j \in Indices : \/ Lines(chain'[i]) \subseteq Lines(chain[j])
                               \/ /\ Lines(chain'[i]) \subseteq Lines(chain[j]) \union Lines(batch)
                                  /\ batch' = <<>>
                               \/ /\ Lines(chain'[i]) \subseteq Lines(chain[j]) \union Lines(fs)
                                  /\ fs' = <<>>
  PROVE  Ordered'
<1>1. Lines(fs') \subseteq Lines(fs) /\ Lines(batch') \subseteq Lines(batch)
  BY NoLines
<1>2. Rises(fs') /\ Rises(batch') /\ Unwritten' \subseteq Unwritten /\ Unwritten' \subseteq 1..pushed'
  BY <1>1, NoLines DEF Ordered, Unwritten
<1>3. Precedes(Lines(batch'), Lines(fs'))
  BY <1>1, PrecedesSub DEF Ordered
<1>4. ASSUME NEW i \in Indices
      PROVE  /\ Precedes(Lines(chain'[i]), Lines(fs'))
             /\ pc'[Logger] \in {"open", "append"} => Precedes(Lines(chain'[i]), Lines(batch'))
             /\ Lines(chain'[i]) \subseteq 1..pushed'
  <2>1. PICK j \in Indices : \/ Lines(chain'[i]) \subseteq Lines(chain[j])
                             \/ /\ Lines(chain'[i]) \subseteq Lines(chain[j]) \union Lines(batch)
                                /\ batch' = <<>>
                             \/ /\ Lines(chain'[i]) \subseteq Lines(chain[j]) \union Lines(fs)
                                /\ fs' = <<>>
    OBVIOUS
  <2>2. Lines(chain'[i]) \subseteq 1..pushed'
    BY <2>1 DEF Ordered, Unwritten
  <2>3. Precedes(Lines(chain'[i]), Lines(fs'))
    <3>1. Precedes(Lines(chain[j]), Lines(fs)) /\ Precedes(Lines(batch), Lines(fs))
      BY DEF Ordered
    <3> QED
      BY <1>1, <2>1, <3>1, NoLines DEF Precedes
  <2>4. ASSUME pc'[Logger] \in {"open", "append"} PROVE Precedes(Lines(chain'[i]), Lines(batch'))
    <3>1. CASE batch' = <<>>
      BY <3>1, NoLines DEF Precedes
    <3>2. CASE UNCHANGED <<fs, batch>> /\ pc[Logger] = "open"
      <4>1. Precedes(Lines(chain[j]), Lines(batch))
        BY <3>2 DEF Ordered
      <4>2. \/ Lines(chain'[i]) \subseteq Lines(chain[j])
            \/ batch' = <<>>
            \/ fs = <<>> /\ Lines(chain'[i]) \subseteq Lines(chain[j]) \union Lines(fs)
        BY <2>1, <3>2
      <4> QED
        BY <3>1, <3>2, <4>1, <4>2, NoLines DEF Precedes
    <3> QED
      BY <2>4, <3>1, <3>2
  <2> QED
    BY <2>2, <2>3, <2>4
<1> QED
  BY <1>2, <1>3, <1>4 DEF Ordered

LEMMA OrderedInit == Init => Ordered
<1> SUFFICES ASSUME Init PROVE Ordered
  OBVIOUS
<1>1. \A i \in Indices : chain[i] = <<>>
  BY DEF Init
<1>2. FilesInOrder
  BY <1>1, NoLines DEF FilesInOrder, Precedes
<1> QED
  BY <1>1, <1>2, NoLines DEF Init, Ordered, Unwritten, Precedes

LEMMA OrderedStep == TypeOK /\ Placed /\ Swapped /\ Ordered /\ [Next]_vars => Ordered'
<1> SUFFICES ASSUME TypeOK, Placed, Swapped, Ordered, [Next]_vars PROVE Ordered'
  OBVIOUS
<1> USE DEF buffers, disk, closing, outside
<1>1. \A l : \A t \in Threads : pc' = [pc EXCEPT ![t] = l] =>
         pc'[t] = l /\ \A u \in Threads \ {t} : pc'[u] = pc[u]
  BY DEF TypeOK
<1>2. FilesInOrder
  BY DEF Ordered
\* Steps that leave the lines where they are.
<1>3. ASSUME UNCHANGED <<pushed, fs, batch, chain>>,
             pc'[Logger] \in {"open", "append"} => pc[Logger] \in {"open", "append"}
      PROVE  Ordered'
  BY <1>3 DEF Ordered, FilesInOrder, Unwritten
<1>4. ASSUME NEW t \in Threads, NEW l, l \notin {"open", "append"},
             pc' = pc \/ pc' = [pc EXCEPT ![t] = l], UNCHANGED <<pushed, fs, batch, chain>>
      PROVE  Ordered'
  <2>1. pc'[Logger] \in {"open", "append"} => pc[Logger] \in {"open", "append"}
    BY <1>1, <1>4, Constants
  <2> QED
    BY <1>3, <1>4, <2>1
<1>5. ASSUME NEW t \in Threads, PushBegin(t) PROVE Ordered'
  BY <1>4, <1>5 DEF PushBegin, Lock, Goto
<1>6. ASSUME NEW t \in Threads, Push(t) PROVE Ordered'
  <2>1. PICK room : /\ room \in {fs, DropHalf(fs)}
                    /\ fs' = Append(room, pushed + 1) /\ pushed' = pushed + 1
    BY <1>6 DEF Push
  <2>2. room \in Seq(Nat) /\ Lines(room) \subseteq Lines(fs) /\ Rises(room)
    BY <2>1, DropLines DEF TypeOK, Ordered
  <2>3. pushed \in Nat /\ pushed + 1 \in Nat \ {0} /\ Lines(fs) \subseteq 1..pushed
    BY DEF TypeOK, Ordered, Unwritten
  <2>4. Precedes(Lines(room), {pushed + 1})
    BY <2>2, <2>3 DEF Precedes
  <2>5. Rises(fs') /\ Lines(fs') = Lines(room) \union {pushed + 1}
    BY <2>1, <2>2, <2>3, <2>4, AppendLines
  <2>6. UNCHANGED <<batch, chain>> /\ pc'[Logger] = pc[Logger]
    <3>1. pc[t] = "push" /\ pc' = [pc EXCEPT ![t] = "idle"] /\ UNCHANGED <<batch, chain>>
      BY <1>6 DEF Push, Goto
    <3>2. t # Logger
      BY <3>1 DEF Placed
    <3> QED
      BY <1>1, <3>1, <3>2, Constants
  <2>7. 1..pushed \subseteq 1..pushed' /\ pushed + 1 \in 1..pushed'
    BY <2>1, <2>3
  <2>8. \A S \in SUBSET (1..pushed) : Precedes(S, Lines(fs)) => Precedes(S, Lines(fs'))
    <3> SUFFICES ASSUME NEW S \in SUBSET (1..pushed), Precedes(S, Lines(fs)),
                        NEW x \in S, NEW y \in Lines(fs')
                 PROVE  x < y
      BY DEF Precedes
    <3>1. CASE y \in Lines(fs)
      BY <3>1 DEF Precedes
    <3>2. CASE y = pushed + 1
      BY <2>3, <3>2
    <3> QED
      BY <2>2, <2>5, <3>1, <3>2
  <2>9. Unwritten' \subseteq 1..pushed' /\ Lines(batch) \subseteq 1..pushed
    BY <2>2, <2>3, <2>5, <2>6, <2>7 DEF Ordered, Unwritten
  <2>10. Rises(batch') /\ FilesInOrder' /\ Precedes(Lines(batch'), Lines(fs'))
    BY <2>6, <2>8, <2>9 DEF Ordered, FilesInOrder
  <2>11. ASSUME NEW i \in Indices
         PROVE  /\ Precedes(Lines(chain'[i]), Lines(fs'))
                /\ pc'[Logger] \in {"open", "append"} => Precedes(Lines(chain'[i]), Lines(batch'))
                /\ Lines(chain'[i]) \subseteq 1..pushed'
    BY <2>6, <2>7, <2>8 DEF Ordered
  <2> QED
    BY <2>5, <2>9, <2>10, <2>11 DEF Ordered
<1>7. CASE Wake \/ SwapBegin
  <2>1. PICK l \in {"ended", "signaled", "timeout", "swap", "swap_reset"} :
           pc' = [pc EXCEPT ![Logger] = l]
    BY <1>7 DEF Wake, SwapBegin, Lock, Goto, Woken
  <2> QED
    BY <1>4, <1>7, <2>1, Constants DEF Wake, SwapBegin
<1>8. CASE Swap
  <2>1. batch = <<>> /\ fs' = <<>> /\ batch' = fs /\ UNCHANGED <<pushed, chain>>
    BY <1>8 DEF Swap, Swapped, Idle
  <2>2. FilesInOrder' /\ Rises(fs') /\ Rises(batch') /\ Unwritten' \subseteq 1..pushed'
    BY <2>1, NoLines DEF Ordered, FilesInOrder, Unwritten
  <2>3. \A i \in Indices : /\ Precedes(Lines(chain'[i]), Lines(batch'))
                           /\ Lines(chain'[i]) \subseteq 1..pushed'
    BY <2>1 DEF Ordered
  <2>4. \A S : Precedes(S, Lines(fs'))
    BY <2>1, NoLines DEF Precedes
  <2> QED
    BY <2>2, <2>3, <2>4 DEF Ordered
<1>9. CASE LoggerOpen
  <2>1. pc[Logger] = "open" /\ pc'[Logger] = "append" /\ UNCHANGED <<pushed, fs, batch>>
    BY <1>1, <1>9, Constants DEF LoggerOpen, WriteOpen, Goto
  <2>2. CASE OpenLog
    BY <1>2, <2>1, <2>2, OpenOrder, OrderedFiles
  <2>3. CASE chain' = chain
    BY <1>3, <2>1, <2>3
  <2> QED
    BY <1>9, <2>2, <2>3 DEF LoggerOpen, WriteOpen
<1>10. CASE LoggerAppend
  <2>1. /\ pc[Logger] = "append" /\ WriteLines(batch) /\ batch' = <<>>
        /\ UNCHANGED <<pushed, fs>> /\ batch \in Seq(Nat)
    BY <1>10 DEF LoggerAppend, Cleared, TypeOK
  <2>2. Rises(batch) /\ \A i \in Indices : Precedes(Lines(chain[i]), Lines(batch))
    BY <2>1 DEF Ordered
  <2>3. /\ FilesInOrder'
        /\ \A i \in Indices : Lines(chain'[i]) \subseteq Lines(chain[i]) \union Lines(batch)
    BY <1>2, <2>1, <2>2, WriteIs, WriteOrder
  <2> QED
    BY <2>1, <2>3, OrderedFiles
<1>11. ASSUME NEW t \in Threads, CallClose(t) \/ OnSignal(t) PROVE Ordered'
  <2>1. PICK next \in {"return", "fatal", "raise"} : Close(t, next)
    BY <1>11 DEF CallClose, OnSignal
  <2>2. PICK l \in {"join", "over"} : pc' = [pc EXCEPT ![t] = l]
    BY <2>1 DEF Close, Goto
  <2>3. UNCHANGED <<pushed, fs, batch, chain>>
    BY <1>11 DEF CallClose, OnSignal
  <2> QED
    BY <1>4, <2>2, <2>3
<1>12. ASSUME NEW t \in Threads, Join(t) \/ DrainBegin(t) \/ Unlock(t) \/ FatalOpen(t)
       PROVE  Ordered'
  <2>1. PICK l \in {"lock", "drain", "unlock", "over", "abort"} : pc' = [pc EXCEPT ![t] = l]
    BY <1>12 DEF Join, DrainBegin, Lock, Rest, Unlock, FatalOpen, Goto
  <2>2. UNCHANGED <<pushed, fs, batch, chain>>
    BY <1>12 DEF Join, DrainBegin, Unlock, FatalOpen
  <2> QED
    BY <1>4, <2>1, <2>2
<1>13. ASSUME NEW t \in Threads, pc[t] \in {"drain", "drain_append"},
              NEW l \in {"drain_append", "unlock"}, pc' = [pc EXCEPT ![t] = l]
       PROVE  pc'[Logger] \notin {"open", "append"}
  <2>1. t = Logger \/ pc[Logger] = "ended"
    BY <1>13 DEF Placed, Draining
  <2> QED
    BY <1>1, <1>13, <2>1, Constants
<1>14. ASSUME NEW t \in Threads, DrainOpen(t) PROVE Ordered'
  <2>1. pc'[Logger] \notin {"open", "append"} /\ UNCHANGED <<pushed, fs, batch>>
    BY <1>13, <1>14 DEF DrainOpen, WriteOpen, Goto
  <2>2. CASE OpenLog
    BY <1>2, <2>1, <2>2, OpenOrder, OrderedFiles
  <2>3. CASE chain' = chain
    BY <1>3, <2>1, <2>3
  <2> QED
    BY <1>14, <2>2, <2>3 DEF DrainOpen, WriteOpen
<1>15. ASSUME NEW t \in Threads, DrainAppend(t) PROVE Ordered'
  <2>1. /\ WriteLines(fs) /\ fs' = <<>> /\ UNCHANGED <<pushed, batch>> /\ fs \in Seq(Nat)
        /\ pc'[Logger] \notin {"open", "append"}
    BY <1>13, <1>15 DEF DrainAppend, Cleared, TypeOK, Goto
  <2>2. Rises(fs) /\ \A i \in Indices : Precedes(Lines(chain[i]), Lines(fs))
    BY DEF Ordered
  <2>3. /\ FilesInOrder'
        /\ \A i \in Indices : Lines(chain'[i]) \subseteq Lines(chain[i]) \union Lines(fs)
    BY <1>2, <2>1, <2>2, WriteIs, WriteOrder
  <2> QED
    BY <2>1, <2>3, OrderedFiles
<1>16. ASSUME NEW t \in Threads, Return(t) PROVE Ordered'
  <2>1. then[t] \in {"return", "fatal", "raise"} /\ UNCHANGED <<pushed, fs, batch, chain>>
    BY <1>16 DEF Return, Placed, Closing
  <2>2. pc' = pc \/ \E l \in {"idle", "fatal"} : pc' = [pc EXCEPT ![t] = l]
    BY <1>16, <2>1 DEF Return, Goto
  <2> QED
    BY <1>4, <2>1, <2>2
<1>17. ASSUME NEW i \in Indices, Delete(i) PROVE Ordered'
  <2>1. /\ chain' = [chain EXCEPT ![i] = <<>>] /\ UNCHANGED <<pushed, fs, batch, pc>>
    BY <1>17 DEF Delete
  <2>2. chain'[i] = <<>> /\ \A j \in Indices \ {i} : chain'[j] = chain[j]
    BY <2>1 DEF TypeOK
  <2>3. \A j \in Indices : Rises(chain'[j]) /\ Lines(chain'[j]) \subseteq Lines(chain[j])
    BY <1>2, <2>2, NoLines DEF FilesInOrder
  <2>4. FilesInOrder'
    BY <1>2, <2>3, PrecedesSub DEF FilesInOrder
  <2>5. Rises(fs') /\ Rises(batch') /\ Unwritten' \subseteq 1..pushed' /\ Precedes(Lines(batch'), Lines(fs'))
    BY <2>1 DEF Ordered, Unwritten
  <2>6. ASSUME NEW j \in Indices
        PROVE  /\ Precedes(Lines(chain'[j]), Lines(fs'))
               /\ pc'[Logger] \in {"open", "append"} => Precedes(Lines(chain'[j]), Lines(batch'))
               /\ Lines(chain'[j]) \subseteq 1..pushed'
    BY <2>1, <2>3, PrecedesSub DEF Ordered
  <2> QED
    BY <2>4, <2>5, <2>6 DEF Ordered
<1>18. /\ \A t \in Threads : Abort(t) => UNCHANGED <<pushed, fs, batch, chain, pc>>
       /\ UNCHANGED vars => UNCHANGED <<pushed, fs, batch, chain, pc>>
  BY DEF Abort, vars
<1>19. ASSUME UNCHANGED <<pushed, fs, batch, chain, pc>> PROVE Ordered'
  BY <1>3, <1>19
<1> QED
  BY <1>5, <1>6, <1>7, <1>8, <1>9, <1>10, <1>11, <1>12, <1>14, <1>15, <1>16, <1>17, <1>18,
     <1>19 DEF Next, LoggerStep, Finish, Call, Outside

-----------------------------------------------------------------------------
(***************************************************************************)
(* Every line in one place.  But for push, which makes a line and may drop *)
(* others from the buffer, a step moves all the lines of some places to    *)
(* other places: to is where the lines of a place go.                      *)
(***************************************************************************)
Lies(h, n) ==
    /\ \A l \in 1..n : \E p \in Place : l \in h[p]
    /\ \A p \in Place : h[p] \subseteq 1..n
    /\ \A p, q \in Place : p # q => h[p] \intersect h[q] = {}

LEMMA Relocated ==
  ASSUME NEW n, NEW h, NEW g, NEW to \in [Place -> Place], Lies(h, n),
         \A p \in Place : h[p] \subseteq g[to[p]],
         \A p \in Place : \A l \in g[p] : \E q \in Place : to[q] = p /\ l \in h[q]
  PROVE  Lies(g, n)
<1>1. \A l \in 1..n : \E p \in Place : l \in g[p]
  BY DEF Lies
<1>2. \A p \in Place : g[p] \subseteq 1..n
  BY DEF Lies
<1>3. ASSUME NEW p \in Place, NEW q \in Place, NEW l, l \in g[p], l \in g[q]
      PROVE  p = q
  <2>1. PICK p1 \in Place : to[p1] = p /\ l \in h[p1]
    BY <1>3
  <2>2. PICK q1 \in Place : to[q1] = q /\ l \in h[q1]
    BY <1>3
  <2>3. p1 = q1
    BY <2>1, <2>2 DEF Lies
  <2> QED
    BY <2>1, <2>2, <2>3
<1> QED
  BY <1>1, <1>2, <1>3 DEF Lies

\* The places, and what they hold.
LEMMA PlaceIs ==
  ASSUME NEW p \in Place
  PROVE  \/ p = <<"fs", 0>> \/ p = <<"batch", 0>> \/ p = <<"fatal", 0>>
         \/ \E i \in Indices : p = <<"file", i>>
         \/ \E r \in Reasons : p = <<"lost", r>>
BY DEF Place

LEMMA PlacesAre ==
  /\ <<"fs", 0>> \in Place /\ <<"batch", 0>> \in Place /\ <<"fatal", 0>> \in Place
  /\ \A i \in Indices : <<"file", i>> \in Place
  /\ \A r \in Reasons : <<"lost", r>> \in Place
BY DEF Place

LEMMA HeldIs ==
  /\ Held(<<"fs", 0>>) = Lines(fs)
  /\ Held(<<"batch", 0>>) = Lines(batch)
  /\ Held(<<"fatal", 0>>) = Lines(fatal)
  /\ \A i : Held(<<"file", i>>) = Lines(chain[i])
  /\ \A r : Held(<<"lost", r>>) = lost[r]
BY DEF Held

LEMMA AccountedIs ==
  EveryLineAccounted <=> Lies([p \in Place |-> Held(p)], pushed)
BY DEF EveryLineAccounted, Lies

LEMMA HeldNext ==
  /\ Held(<<"fs", 0>>)' = Lines(fs')
  /\ Held(<<"batch", 0>>)' = Lines(batch')
  /\ Held(<<"fatal", 0>>)' = Lines(fatal')
  /\ \A i : Held(<<"file", i>>)' = Lines(chain'[i])
  /\ \A r : Held(<<"lost", r>>)' = lost'[r]
BY DEF Held, Lines

LEMMA AccountedMoves ==
  ASSUME EveryLineAccounted, pushed' = pushed, NEW to \in [Place -> Place],
         \A p, q \in Place : q = to[p] => Held(p) \subseteq Held(q)',
         \A p \in Place : \A l \in Held(p)' : \E q \in Place : to[q] = p /\ l \in Held(q)
  PROVE  EveryLineAccounted'
<1> DEFINE h == [p \in Place |-> Held(p)]
           g == [p \in Place |-> Held(p)']
<1>1. Lies(h, pushed)
  BY AccountedIs
<1>2. \A p \in Place : h[p] = Held(p) /\ g[p] = Held(p)'
  OBVIOUS
<1> HIDE DEF h, g
<1>3. \A p \in Place : to[p] \in Place
  OBVIOUS
<1>4. \A p \in Place : h[p] \subseteq g[to[p]]
  <2> SUFFICES ASSUME NEW p \in Place PROVE h[p] \subseteq g[to[p]]
    OBVIOUS
  <2>1. PICK q \in Place : q = to[p]
    BY <1>3
  <2> QED
    BY <1>2, <2>1
<1>5. \A p \in Place : \A l \in g[p] : \E q \in Place : to[q] = p /\ l \in h[q]
  BY <1>2
<1>6. Lies(g, pushed)
  BY <1>1, <1>4, <1>5, Relocated
<1>7. /\ \A l \in 1..pushed' : \E p \in Place : l \in Held(p)'
      /\ \A p \in Place : Held(p)' \subseteq 1..pushed'
      /\ \A p, q \in Place : p # q => Held(p)' \intersect Held(q)' = {}
  BY <1>2, <1>6 DEF Lies
<1> QED
  BY <1>7 DEF EveryLineAccounted

\* All the lines of one place go to another.
LEMMA AccountedMove ==
  ASSUME EveryLineAccounted, pushed' = pushed,
         NEW a \in Place, NEW b \in Place, a # b,
         Held(a)' = {}, Held(b)' = Held(b) \union Held(a),
         \A p \in Place \ {a, b} : Held(p)' = Held(p)
  PROVE  EveryLineAccounted'
<1> DEFINE to == [p \in Place |-> IF p = a THEN b ELSE p]
<1>1. to \in [Place -> Place] /\ to[a] = b /\ \A p \in Place \ {a} : to[p] = p
  OBVIOUS
<1> HIDE DEF to
<1>2. \A p, q \in Place : q = to[p] => Held(p) \subseteq Held(q)'
  <2> SUFFICES ASSUME NEW p \in Place, NEW q \in Place, q = to[p]
               PROVE  Held(p) \subseteq Held(q)'
    OBVIOUS
  <2>1. CASE p = a
    BY <1>1, <2>1
  <2>2. CASE p = b
    BY <1>1, <2>2
  <2>3. CASE p \notin {a, b}
    BY <1>1, <2>3
  <2> QED
    BY <2>1, <2>2, <2>3
<1>3. \A p \in Place : \A l \in Held(p)' : \E q \in Place : to[q] = p /\ l \in Held(q)
  <2> SUFFICES ASSUME NEW p \in Place, NEW l \in Held(p)'
               PROVE  \E q \in Place : to[q] = p /\ l \in Held(q)
    OBVIOUS
  <2>1. CASE p = a
    BY <2>1
  <2>2. CASE p = b
    BY <1>1, <2>2
  <2>3. CASE p \notin {a, b}
    BY <1>1, <2>3
  <2> QED
    BY <2>1, <2>2, <2>3
<1> QED
  BY <1>1, <1>2, <1>3, AccountedMoves

\* write(): the lines go to xx, to the .fatal file, or are lost.
LEMMA WriteMoves ==
  ASSUME TypeOK, NEW s \in Seq(Nat), WrittenAs(s)
  PROVE  \E b \in Place \ {<<"fs", 0>>, <<"batch", 0>>} :
            /\ Held(b)' = Held(b) \union Lines(s)
            /\ \A p \in Place \ {b, <<"fs", 0>>, <<"batch", 0>>} : Held(p)' = Held(p)
<1> DEFINE Others(b) == \A p \in Place \ {b, <<"fs", 0>>, <<"batch", 0>>} : Held(p)' = Held(p)
<1>1. \A x, y, i, j : <<x, i>> = <<y, j>> => x = y /\ i = j
  OBVIOUS
<1>2. CASE chain' = [chain EXCEPT ![0] = @ \o s] /\ UNCHANGED <<fatal, lost>>
  <2>1. <<"file", 0>> \in Place \ {<<"fs", 0>>, <<"batch", 0>>}
    BY <1>1, Constants, PlacesAre
  <2>2. Lines(chain'[0]) = Lines(chain[0]) \union Lines(s)
    BY <1>2, Constants, ConcatLines DEF TypeOK
  <2>3. Others(<<"file", 0>>)
    <3> SUFFICES ASSUME NEW p \in Place \ {<<"file", 0>>, <<"fs", 0>>, <<"batch", 0>>}
                 PROVE  Held(p)' = Held(p)
      OBVIOUS
    <3>1. CASE p = <<"fatal", 0>>
      BY <1>2, <3>1, HeldIs, HeldNext
    <3>2. ASSUME NEW i \in Indices, p = <<"file", i>> PROVE Held(p)' = Held(p)
      <4>1. i # 0 /\ chain'[i] = chain[i]
        BY <1>2, <3>2 DEF TypeOK
      <4> QED
        BY <3>2, <4>1, HeldIs, HeldNext
    <3>3. ASSUME NEW r \in Reasons, p = <<"lost", r>> PROVE Held(p)' = Held(p)
      BY <1>2, <3>3, HeldIs, HeldNext
    <3> QED
      BY <3>1, <3>2, <3>3, PlaceIs
  <2> QED
    BY <2>1, <2>2, <2>3, HeldIs, HeldNext
<1>3. CASE fatal' = fatal \o s /\ UNCHANGED <<chain, lost>>
  <2>1. <<"fatal", 0>> \in Place \ {<<"fs", 0>>, <<"batch", 0>>}
    BY <1>1, PlacesAre
  <2>2. Lines(fatal') = Lines(fatal) \union Lines(s)
    BY <1>3, ConcatLines DEF TypeOK
  <2>3. Others(<<"fatal", 0>>)
    BY <1>3, PlaceIs, HeldIs, HeldNext
  <2> QED
    BY <2>1, <2>2, <2>3, HeldIs, HeldNext
<1>4. ASSUME NEW r \in Reasons, Lose(r, Lines(s)), UNCHANGED <<chain, fatal>>
      PROVE  \E b \in Place \ {<<"fs", 0>>, <<"batch", 0>>} :
                Held(b)' = Held(b) \union Lines(s) /\ Others(b)
  <2>1. <<"lost", r>> \in Place \ {<<"fs", 0>>, <<"batch", 0>>}
    BY <1>1, PlacesAre
  <2>2. lost'[r] = lost[r] \union Lines(s) /\ \A x \in Reasons \ {r} : lost'[x] = lost[x]
    BY <1>4, LinesAre, LoseType
  <2>3. Others(<<"lost", r>>)
    <3> SUFFICES ASSUME NEW p \in Place \ {<<"lost", r>>, <<"fs", 0>>, <<"batch", 0>>}
                 PROVE  Held(p)' = Held(p)
      OBVIOUS
    <3>1. CASE p = <<"fatal", 0>>
      BY <1>4, <3>1, HeldIs, HeldNext
    <3>2. ASSUME NEW i \in Indices, p = <<"file", i>> PROVE Held(p)' = Held(p)
      BY <1>4, <3>2, HeldIs, HeldNext
    <3>3. ASSUME NEW x \in Reasons, p = <<"lost", x>> PROVE Held(p)' = Held(p)
      <4>1. x # r /\ lost'[x] = lost[x]
        BY <2>2, <3>3
      <4> QED
        BY <3>3, <4>1, HeldIs, HeldNext
    <3> QED
      BY <3>1, <3>2, <3>3, PlaceIs
  <2> QED
    BY <2>1, <2>2, <2>3, HeldIs, HeldNext
<1>5. "deleted" \in Reasons /\ "open" \in Reasons
  BY DEF Reasons
<1> QED
  BY <1>2, <1>3, <1>4, <1>5 DEF WrittenAs

\* open_log_file: every file moves to the next name, or is lost.
LEMMA AccountedOpen ==
  ASSUME TypeOK, EveryLineAccounted, OpenLog, UNCHANGED <<pushed, fs, batch, fatal>>
  PROVE  EveryLineAccounted'
<1>1. CASE UNCHANGED <<chain, lost>>
  BY <1>1 DEF EveryLineAccounted, Held
<1>2. CASE chain' = Renamed /\ Lose("old", Overwritten)
  <2> DEFINE to == [p \in Place |->
                       IF p[1] = "file" /\ Moves(p[2])
                       THEN IF p[2] + 1 \in Taken THEN <<"file", p[2] + 1>> ELSE <<"lost", "old">>
                       ELSE p]
  <2>1. /\ "old" \in Reasons /\ Overwritten \in SUBSET Nat
        /\ \A i \in Indices : i \in Nat
        /\ \A i \in Taken : i \in Indices /\ Moves(i)
    BY LinesType DEF Reasons, Overwritten, Taken, Indices
  <2>2. lost'["old"] = lost["old"] \union Overwritten
        /\ \A r \in Reasons \ {"old"} : lost'[r] = lost[r]
    BY <1>2, <2>1, LoseType
  <2>3. /\ to[<<"fs", 0>>] = <<"fs", 0>> /\ to[<<"batch", 0>>] = <<"batch", 0>>
        /\ to[<<"fatal", 0>>] = <<"fatal", 0>>
        /\ \A r \in Reasons : to[<<"lost", r>>] = <<"lost", r>>
    BY PlacesAre
  <2>4. \A i \in Indices :
           to[<<"file", i>>] = IF Moves(i) THEN IF i + 1 \in Taken THEN <<"file", i + 1>>
                                                ELSE <<"lost", "old">>
                               ELSE <<"file", i>>
    BY PlacesAre
  <2>5. to \in [Place -> Place]
    <3>1. \A p \in Place : (IF p[1] = "file" /\ Moves(p[2])
                            THEN IF p[2] + 1 \in Taken THEN <<"file", p[2] + 1>> ELSE <<"lost", "old">>
                            ELSE p) \in Place
      BY <2>1, PlacesAre
    <3> QED
      BY <3>1
  <2> HIDE DEF to
  <2>6. chain'[0] = <<>>
    BY <1>2, Constants DEF Renamed
  <2>7. \A i \in Indices : i + 1 \in Taken => chain'[i + 1] = chain[i]
    <3> SUFFICES ASSUME NEW i \in Indices, i + 1 \in Taken PROVE chain'[i + 1] = chain[i]
      OBVIOUS
    <3>1. i + 1 # 0 /\ (i + 1) - 1 = i /\ i + 1 \in Indices /\ Moves(i + 1)
      BY <2>1
    <3> QED
      BY <1>2, <3>1, RenamedIs
  <2>8. \A i \in Indices : ~Moves(i) => chain'[i] = chain[i]
    <3>1. Moves(0)
      BY DEF Moves
    <3> QED
      BY <1>2, <3>1, RenamedIs
  <2>9. \A p, q \in Place : q = to[p] => Held(p) \subseteq Held(q)'
    <3> SUFFICES ASSUME NEW p \in Place, NEW q \in Place, q = to[p]
                 PROVE  Held(p) \subseteq Held(q)'
      OBVIOUS
    <3>1. CASE p \in {<<"fs", 0>>, <<"batch", 0>>, <<"fatal", 0>>}
      BY <2>3, <3>1, HeldIs, HeldNext
    <3>2. ASSUME NEW r \in Reasons, p = <<"lost", r>> PROVE Held(p) \subseteq Held(q)'
      <4>1. q = <<"lost", r>> /\ lost[r] \subseteq lost'[r]
        BY <2>2, <2>3, <3>2
      <4> QED
        BY <3>2, <4>1, HeldIs, HeldNext
    <3>3. ASSUME NEW i \in Indices, p = <<"file", i>> PROVE Held(p) \subseteq Held(q)'
      <4>1. CASE ~Moves(i)
        <5>1. q = <<"file", i>> /\ chain'[i] = chain[i]
          BY <2>4, <2>8, <3>3, <4>1
        <5> QED
          BY <3>3, <5>1, HeldIs, HeldNext
      <4>2. CASE Moves(i) /\ i + 1 \in Taken
        <5>1. q = <<"file", i + 1>> /\ chain'[i + 1] = chain[i]
          BY <2>4, <2>7, <3>3, <4>2
        <5> QED
          BY <3>3, <5>1, HeldIs, HeldNext
      <4>3. CASE Moves(i) /\ i + 1 \notin Taken
        <5>1. q = <<"lost", "old">>
          BY <2>4, <3>3, <4>3
        <5>2. Lines(chain[i]) \subseteq Overwritten
          BY <4>3 DEF Overwritten, Taken
        <5> QED
          BY <2>2, <3>3, <5>1, <5>2, HeldIs, HeldNext
      <4> QED
        BY <4>1, <4>2, <4>3
    <3> QED
      BY <3>1, <3>2, <3>3, PlaceIs
  <2>10. \A p \in Place : \A l \in Held(p)' : \E q \in Place : to[q] = p /\ l \in Held(q)
    <3> SUFFICES ASSUME NEW p \in Place, NEW l \in Held(p)'
                 PROVE  \E q \in Place : to[q] = p /\ l \in Held(q)
      OBVIOUS
    <3>1. CASE p \in {<<"fs", 0>>, <<"batch", 0>>, <<"fatal", 0>>}
      BY <2>3, <3>1, HeldIs, HeldNext
    <3>2. ASSUME NEW r \in Reasons, p = <<"lost", r>>
          PROVE  \E q \in Place : to[q] = p /\ l \in Held(q)
      <4>1. l \in lost'[r]
        BY <3>2, HeldNext
      <4>2. CASE l \in lost[r]
        BY <2>3, <3>2, <4>2, HeldIs
      <4>3. CASE r = "old" /\ l \in Overwritten
        <5>1. PICK i \in Taken : i + 1 \notin Taken /\ l \in Lines(chain[i])
          BY <4>3 DEF Overwritten
        <5>2. i \in Indices /\ to[<<"file", i>>] = <<"lost", "old">>
          BY <2>1, <2>4, <5>1
        <5> QED
          BY <3>2, <4>3, <5>1, <5>2, PlacesAre, HeldIs
      <4> QED
        BY <2>2, <4>1, <4>2, <4>3
    <3>3. ASSUME NEW i \in Indices, p = <<"file", i>>
          PROVE  \E q \in Place : to[q] = p /\ l \in Held(q)
      <4>1. l \in Lines(chain'[i])
        BY <3>3, HeldNext
      <4>2. CASE i = 0
        BY <2>6, <4>1, <4>2, NoLines
      <4>3. CASE i # 0 /\ Moves(i)
        <5>1. i - 1 \in Indices /\ (i - 1) + 1 = i /\ chain'[i] = chain[i - 1]
          BY <1>2, <2>1, <4>3, RenamedIs
        <5>2. Moves(i - 1)
          BY <2>1, <4>3, <5>1 DEF Moves
        <5>3. i \in Taken
          BY <4>3 DEF Taken
        <5>4. to[<<"file", i - 1>>] = <<"file", i>>
          BY <2>4, <5>1, <5>2, <5>3
        <5> QED
          BY <3>3, <4>1, <5>1, <5>4, PlacesAre, HeldIs
      <4>4. CASE ~Moves(i)
        <5>1. to[<<"file", i>>] = <<"file", i>> /\ chain'[i] = chain[i]
          BY <2>4, <2>8, <4>4
        <5> QED
          BY <3>3, <4>1, <5>1, PlacesAre, HeldIs
      <4> QED
        BY <4>2, <4>3, <4>4
    <3> QED
      BY <3>1, <3>2, <3>3, PlaceIs
  <2> QED
    BY <2>5, <2>9, <2>10, AccountedMoves
<1> QED
  BY <1>1, <1>2 DEF OpenLog

\* write(): the lines leave the buffer they are in.
LEMMA AccountedWrite ==
  ASSUME TypeOK, EveryLineAccounted, pushed' = pushed,
         NEW a \in {<<"fs", 0>>, <<"batch", 0>>}, NEW s \in Seq(Nat), Held(a) = Lines(s),
         WrittenAs(s), Held(a)' = {},
         \A p \in {<<"fs", 0>>, <<"batch", 0>>} \ {a} : Held(p)' = Held(p)
  PROVE  EveryLineAccounted'
<1>1. PICK b \in Place \ {<<"fs", 0>>, <<"batch", 0>>} :
            /\ Held(b)' = Held(b) \union Lines(s)
            /\ \A p \in Place \ {b, <<"fs", 0>>, <<"batch", 0>>} : Held(p)' = Held(p)
  BY WriteMoves
<1>2. a \in Place /\ a # b /\ Held(b)' = Held(b) \union Held(a)
  BY <1>1, PlacesAre
<1>3. \A p \in Place \ {a, b} : Held(p)' = Held(p)
  BY <1>1
<1> QED
  BY <1>2, <1>3, AccountedMove

\* LevelLogger::push: a new line comes in, and a full buffer loses some.
LEMMA AccountedPush ==
  ASSUME TypeOK, EveryLineAccounted, NEW room \in Seq(Nat), Lines(room) \subseteq Lines(fs),
         pushed' = pushed + 1, fs' = Append(room, pushed + 1),
         Lose("full", Lines(fs) \ Lines(room)), UNCHANGED <<batch, fatal, chain>>
  PROVE  EveryLineAccounted'
<1>1. pushed \in Nat /\ 1..pushed' = (1..pushed) \union {pushed + 1} /\ pushed + 1 \notin 1..pushed
  BY DEF TypeOK
<1>2. Lines(fs') = Lines(room) \union {pushed + 1}
  <2>1. pushed + 1 \in Nat \ {0}
    BY <1>1
  <2>2. Lines(Append(room, pushed + 1)) = Lines(room) \union {pushed + 1}
    BY <2>1, AppendLines, Zenon
  <2>3. Lines(fs') = Lines(Append(room, pushed + 1))
    BY Zenon
  <2> QED
    BY <2>2, <2>3, Zenon
<1>3. "full" \in Reasons /\ Lines(fs) \ Lines(room) \in SUBSET Nat
  BY LinesType DEF Reasons
<1>4. lost'["full"] = lost["full"] \union (Lines(fs) \ Lines(room))
      /\ \A r \in Reasons \ {"full"} : lost'[r] = lost[r]
  BY <1>3, LoseType
<1> DEFINE a == <<"fs", 0>>
           b == <<"lost", "full">>
<1>5. a \in Place /\ b \in Place /\ a # b
  BY <1>3, PlacesAre
<1>6. Held(a)' = Lines(room) \union {pushed + 1} /\ Held(b)' = Held(b) \union (Held(a) \ Lines(room))
  BY <1>2, <1>4, HeldIs, HeldNext
<1>7. \A p \in Place \ {a, b} : Held(p)' = Held(p)
  <2> SUFFICES ASSUME NEW p \in Place \ {a, b} PROVE Held(p)' = Held(p)
    OBVIOUS
  <2>1. CASE p \in {<<"batch", 0>>, <<"fatal", 0>>}
    BY <2>1, HeldIs, HeldNext
  <2>2. ASSUME NEW i \in Indices, p = <<"file", i>> PROVE Held(p)' = Held(p)
    BY <2>2, HeldIs, HeldNext
  <2>3. ASSUME NEW r \in Reasons, p = <<"lost", r>> PROVE Held(p)' = Held(p)
    <3>1. r # "full" /\ lost'[r] = lost[r]
      BY <1>4, <2>3
    <3> QED
      BY <2>3, <3>1, HeldIs, HeldNext
  <2> QED
    BY <2>1, <2>2, <2>3, PlaceIs
<1>8. /\ \A l \in 1..pushed : \E p \in Place : l \in Held(p)
      /\ \A p \in Place : Held(p) \subseteq 1..pushed
      /\ \A p, q \in Place : p # q => Held(p) \intersect Held(q) = {}
  BY DEF EveryLineAccounted
<1>9. Lines(room) \subseteq Held(a)
  BY HeldIs
<1> HIDE DEF a, b
<1>10. \A l \in 1..pushed' : \E p \in Place : l \in Held(p)'
  <2> SUFFICES ASSUME NEW l \in 1..pushed' PROVE \E p \in Place : l \in Held(p)'
    OBVIOUS
  <2>1. CASE l = pushed + 1
    BY <1>5, <1>6, <2>1
  <2>2. CASE l \in 1..pushed
    <3>1. PICK p \in Place : l \in Held(p)
      BY <1>8, <2>2
    <3>2. CASE p = a
      BY <1>5, <1>6, <3>1, <3>2
    <3>3. CASE p = b
      BY <1>6, <3>1, <3>3
    <3>4. CASE p \notin {a, b}
      BY <1>7, <3>1, <3>4
    <3> QED
      BY <3>2, <3>3, <3>4
  <2> QED
    BY <1>1, <2>1, <2>2
<1>11. \A p \in Place : Held(p)' \subseteq Held(p) \union Held(a) \union {pushed + 1}
  BY <1>6, <1>7, <1>9
<1>12. \A p \in Place : Held(p)' \subseteq 1..pushed'
  BY <1>1, <1>5, <1>8, <1>11
<1>13. ASSUME NEW p \in Place, NEW q \in Place, p # q, NEW l, l \in Held(p)', l \in Held(q)'
       PROVE  FALSE
  <2>1. Held(p) \intersect Held(q) = {} /\ \A x \in Place : x # a => Held(x) \intersect Held(a) = {}
    BY <1>5, <1>8, <1>13
  <2>2. \A x \in Place : pushed + 1 \notin Held(x)
    BY <1>1, <1>8
  <2>3. CASE p = a
    <3>1. l \in Lines(room) \union {pushed + 1}
      BY <1>6, <1>13, <2>3
    <3>2. CASE q = b
      BY <1>5, <1>6, <1>9, <1>13, <2>1, <2>2, <3>1, <3>2
    <3>3. CASE q # b
      BY <1>7, <1>9, <1>13, <2>1, <2>2, <2>3, <3>1, <3>3
    <3> QED
      BY <3>2, <3>3
  <2>4. CASE q = a
    <3>1. l \in Lines(room) \union {pushed + 1}
      BY <1>6, <1>13, <2>4
    <3>2. CASE p = b
      BY <1>5, <1>6, <1>9, <1>13, <2>1, <2>2, <3>1, <3>2
    <3>3. CASE p # b
      BY <1>7, <1>9, <1>13, <2>1, <2>2, <2>4, <3>1, <3>3
    <3> QED
      BY <3>2, <3>3
  <2>5. CASE p # a /\ q # a
    BY <1>6, <1>7, <1>13, <2>1, <2>5
  <2> QED
    BY <2>3, <2>4, <2>5
<1> QED
  BY <1>10, <1>12, <1>13 DEF EveryLineAccounted

LEMMA AccountedInit == Init => EveryLineAccounted
<1> SUFFICES ASSUME Init PROVE EveryLineAccounted
  OBVIOUS
<1>1. ASSUME NEW p \in Place PROVE Held(p) = {}
  <2>1. CASE p \in {<<"fs", 0>>, <<"batch", 0>>, <<"fatal", 0>>}
    BY <2>1, HeldIs, NoLines DEF Init
  <2>2. ASSUME NEW i \in Indices, p = <<"file", i>> PROVE Held(p) = {}
    BY <2>2, HeldIs, NoLines DEF Init
  <2>3. ASSUME NEW r \in Reasons, p = <<"lost", r>> PROVE Held(p) = {}
    BY <2>3, HeldIs DEF Init
  <2> QED
    BY <2>1, <2>2, <2>3, PlaceIs
<1>2. 1..pushed = {}
  BY DEF Init
<1> QED
  BY <1>1, <1>2 DEF EveryLineAccounted

LEMMA AccountedStep ==
  TypeOK /\ Swapped /\ EveryLineAccounted /\ [Next]_vars => EveryLineAccounted'
<1> SUFFICES ASSUME TypeOK, Swapped, EveryLineAccounted, [Next]_vars PROVE EveryLineAccounted'
  OBVIOUS
<1> USE DEF buffers, disk, closing, outside
<1>1. ASSUME UNCHANGED <<pushed, fs, batch, fatal, chain, lost>> PROVE EveryLineAccounted'
  BY <1>1 DEF EveryLineAccounted, Held
<1>2. ASSUME NEW t \in Threads, Push(t) PROVE EveryLineAccounted'
  <2>1. PICK room : /\ room \in {fs, DropHalf(fs)}
                    /\ fs' = Append(room, pushed + 1) /\ pushed' = pushed + 1
                    /\ Lose("full", Lines(fs) \ Lines(room))
    BY <1>2 DEF Push
  <2>2. room \in Seq(Nat) /\ Lines(room) \subseteq Lines(fs)
    BY <2>1, DropLines DEF TypeOK
  <2>3. UNCHANGED <<batch, fatal, chain>>
    BY <1>2 DEF Push
  <2> QED
    BY <2>1, <2>2, <2>3, AccountedPush
<1>3. CASE Swap
  <2>1. batch = <<>> /\ batch' = fs /\ fs' = <<>> /\ UNCHANGED <<pushed, fatal, chain, lost>>
    BY <1>3 DEF Swap, Swapped, Idle
  <2>2. <<"fs", 0>> \in Place /\ <<"batch", 0>> \in Place /\ <<"fs", 0>> # <<"batch", 0>>
    BY PlacesAre
  <2>3. Held(<<"fs", 0>>)' = {} /\ Held(<<"batch", 0>>)' = Held(<<"batch", 0>>) \union Held(<<"fs", 0>>)
    BY <2>1, HeldIs, HeldNext, NoLines
  <2>4. \A p \in Place \ {<<"fs", 0>>, <<"batch", 0>>} : Held(p)' = Held(p)
    <3> SUFFICES ASSUME NEW p \in Place \ {<<"fs", 0>>, <<"batch", 0>>} PROVE Held(p)' = Held(p)
      OBVIOUS
    <3>1. CASE p = <<"fatal", 0>>
      BY <2>1, <3>1, HeldIs, HeldNext
    <3>2. ASSUME NEW i \in Indices, p = <<"file", i>> PROVE Held(p)' = Held(p)
      BY <2>1, <3>2, HeldIs, HeldNext
    <3>3. ASSUME NEW r \in Reasons, p = <<"lost", r>> PROVE Held(p)' = Held(p)
      BY <2>1, <3>3, HeldIs, HeldNext
    <3> QED
      BY <3>1, <3>2, <3>3, PlaceIs
  <2> QED
    BY <2>1, <2>2, <2>3, <2>4, AccountedMove
<1>4. ASSUME NEW t, NEW at, NEW to, WriteOpen(t, at, to) PROVE EveryLineAccounted'
  <2>1. UNCHANGED <<pushed, fs, batch, fatal>>
    BY <1>4 DEF WriteOpen
  <2>2. OpenLog \/ UNCHANGED <<chain, lost>>
    BY <1>4 DEF WriteOpen
  <2> QED
    BY <1>1, <2>1, <2>2, AccountedOpen
<1>5. CASE LoggerAppend
  <2>1. WriteLines(batch) /\ batch' = <<>> /\ UNCHANGED <<pushed, fs>> /\ batch \in Seq(Nat)
    BY <1>5 DEF LoggerAppend, Cleared, TypeOK
  <2>2. WrittenAs(batch)
    BY <2>1, WriteIs
  <2>3. /\ Held(<<"batch", 0>>) = Lines(batch) /\ Held(<<"batch", 0>>)' = {}
        /\ Held(<<"fs", 0>>)' = Held(<<"fs", 0>>)
    BY <2>1, HeldIs, HeldNext, NoLines
  <2>4. \A p \in {<<"fs", 0>>, <<"batch", 0>>} \ {<<"batch", 0>>} : Held(p)' = Held(p)
    BY <2>3
  <2> QED
    BY <2>1, <2>2, <2>3, <2>4, AccountedWrite
<1>6. ASSUME NEW t \in Threads, DrainAppend(t) PROVE EveryLineAccounted'
  <2>1. WriteLines(fs) /\ fs' = <<>> /\ UNCHANGED <<pushed, batch>> /\ fs \in Seq(Nat)
    BY <1>6 DEF DrainAppend, Cleared, TypeOK
  <2>2. WrittenAs(fs)
    BY <2>1, WriteIs
  <2>3. /\ Held(<<"fs", 0>>) = Lines(fs) /\ Held(<<"fs", 0>>)' = {}
        /\ Held(<<"batch", 0>>)' = Held(<<"batch", 0>>)
    BY <2>1, HeldIs, HeldNext, NoLines
  <2>4. \A p \in {<<"fs", 0>>, <<"batch", 0>>} \ {<<"fs", 0>>} : Held(p)' = Held(p)
    BY <2>3
  <2> QED
    BY <2>1, <2>2, <2>3, <2>4, AccountedWrite
<1>7. ASSUME NEW i \in Indices, Delete(i) PROVE EveryLineAccounted'
  <2>1. /\ chain' = [chain EXCEPT ![i] = <<>>] /\ Lose("deleted", Lines(chain[i]))
        /\ UNCHANGED <<pushed, fs, batch, fatal>>
    BY <1>7 DEF Delete
  <2>2. "deleted" \in Reasons /\ Lines(chain[i]) \in SUBSET Nat
    BY LinesType DEF Reasons
  <2>3. lost'["deleted"] = lost["deleted"] \union Lines(chain[i])
        /\ \A r \in Reasons \ {"deleted"} : lost'[r] = lost[r]
    BY <2>1, <2>2, LoseType
  <2>4. chain'[i] = <<>> /\ \A j \in Indices \ {i} : chain'[j] = chain[j]
    BY <2>1 DEF TypeOK
  <2> DEFINE a == <<"file", i>>
             b == <<"lost", "deleted">>
  <2>5. a \in Place /\ b \in Place /\ a # b
    BY <2>2, PlacesAre
  <2>6. Held(a)' = {} /\ Held(b)' = Held(b) \union Held(a)
    BY <2>3, <2>4, HeldIs, HeldNext, NoLines
  <2>7. \A p \in Place \ {a, b} : Held(p)' = Held(p)
    <3> SUFFICES ASSUME NEW p \in Place \ {a, b} PROVE Held(p)' = Held(p)
      OBVIOUS
    <3>1. CASE p \in {<<"fs", 0>>, <<"batch", 0>>, <<"fatal", 0>>}
      BY <2>1, <3>1, HeldIs, HeldNext
    <3>2. ASSUME NEW j \in Indices, p = <<"file", j>> PROVE Held(p)' = Held(p)
      <4>1. j # i /\ chain'[j] = chain[j]
        BY <2>4, <3>2
      <4> QED
        BY <3>2, <4>1, HeldIs, HeldNext
    <3>3. ASSUME NEW r \in Reasons, p = <<"lost", r>> PROVE Held(p)' = Held(p)
      <4>1. r # "deleted" /\ lost'[r] = lost[r]
        BY <2>3, <3>3
      <4> QED
        BY <3>3, <4>1, HeldIs, HeldNext
    <3> QED
      BY <3>1, <3>2, <3>3, PlaceIs
  <2> HIDE DEF a, b
  <2> QED
    BY <2>1, <2>5, <2>6, <2>7, AccountedMove
<1>8. ASSUME \/ Wake \/ SwapBegin \/ UNCHANGED vars
             \/ \E t \in Threads : \/ Call(t) \/ Join(t) \/ DrainBegin(t) \/ Unlock(t)
                                   \/ Return(t) \/ FatalOpen(t) \/ Abort(t) \/ OnSignal(t)
      PROVE  UNCHANGED <<pushed, fs, batch, fatal, chain, lost>>
  BY <1>8 DEF Wake, SwapBegin, vars, Call, PushBegin, CallClose, Join, DrainBegin, Unlock,
     Return, FatalOpen, Abort, OnSignal
<1> QED
  BY <1>1, <1>2, <1>3, <1>4, <1>5, <1>6, <1>7, <1>8
     DEF Next, LoggerStep, Finish, Outside, LoggerOpen, DrainOpen

-----------------------------------------------------------------------------
LEMMA IInvInit == Init => IInv
BY TypeInit, PlacedInit, WrittenInit, OrderedInit, AccountedInit DEF IInv

LEMMA IInvStep == IInv /\ [Next]_vars => IInv'
BY TypeStep, PlacedStep, SwappedStep, WrittenStep, OrderedStep, AccountedStep DEF IInv

(* The files hold the lines in order and none twice, every line pushed is  *)
(* in exactly one place or lost for a reason the code has, and what was    *)
(* pushed before close() was called is written when it returns: however    *)
(* many threads push, close, fail fatally or are hit by a signal while     *)
(* thread_fun swaps and writes, whatever files are rotated or deleted.     *)
THEOREM LogIsRightHolds == Spec => []LogIsRight
<1>1. IInv => LogIsRight
  <2> SUFFICES ASSUME IInv PROVE LogIsRight
    OBVIOUS
  <2>1. CloseWrites
    BY DEF IInv, TypeOK, Written, CloseWrites
  <2> QED
    BY <2>1 DEF IInv, Ordered, LogIsRight
<1> QED
  BY <1>1, IInvInit, IInvStep, PTL DEF Spec
=============================================================================
