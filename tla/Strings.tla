------------------------------- MODULE Strings -------------------------------
(* The memory of a fastring (base/fastring.h and .cc): a copy shares the    *)
(* block, whose references are counted with atomic_inc and atomic_dec; what *)
(* has to grow leaves a block that is shared, in three steps that another   *)
(* thread may come between.  A block that is freed is no longer in heap.    *)
EXTENDS Naturals, FiniteSetsExt

CONSTANTS Strs,        \* the strings
          Owner,       \* the thread each belongs to
          Header,      \* what append(char) asks for at first, 16 in the code
          MaxChars,     \* bound: characters
          MaxBlocks    \* bound: blocks at a time

VARIABLES heap,        \* block -> its capacity, size and count
          str,         \* string -> its block
          busy,        \* string -> the growth it is in
          raced,       \* a thread came between the steps of another, on its block
          fault        \* a string was copied from freed memory
strVars == <<heap, str, busy, raced, fault>>

NoBlock == 0
Live == DOMAIN heap
Lengths == 0..MaxChars
Still == [step |-> "none", from |-> NoBlock, cap |-> 0, size |-> 0]
Size(s) == IF str[s] = NoBlock THEN 0 ELSE heap[str[s]].size
Fresh(h) == Min((1..MaxBlocks) \ DOMAIN h)
OneFree == Cardinality(Live) < MaxBlocks
Alloc(h, c, n) ==
    [b \in DOMAIN h \cup {Fresh(h)} |-> IF b \in DOMAIN h THEN h[b] ELSE [cap |-> c, size |-> n, refn |-> 1]]
Freed(h, b) == [x \in DOMAIN h \ {b} |-> h[x]]
\* A mutant: the count is looked at before it is taken down.
ReleasedLate(h, b) ==
    IF b = NoBlock THEN h
    ELSE IF h[b].refn = 0 THEN Freed(h, b) ELSE [h EXCEPT ![b].refn = @ - 1]
\* if (_p && atomic_dec(&_p->refn) == 0) free(_p)
Released(h, b) ==
    IF b = NoBlock THEN h
    ELSE IF h[b].refn = 1 THEN Freed(h, b) ELSE [h EXCEPT ![b].refn = @ - 1]
Taken(h, b) == IF b = NoBlock THEN h ELSE [h EXCEPT ![b].refn = @ + 1]

\* A thread is in one operation at a time.
Idle(s) == \A x \in Strs : Owner[x] = Owner[s] => busy[x] = Still
\* What another thread is leaving is touched by s.
Touched(s, blocks) ==
    raced' = (raced \/ \E x \in Strs : Owner[x] # Owner[s] /\ busy[x].from \in blocks \ {NoBlock})

StrInit ==
    /\ heap = <<>> /\ str = [s \in Strs |-> NoBlock] /\ busy = [s \in Strs |-> Still]
    /\ raced = FALSE /\ fault = FALSE

-----------------------------------------------------------------------------
(* One step operations.  Strings of two threads meet in a copy only while   *)
(* both threads are at rest.                                                *)
Make(s, n) ==
    /\ Idle(s) /\ OneFree /\ Touched(s, {str[s]})
    /\ LET h == Released(heap, str[s]) IN
       IF n = 0 THEN heap' = h /\ str' = [str EXCEPT ![s] = NoBlock]
       ELSE heap' = Alloc(h, n + 1, n) /\ str' = [str EXCEPT ![s] = Fresh(h)]
    /\ UNCHANGED <<busy, fault>>
Copy(s, t) ==
    /\ s # t /\ Idle(s) /\ Idle(t) /\ Touched(s, {str[s], str[t]})
    /\ heap' = Taken(Released(heap, str[s]), str[t]) /\ str' = [str EXCEPT ![s] = str[t]]
    /\ UNCHANGED <<busy, fault>>
\* A string that is moved to itself is empty.
Move(s, t) ==
    /\ Idle(s) /\ Idle(t) /\ Touched(s, {str[s]})
    /\ heap' = Released(heap, str[s])
    /\ str' = IF s = t THEN [str EXCEPT ![s] = NoBlock]
              ELSE [str EXCEPT ![s] = str[t], ![t] = NoBlock]
    /\ UNCHANGED <<busy, fault>>
Swap(s, t) ==
    /\ Owner[s] = Owner[t] /\ Idle(s)
    /\ str' = [str EXCEPT ![s] = str[t], ![t] = str[s]] /\ UNCHANGED <<heap, busy, raced, fault>>

\* _Init when there is no block, in place when there is room, realloc when
\* nobody else refers to the block.
Reach(s, first, c, n) ==
    LET b == str[s] IN
    /\ Idle(s) /\ n <= MaxChars
    /\ CASE b = NoBlock ->
              /\ OneFree /\ heap' = Alloc(heap, first, n) /\ str' = [str EXCEPT ![s] = Fresh(heap)]
              /\ UNCHANGED <<busy, raced>>
         [] b # NoBlock /\ (heap[b].cap >= c \/ heap[b].refn = 1) ->
              /\ heap' = [heap EXCEPT ![b].size = n, ![b].cap = IF @ >= c THEN @ ELSE c]
              /\ Touched(s, {b}) /\ UNCHANGED <<str, busy>>
         [] OTHER ->
              /\ busy' = [busy EXCEPT ![s] = [step |-> "drop", from |-> b, cap |-> c, size |-> n]]
              /\ Touched(s, {b}) /\ UNCHANGED <<heap, str>>
    /\ UNCHANGED fault
\* atomic_dec(&_p->refn), whatever it gives
Drop(s) ==
    LET b == busy[s].from IN
    /\ busy[s].step = "drop"
    /\ heap' = IF b \in Live /\ heap[b].refn > 0 THEN [heap EXCEPT ![b].refn = @ - 1] ELSE heap
    /\ busy' = [busy EXCEPT ![s].step = "copy"] /\ str' = [str EXCEPT ![s] = NoBlock]
    /\ Touched(s, {b}) /\ UNCHANGED fault
CopyOut(s) ==
    /\ busy[s].step = "copy" /\ OneFree
    /\ heap' = Alloc(heap, busy[s].cap, busy[s].size)
    /\ str' = [str EXCEPT ![s] = Fresh(heap)] /\ busy' = [busy EXCEPT ![s] = Still]
    /\ fault' = (fault \/ busy[s].from \notin Live)
    /\ UNCHANGED raced

-----------------------------------------------------------------------------
(* What the operations ask for.  A max of the two sides reads as Reserve.   *)
Capacity(s) == IF str[s] = NoBlock THEN 0 ELSE heap[str[s]].cap
Ensured(s, n) ==
    IF Capacity(s) < Size(s) + n THEN (Capacity(s) * 3) \div 2 + n ELSE Capacity(s)

append(s, n) == Reach(s, n + 1, Ensured(s, n), Size(s) + n)
append_char(s) == Reach(s, Header, Ensured(s, 1), Size(s) + 1)
append_of(s, t) == s # t /\ Idle(t) /\ append(s, Size(t))
append_self(s) == str[s] # NoBlock /\ Reach(s, 0, 2 * Size(s), 2 * Size(s))
resize(s, n) == Reach(s, n, n, n)
c_str(s) == str[s] # NoBlock /\ Reach(s, 0, Size(s) + 1, Size(s))
\* clear, strip, and the assignment of "": in place, also when it is shared
Shrink(s, n) == str[s] # NoBlock /\ n <= Size(s) /\ Reach(s, 0, 0, n)
\* s = "..."
Set(s, n) == n > 0 /\ Reach(s, n + 1, n + 1, n)
Destroy(s) ==
    /\ Idle(s) /\ Touched(s, {str[s]})
    /\ heap' = Released(heap, str[s]) /\ str' = [str EXCEPT ![s] = NoBlock]
    /\ UNCHANGED <<busy, fault>>

Leaked == {b \in Live : heap[b].refn = 0 /\ \A s \in Strs : busy[s].from # b}

\* Behaviours end with the first leak or fault.
StrNext ==
    /\ ~fault /\ Leaked = {}
    /\ \E s \in Strs :
       \/ \E n \in Lengths :
             Make(s, n) \/ append(s, n) \/ resize(s, n) \/ Shrink(s, n) \/ Set(s, n)
       \/ append_char(s) \/ append_self(s) \/ c_str(s) \/ Destroy(s) \/ Drop(s) \/ CopyOut(s)
       \/ \E t \in Strs : Copy(s, t) \/ Move(s, t) \/ Swap(s, t) \/ append_of(s, t)

-----------------------------------------------------------------------------
(* A block counts the strings that refer to it, holds what they say, and is *)
(* there as long as they are; it is lost, or copied after it was freed,     *)
(* only when one thread works on it while another is leaving it             *)
(* (fastring.cc, fastring::_Reserve, which looks at refn, takes itself off  *)
(* it and then copies).                                                     *)
StringsAreRight ==
    /\ \A s \in Strs : str[s] \in Live \cup {NoBlock}
    /\ \A b \in Live :
          /\ heap[b].refn = Cardinality({s \in Strs : str[s] = b})
          /\ heap[b].size <= heap[b].cap
    /\ Leaked # {} \/ fault => raced
=============================================================================
