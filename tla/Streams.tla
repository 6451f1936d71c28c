------------------------------- MODULE Streams -------------------------------
(* base/fastream.h: a stream owns a buffer that grows; a magicstream hands   *)
(* its buffer over to a string, without a copy.  An access to memory that is *)
(* not allocated is a fault; a behaviour ends there, and at the first misuse.     *)
EXTENDS Naturals, FiniteSets, FiniteSetsExt

CONSTANTS Streams, Texts,
          Room,        \* the bytes before the text of a string, 16 in the code
          MaxBytes,    \* bound: the size of a stream
          MaxBuffers   \* bound: buffers allocated at a time

VARIABLES buf,         \* the buffers that are allocated
          stm,         \* stream -> what it is, its buffer, capacity and size
          held,        \* string -> the buffer a magicstream gave it
          gone,        \* the streams that gave their buffer away
          lost,        \* the buffers of magicstreams that nobody asked for
          fault,
          cause        \* what the program did that it must not do
streamVars == <<buf, stm, held, gone, lost, fault, cause>>

Null == 0
NoStream == [kind |-> "none", p |-> Null, cap |-> 0, size |-> 0]
Fresh == Min((1..MaxBuffers) \ buf)
Space == Cardinality(buf) < MaxBuffers

StreamInit ==
    /\ buf = {} /\ stm = [s \in Streams |-> NoStream] /\ held = [x \in Texts |-> Null]
    /\ gone = {} /\ lost = {} /\ fault = FALSE /\ cause = "none"

Using(s) == cause' = IF s \in gone THEN "used after its buffer went" ELSE "none"

Make(s, kind, c) ==
    /\ stm[s].kind = "none" /\ Space
    /\ LET before == IF kind = "magic" THEN Room ELSE 0
           p == IF c + before = 0 THEN Null ELSE Fresh
       IN /\ stm' = [stm EXCEPT ![s] = [kind |-> kind, p |-> p, cap |-> c + before,
                                        size |-> before]]
          /\ buf' = buf \cup ({p} \ {Null})
    /\ gone' = gone \ {s} /\ UNCHANGED <<held, lost, fault, cause>>

(* realloc moves the buffer or makes it longer where it is.                 *)
reserve(x, c) ==
    IF x.cap >= c THEN {[x |-> x, buf |-> buf, bad |-> FALSE]}
    ELSE LET bad == x.p \notin buf \cup {Null}
             At(p) == [x |-> [x EXCEPT !.cap = c, !.p = p],
                       buf |-> (buf \ {x.p}) \cup {p}, bad |-> bad]
         IN (IF x.p = Null THEN {} ELSE {At(x.p)}) \cup (IF Space THEN {At(Fresh)} ELSE {})

\* A mutant: the bytes to come are not counted.
EnsureHalfMore(x, n) == reserve(x, IF x.cap < x.size + n THEN (x.cap * 3) \div 2 ELSE 0)
Ensure(x, n) == reserve(x, IF x.cap < x.size + n THEN (x.cap * 3) \div 2 + n ELSE 0)

(* s becomes what r says, of size n, and touches the buffers that are read  *)
(* or written, in the memory as it is then.                                 *)
Becomes(s, r, n, touched) ==
    /\ stm' = [stm EXCEPT ![s] = [r.x EXCEPT !.size = n]] /\ buf' = r.buf
    /\ fault' = (r.bad \/ ~(touched \subseteq r.buf))
    /\ UNCHANGED <<held, gone, lost>>

\* n bytes from elsewhere.
append(s, n) ==
    /\ stm[s].kind # "none" /\ stm[s].size + n <= MaxBytes
    /\ \E r \in Ensure(stm[s], n) : Becomes(s, r, stm[s].size + n, {r.x.p})
    /\ Using(s)
\* The text of the stream t, where it is before the growth.
appendOf(s, t) ==
    LET n == stm[t].size IN
    /\ stm[s].kind # "none" /\ stm[t].kind = "fast" /\ stm[s].size + n <= MaxBytes
    /\ \E r \in Ensure(stm[s], n) :
          /\ Becomes(s, r, stm[s].size + n, IF n = 0 THEN {} ELSE {r.x.p, stm[t].p})
          /\ cause' = IF {s, t} \cap gone # {} THEN "used after its buffer went"
                      ELSE IF s = t /\ n > 0 /\ r.x.p # stm[t].p THEN "appended to itself as it moved"
                      ELSE "none"
resize(s, n) ==
    /\ stm[s].kind # "none"
    /\ \E r \in reserve(stm[s], n) : Becomes(s, r, n, {})
    /\ Using(s)
clear(s) == stm[s].kind # "none" /\ Becomes(s, [x |-> stm[s], buf |-> buf, bad |-> FALSE], 0, {}) /\ Using(s)
\* A byte after the text is made zero.
c_str(s) ==
    /\ stm[s].kind # "none"
    /\ \E r \in reserve(stm[s], stm[s].size + 1) : Becomes(s, r, stm[s].size, {r.x.p})
    /\ Using(s)

Other(s, t, x) == IF x = s THEN t ELSE IF x = t THEN s ELSE x
swap(s, t) ==
    /\ s # t /\ stm[s].kind = "fast" /\ stm[t].kind = "fast"
    /\ stm' = [x \in Streams |-> stm[Other(s, t, x)]]
    /\ gone' = {Other(s, t, x) : x \in gone}
    /\ UNCHANGED <<buf, held, lost, fault, cause>>
\* Of the one that is moved from, only the buffer is reset.
Move(s, t) ==
    /\ stm[s].kind = "none" /\ stm[t].kind = "fast"
    /\ stm' = [stm EXCEPT ![s] = stm[t], ![t].p = Null]
    /\ gone' = {x \in gone : x # s} \cup {t} \cup (IF t \in gone THEN {s} ELSE {})
    /\ UNCHANGED <<buf, held, lost, fault, cause>>
\* magicstream::str: the string takes the buffer, the stream does not know.
str(s, x) ==
    /\ stm[s].kind = "magic" /\ held[x] = Null
    /\ held' = [held EXCEPT ![x] = stm[s].p] /\ fault' = (stm[s].p \notin buf)
    /\ gone' = gone \cup {s} /\ Using(s) /\ UNCHANGED <<buf, stm, lost>>

Free(p) == buf' = buf \ {p} /\ fault' = (p \notin buf \cup {Null})
\* The destructor of a magicstream does nothing.
Destroy(s) ==
    /\ stm[s].kind # "none" /\ stm' = [stm EXCEPT ![s] = NoStream]
    /\ IF stm[s].kind = "fast" THEN Free(stm[s].p) /\ lost' = lost
       ELSE /\ UNCHANGED <<buf, fault>>
            /\ lost' = IF s \in gone THEN lost ELSE lost \cup {stm[s].p}
    /\ UNCHANGED <<held, cause>> /\ gone' = gone \ {s}
Drop(x) ==
    /\ held[x] # Null /\ held' = [held EXCEPT ![x] = Null] /\ Free(held[x])
    /\ UNCHANGED <<stm, gone, lost, cause>>

StreamNext ==
    /\ ~fault /\ cause = "none"
    /\ \/ \E s \in Streams : \/ \E c \in 0..2 : Make(s, "fast", c) \/ Make(s, "magic", c)
                             \/ \E n \in 1..2 : append(s, n) \/ resize(s, n)
                             \/ clear(s) \/ c_str(s) \/ Destroy(s)
                             \/ \E x \in Texts : str(s, x)
                             \/ \E t \in Streams : appendOf(s, t) \/ swap(s, t) \/ Move(s, t)
       \/ \E x \in Texts : Drop(x)

\* A stream does not outgrow its buffer; memory that is not there is used
\* only by the two ways that are known, and once a buffer is nobody's it is
\* one that no string was asked for.
StreamsAreRight ==
    /\ \A s \in Streams : stm[s].size <= stm[s].cap
    /\ fault => cause # "none"
    /\ cause = "none" =>
         buf = (({stm[s].p : s \in Streams \ gone} \cup {held[x] : x \in Texts}) \ {Null}) \cup lost
==============================================================================
