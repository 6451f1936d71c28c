------------------------------ MODULE Recency ------------------------------
(* What an LruMap promises: the capacity's worth of entries that were used  *)
(* last, the one used last in front.  An insertion of a key that is there   *)
(* changes nothing, not even the order.                                     *)
EXTENDS Naturals, SequencesExt

CONSTANTS Maps, Keys, Vals, Capacity
VARIABLES entries, room      \* per map: the entries, and how many it may have

Has(m, k) == \E i \in DOMAIN entries[m] : entries[m][i].k = k
Of(m, k) == SelectInSeq(entries[m], LAMBDA e : e.k = k)
Without(m, k) == SelectSeq(entries[m], LAMBDA e : e.k # k)
First(s, n) == SubSeq(s, 1, IF Len(s) < n THEN Len(s) ELSE n)

RecencyInit == entries = [m \in Maps |-> <<>>] /\ room = Capacity
Use(m, k) == Has(m, k) /\ entries' = [entries EXCEPT ![m] = <<@[Of(m, k)]>> \o Without(m, k)]
Insert(m, k, v) ==
    ~Has(m, k) /\ entries' = [entries EXCEPT ![m] = First(<<[k |-> k, v |-> v]>> \o @, room[m])]
Erase(m, k) == entries' = [entries EXCEPT ![m] = Without(m, k)]
Clear(m) == entries' = [entries EXCEPT ![m] = <<>>]
Swap(m, n) ==
    /\ entries' = [entries EXCEPT ![m] = entries[n], ![n] = entries[m]]
    /\ room' = [room EXCEPT ![m] = room[n], ![n] = room[m]]
RecencyNext ==
    \E m, n \in Maps, k \in Keys, v \in Vals :
       \/ (Use(m, k) \/ Insert(m, k, v) \/ Erase(m, k) \/ Clear(m)) /\ UNCHANGED room
       \/ Swap(m, n)
RecencySpec == RecencyInit /\ [][RecencyNext]_<<entries, room>>
=============================================================================
