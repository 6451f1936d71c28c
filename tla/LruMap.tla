------------------------------- MODULE LruMap -------------------------------
(* base/lru_map.h, and fast::dtoa, which keeps the texts of numbers in one. *)
(* A node of the list has an identity, and the iterators that are kept for  *)
(* a key name the node.                                                     *)
EXTENDS Naturals, SequencesExt, FiniteSetsExt

CONSTANTS Maps, Keys, Vals, Capacity,
          Text       \* what snprintf makes of a key, when it is a number

VARIABLES kv,        \* per map: _kv, the values
          ki,        \* _ki, the iterators
          kl,        \* _kl, the list of keys: nodes
          cap,       \* _capacity
          got        \* what dtoa gave last, of which key
lruVars == <<kv, ki, kl, cap, got>>

None == [k \in {} |-> 0]
Node(m, id) == SelectInSeq(kl[m], LAMBDA n : n.id = id)
FreshNode(m) == CHOOSE id \in 1..(Len(kl[m]) + 1) : Node(m, id) = 0
Cut(f, k) == [x \in DOMAIN f \ {k} |-> f[x]]
With(f, k, v) == [x \in DOMAIN f \cup {k} |-> IF x = k THEN v ELSE f[x]]
Nothing == [k |-> 0, s |-> 0]

LruInit ==
    /\ kv = [m \in Maps |-> None] /\ ki = [m \in Maps |-> None] /\ kl = [m \in Maps |-> <<>>]
    /\ cap = Capacity /\ got = Nothing

\* splice: the node that ki names goes to the front, and stays what it is.
\* A mutant: it goes to the back.
SplicedBack(m, k) ==
    IF k \in DOMAIN kv[m] /\ Head(kl[m]).k # k
    THEN LET i == Node(m, ki[m][k]) IN [kl EXCEPT ![m] = Append(RemoveAt(@, i), @[i])]
    ELSE kl
Spliced(m, k) ==
    IF k \in DOMAIN kv[m] /\ Head(kl[m]).k # k
    THEN LET i == Node(m, ki[m][k]) IN [kl EXCEPT ![m] = <<@[i]>> \o RemoveAt(@, i)]
    ELSE kl
Find(m, k) == kl' = Spliced(m, k) /\ UNCHANGED <<kv, ki>>

Insert(m, k, v) ==
    LET id == FreshNode(m)
        list == <<[id |-> id, k |-> k]>> \o kl[m]
        more == With(kv[m], k, v)
        iters == With(ki[m], k, id)
        last == Last(list).k
        over == Cardinality(DOMAIN more) > cap[m]
    IN IF k \in DOMAIN kv[m] THEN UNCHANGED <<kv, ki, kl>>
       ELSE /\ kv' = [kv EXCEPT ![m] = IF over THEN Cut(more, last) ELSE more]
            /\ ki' = [ki EXCEPT ![m] = IF over THEN Cut(iters, last) ELSE iters]
            /\ kl' = [kl EXCEPT ![m] = IF over THEN Front(list) ELSE list]

Erase(m, k) ==
    IF k \notin DOMAIN kv[m] THEN UNCHANGED <<kv, ki, kl>>
    ELSE /\ kl' = [kl EXCEPT ![m] = RemoveAt(@, Node(m, ki[m][k]))]
         /\ ki' = [ki EXCEPT ![m] = Cut(@, k)]
         /\ kv' = [kv EXCEPT ![m] = Cut(@, k)]
Clear(m) ==
    /\ kv' = [kv EXCEPT ![m] = None] /\ ki' = [ki EXCEPT ![m] = None]
    /\ kl' = [kl EXCEPT ![m] = <<>>]
Swap(m, n) ==
    LET Exchanged(f) == [f EXCEPT ![m] = f[n], ![n] = f[m]]
    IN /\ kv' = Exchanged(kv) /\ ki' = Exchanged(ki) /\ kl' = Exchanged(kl)
       /\ cap' = Exchanged(cap)

\* The cache of dtoa: the text that is there, or the one just made.
dtoa(m, k) ==
    LET hit == k \in DOMAIN kv[m]
    IN /\ IF hit THEN Find(m, k) ELSE Insert(m, k, Text[k])
       /\ got' = [k |-> k, s |-> IF hit THEN kv[m][k] ELSE Text[k]]

\* dtoa keeps its caches to itself.
LruNext ==
    \/ /\ got = Nothing
       /\ \E m \in Maps :
             \/ /\ Clear(m) \/ \E k \in Keys : Find(m, k) \/ Erase(m, k) \/ \E v \in Vals : Insert(m, k, v)
                /\ UNCHANGED <<cap, got>>
             \/ \E n \in Maps : Swap(m, n) /\ UNCHANGED got
    \/ /\ got # Nothing \/ \A m \in Maps : kv[m] = None
       /\ \E m \in Maps, k \in Keys : dtoa(m, k) /\ UNCHANGED cap

\* A key of the list that has no value shows as Nothing.
Shown ==
    [m \in Maps |-> [i \in DOMAIN kl[m] |->
        LET k == kl[m][i].k IN [k |-> k, v |-> IF k \in DOMAIN kv[m] THEN kv[m][k] ELSE Nothing.s]]]
R == INSTANCE Recency WITH entries <- Shown, room <- cap, Vals <- Vals \cup {Text[k] : k \in Keys}
=============================================================================
