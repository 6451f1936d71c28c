----------------------------- MODULE JsonMemory -----------------------------
(* The memory of base/json.h: values share blocks that count who refers to  *)
(* them; the objects of one parse share the block that holds their keys.    *)
(* A block that is freed is no longer in heap.  Behaviours end with the     *)
(* first operation that leaves the program to undefined behaviour: cause    *)
(* says which.                                                              *)
EXTENDS Naturals, SequencesExt, FiniteSetsExt

CONSTANTS Values,      \* the variables of type Json
          Names,       \* the keys
          FirstCap,    \* the members or elements a new block has room for, 8 in the code; 2 or more
          MaxBlocks,   \* bound: blocks at a time
          MaxSize,     \* bound: members or elements
          MaxDone      \* bound: operations

VARIABLES heap, val, cause, done
jsonVars == <<heap, val, cause, done>>

NoBlock == 0
Garbage == MaxBlocks + 1      \* what a read of freed memory gives
Live == DOMAIN heap
Block(type, keys) == [type |-> type, refn |-> 1, cap |-> FirstCap, els |-> <<>>, keys |-> keys]
Fresh(h) == Min((1..MaxBlocks) \ DOMAIN h)
Alloc(h, block) == [b \in DOMAIN h \cup {Fresh(h)} |-> IF b \in DOMAIN h THEN h[b] ELSE block]
Freed(h, b) == [x \in DOMAIN h \ {b} |-> h[x]]
Up(h, b) == IF b = NoBlock THEN h ELSE [h EXCEPT ![b].refn = @ + 1]
Free(n) == Cardinality(Live) + n <= MaxBlocks

JsonInit == heap = <<>> /\ val = [v \in Values |-> NoBlock] /\ cause = "none" /\ done = 0

-----------------------------------------------------------------------------
(* A block that loses its last reference lets go of its keys and of what it *)
(* holds.                                                                   *)
DropKeys(h, k) ==
    IF k = NoBlock THEN h
    ELSE IF h[k].refn = 1 THEN Freed(h, k) ELSE [h EXCEPT ![k].refn = @ - 1]
\* A mutant: the keys of an object that goes stay as they are.
RECURSIVE ResetKept(_, _)
ResetKept(h, b) ==
    LET each(x, el) == ResetKept(x, el.v)
    IN IF b = NoBlock THEN h
       ELSE IF h[b].refn > 1 THEN [h EXCEPT ![b].refn = @ - 1]
       ELSE Freed(FoldLeft(each, [h EXCEPT ![b].refn = 0], h[b].els), b)
RECURSIVE Reset(_, _)
Reset(h, b) ==
    LET each(x, el) == Reset(x, el.v)
    IN IF b = NoBlock THEN h
       ELSE IF h[b].refn > 1 THEN [h EXCEPT ![b].refn = @ - 1]
       ELSE Freed(FoldLeft(each, DropKeys([h EXCEPT ![b].refn = 0], h[b].keys), h[b].els), b)

\* v = Json(1), json::array() or json::object()
Make(v, type) ==
    /\ Free(1)
    /\ LET h == Reset(heap, val[v]) IN
       /\ heap' = Alloc(h, Block(type, NoBlock)) /\ val' = [val EXCEPT ![v] = Fresh(h)]
    /\ UNCHANGED cause
\* v.set_array() or v.set_object()
Become(v, type) == val[v] # NoBlock /\ heap[val[v]].type # type /\ Make(v, type)
\* v = w
Copy(v, w) ==
    /\ v # w
    /\ heap' = Up(Reset(heap, val[v]), val[w]) /\ val' = [val EXCEPT ![v] = val[w]]
    /\ UNCHANGED cause
\* v = std::move(w); a value that is moved to itself is null
Move(v, w) ==
    /\ heap' = Reset(heap, val[v])
    /\ val' = IF v = w THEN [val EXCEPT ![v] = NoBlock]
              ELSE [val EXCEPT ![v] = val[w], ![w] = NoBlock]
    /\ UNCHANGED cause
Swap(v, w) == val' = [val EXCEPT ![v] = val[w], ![w] = val[v]] /\ UNCHANGED <<heap, cause>>
\* v = w[i]: what v had goes first, also when w[i] was part of it
Take(v, w, i) ==
    /\ val[w] # NoBlock /\ i \in DOMAIN heap[val[w]].els
    /\ LET x == heap[val[w]].els[i].v
           h == Reset(heap, val[v])
           gone == val[w] \notin DOMAIN h
       IN /\ heap' = IF gone THEN h ELSE Up(h, x)
          /\ val' = [val EXCEPT ![v] = IF gone THEN Garbage ELSE x]
          /\ cause' = IF gone THEN "assigned from what it held" ELSE cause

-----------------------------------------------------------------------------
(* What val[v] refers to becomes an array or an object, and its block is    *)
(* moved when it is full, unless realloc finds room where it is; only v is  *)
(* told.  The outcomes: the heap h, the block b, and whether it was moved   *)
(* from under others.                                                       *)
Full(b) == Len(b.els) + (IF b.keys = NoBlock THEN 0 ELSE 1) = b.cap
Doubled(b) == [b EXCEPT !.cap = 2 * @]
Outcome(h, b, moved) == [h |-> h, b |-> b, moved |-> moved]
Ready(v, type) ==
    LET b == val[v] IN
    CASE b = NoBlock ->
            IF Free(1) THEN {Outcome(Alloc(heap, Block(type, NoBlock)), Fresh(heap), FALSE)} ELSE {}
      [] b # NoBlock /\ heap[b].type # type -> {}
      [] b # NoBlock /\ heap[b].type = type /\ ~Full(heap[b]) -> {Outcome(heap, b, FALSE)}
      [] OTHER ->
            {Outcome([heap EXCEPT ![b] = Doubled(@)], b, FALSE)} \union
            IF Free(1)
            THEN {Outcome(Freed(Alloc(heap, Doubled(heap[b])), b), Fresh(heap), heap[b].refn > 1)}
            ELSE {}
Added(h, b, name, x) == [h EXCEPT ![b].els = Append(@, [k |-> name, v |-> x])]
Small(v) == val[v] # NoBlock => Len(heap[val[v]].els) < MaxSize

(* v.push_back(w) or v.add_member(name, w): w's block is taken down before  *)
(* v's is made ready, and counted in w after it.                            *)
Add(v, type, name, w) ==
    /\ Small(v)
    /\ \E r \in Ready(v, type) :
          LET now == [val EXCEPT ![v] = r.b] IN
          /\ val' = now
          /\ heap' = Up(Added(r.h, r.b, name, val[w]), now[w])
          /\ cause' = IF v = w /\ val[v] # r.b THEN "added to itself"
                      ELSE IF r.moved THEN "grown while shared" ELSE cause
AddMoved(v, type, name, w) ==
    /\ v # w /\ Small(v)
    /\ \E r \in Ready(v, type) :
          /\ val' = [val EXCEPT ![v] = r.b, ![w] = NoBlock]
          /\ heap' = Added(r.h, r.b, name, val[w])
          /\ cause' = IF r.moved THEN "grown while shared" ELSE cause

\* v[name] = w: a member that is not there is added, and then assigned.
Slot(h, b, name) ==
    {i \in DOMAIN h[b].els : h[b].els[i].k = name}
Assign(v, name, w) ==
    LET b == val[v]
        i == Min(Slot(heap, b, name))
    IN IF b # NoBlock /\ heap[b].type = "object" /\ Slot(heap, b, name) # {}
       THEN /\ heap' = [Up(Reset(heap, heap[b].els[i].v), val[w])
                            EXCEPT ![b].els[i].v = val[w]]
            /\ UNCHANGED <<val, cause>>
       ELSE /\ Small(v)
            /\ \E r \in Ready(v, "object") :
                  LET now == [val EXCEPT ![v] = r.b] IN
                  /\ val' = now
                  /\ heap' = Up(Added(r.h, r.b, name, now[w]), now[w])
                  /\ cause' = IF r.moved THEN "grown while shared" ELSE cause

Clear(v) == heap' = Reset(heap, val[v]) /\ val' = [val EXCEPT ![v] = NoBlock] /\ UNCHANGED cause

\* v.parse_from of a text with an object in an object: both refer to the keys.
Parse(v, name) ==
    /\ Free(3)
    /\ LET h0 == Reset(heap, val[v])
           k == Fresh(h0)
           h1 == Alloc(h0, [Block("keys", NoBlock) EXCEPT !.refn = 2])
           inner == Fresh(h1)
           h2 == Alloc(h1, Block("object", k))
       IN /\ heap' = Alloc(h2, [Block("object", k) EXCEPT !.els = <<[k |-> name, v |-> inner]>>])
          /\ val' = [val EXCEPT ![v] = Fresh(h2)]
    /\ UNCHANGED cause

JsonNext ==
    /\ cause = "none" /\ done < MaxDone /\ done' = done + 1
    /\ \E v \in Values :
          \/ \E type \in {"leaf", "array", "object"} : Make(v, type)
          \/ \E type \in {"array", "object"} : Become(v, type)
          \/ Clear(v) \/ \E name \in Names : Parse(v, name)
          \/ \E w \in Values :
                \/ Copy(v, w) \/ Move(v, w) \/ Swap(v, w)
                \/ \E i \in 1..MaxSize : Take(v, w, i)
                \/ Add(v, "array", "", w) \/ AddMoved(v, "array", "", w)
                \/ \E name \in Names :
                      Add(v, "object", name, w) \/ AddMoved(v, "object", name, w) \/ Assign(v, name, w)

-----------------------------------------------------------------------------
Slots(b) == {s \in Live \X (1..MaxSize) : s[2] \in DOMAIN heap[s[1]].els /\ heap[s[1]].els[s[2]].v = b}
Refs(b) ==
    Cardinality({v \in Values : val[v] = b}) + Cardinality(Slots(b))
    + Cardinality({x \in Live : heap[x].keys = b})
Referred ==
    ({val[v] : v \in Values} \cup UNION {{heap[b].keys} \cup {heap[b].els[i].v : i \in DOMAIN heap[b].els} : b \in Live})
        \ {NoBlock}
Sound == Referred \subseteq Live /\ \A b \in Live : heap[b].refn = Refs(b)
Holds(b) == ({heap[b].els[i].v : i \in DOMAIN heap[b].els} \cup {heap[b].keys}) \ {NoBlock}
RECURSIVE Closed(_)
Closed(S) ==
    LET more == S \cup (UNION {Holds(b) : b \in S} \cap Live) IN IF more = S THEN S ELSE Closed(more)
Within(b) == Closed(Holds(b) \cap Live)
Cyclic == {b \in Live : b \in Within(b)}

(* The counts are right and nothing refers to freed memory until one of the *)
(* three operations that break it; and what nobody can reach any more is    *)
(* part of a cycle, or held by one (json.h, Value::reset).                  *)
JsonCountsAreRight ==
    /\ cause = "none" <=> Sound
    /\ cause = "none" => Live \ Closed({val[v] : v \in Values} \cap Live) \subseteq Closed(Cyclic)
=============================================================================
