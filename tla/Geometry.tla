------------------------------ MODULE Geometry ------------------------------
(* DstEngine/judge.cpp: whether a point is in a region, and whether a trail  *)
(* has gone over a line.  cross_line reads a variable nothing was assigned   *)
(* to, so that what it and its callers say is a set of answers.              *)
EXTENDS Integers, Sequences, FiniteSets

CONSTANTS GAP,     \* what is cut off a rectangle on every side, 20 in the code
          SEP      \* a trail is looked at every SEP points, 6 in the code

Point(x, y) == [x |-> x, y |-> y]
Lesser(a, b) == IF a < b THEN a ELSE b
Greater(a, b) == IF a < b THEN b ELSE a
Magnitude(n) == Greater(n, -n)

-----------------------------------------------------------------------------
\* The division of C, towards 0.
Quotient(n, d) ==
    LET q == Magnitude(n) \div Magnitude(d) IN IF (n < 0) = (d < 0) THEN q ELSE -q
\* The ray from p to the right meets the edge that ends at the i-th vertex.
MeetsEdge(polygon, p, i) ==
    LET a == polygon[i]
        b == polygon[IF i = 1 THEN Len(polygon) ELSE i - 1]
    IN /\ (a.y > p.y) # (b.y > p.y)
       /\ p.x < Quotient((b.x - a.x) * (p.y - a.y), b.y - a.y) + a.x
pnpoly(polygon, p) == Cardinality({i \in DOMAIN polygon : MeetsEdge(polygon, p, i)}) % 2 = 1

judge_out_polygon(p, points) == pnpoly(points, p)

\* The corners are points[1], the upper left one, and points[2].
judge_out_rectangle(p, points) ==
    LET left == points[1].x + GAP
        top == points[1].y + GAP
        right == points[2].x - GAP
        bottom == points[2].y - GAP
    IN pnpoly(<<Point(left, top), Point(left, bottom), Point(right, bottom), Point(right, top)>>, p)

-----------------------------------------------------------------------------
(* Whether ab and cd meet: their boxes must, and c and d not be on the same  *)
(* side of the line ab.  That a and b are not on the same side of cd would   *)
(* be w*z <= 1e-9, but z was never assigned: unless w is 0, either answer.   *)
BoxesMeet(a, b, c, d) ==
    /\ Lesser(a.x, b.x) <= Greater(c.x, d.x) /\ Lesser(c.y, d.y) <= Greater(a.y, b.y)
    /\ Lesser(c.x, d.x) <= Greater(a.x, b.x) /\ Lesser(a.y, b.y) <= Greater(c.y, d.y)
Side(p, a, b) == (p.x - a.x) * (b.y - a.y) - (b.x - a.x) * (p.y - a.y)
Unassigned(w) == IF w = 0 THEN {TRUE} ELSE BOOLEAN
\* A mutant: a line that is only touched is not crossed.
cross_line_within(a, b, c, d) ==
    IF BoxesMeet(a, b, c, d) /\ Side(c, a, b) * Side(d, a, b) < 0 THEN Unassigned(Side(a, c, d)) ELSE {FALSE}
cross_line(a, b, c, d) ==
    IF BoxesMeet(a, b, c, d) /\ Side(c, a, b) * Side(d, a, b) <= 0 THEN Unassigned(Side(a, c, d)) ELSE {FALSE}

\* The answers of a search that stops at the first of its tests that says yes.
SomeOf(tests) ==
    {yes \in BOOLEAN : IF yes THEN \E t \in tests : TRUE \in t ELSE \A t \in tests : FALSE \in t}
\* The last point is looked at, and every SEP-th one; each with the first.
Looked(trail) == {k \in 2..Len(trail) : k = Len(trail) \/ (k - 1) % SEP = 0}

judge_out_line(trail, points) ==
    SomeOf({cross_line(trail[1], trail[k], points[1], points[2]) : k \in Looked(trail)})
judge_out_broken_line(trail, points) ==
    SomeOf({cross_line(trail[1], trail[k], points[i], points[i + 1]) :
              k \in Looked(trail), i \in 1..(Len(points) - 1)})
=============================================================================
