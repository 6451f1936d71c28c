------------------------------- MODULE Texts -------------------------------
(* The operations on texts of base/fastring.cc, base/str.cc and            *)
(* base/path.cc.  A text is a sequence of characters; a position counts    *)
(* from 1, and 0 is npos.                                                  *)
LOCAL INSTANCE Naturals
LOCAL INSTANCE Integers
LOCAL INSTANCE Sequences
LOCAL INSTANCE SequencesExt
LOCAL INSTANCE FiniteSetsExt

CONSTANT Order   \* the characters, in the order of their codes

npos == 0
Code(c) == CHOOSE i \in DOMAIN Order : Order[i] = c
Occurs(s, sub, i) == i + Len(sub) - 1 <= Len(s) /\ SubSeq(s, i, i + Len(sub) - 1) = sub
From(s, i) == SubSeq(s, i, Len(s))
Least(S) == IF S = {} THEN npos ELSE Min(S)
Greatest(S) == IF S = {} THEN npos ELSE Max(S)

(* memmem, strstr and memchr: the first occurrence. *)
Find(s, sub) == Least({i \in 1..Len(s) : Occurs(s, sub, i)})
FindAt(s, sub, pos) == Least({i \in pos..Len(s) : Occurs(s, sub, i)})

(* From the right: compare, and move left so that the character before the *)
(* window meets its leftmost copy in sub, or past it when it has none.     *)
\* A mutant: the copy on the right.
TableRight(sub, c) == Greatest({i \in 1..Len(sub) : sub[i] = c})
Table(sub, c) == Least({i \in 1..Len(sub) : sub[i] = c})
RECURSIVE RFindFrom(_, _, _)
RFindFrom(s, sub, j) ==
    LET x == IF Table(sub, s[j]) = 0 THEN Len(sub) + 1 ELSE Table(sub, s[j]) IN
    IF SubSeq(s, j + 1, j + Len(sub)) = sub THEN j + 1
    ELSE IF j = 0 \/ j < x THEN npos ELSE RFindFrom(s, sub, j - x)
RFind(s, sub) ==
    IF Len(s) < Len(sub) THEN npos
    ELSE IF Len(sub) = 1 THEN Greatest({i \in DOMAIN s : s[i] = sub[1]})
    ELSE RFindFrom(s, sub, Len(s) - Len(sub))

FindFirstOf(s, set) == Least({i \in DOMAIN s : Contains(set, s[i])})
FindFirstNotOf(s, set) == Least({i \in DOMAIN s : ~Contains(set, s[i])})
FindLastOf(s, set) == Greatest({i \in DOMAIN s : Contains(set, s[i])})
FindLastNotOf(s, set) == Greatest({i \in DOMAIN s : ~Contains(set, s[i])})

StartsWith(s, t) == Occurs(s, t, 1)
EndsWith(s, t) == Len(t) <= Len(s) /\ From(s, Len(s) - Len(t) + 1) = t

(* memcmp of the first n characters: negative, zero or positive. *)
Compare(s, t, n) ==
    LET d == {i \in 1..n : s[i] # t[i]} IN
    IF d = {} THEN 0 ELSE Code(s[Min(d)]) - Code(t[Min(d)])
Less(s, t) ==
    IF Len(s) < Len(t) THEN Len(s) = 0 \/ Compare(s, t, Len(s)) <= 0
    ELSE Compare(s, t, Len(t)) < 0
Greater(s, t) ==
    IF Len(s) > Len(t) THEN Len(t) = 0 \/ Compare(s, t, Len(t)) >= 0
    ELSE Compare(s, t, Len(s)) > 0

(* '*' matches everything, '?' any character. *)
OnlyStar(p) == p = <<"*">>
RECURSIVE Match(_, _)
Match(e, p) ==
    \/ OnlyStar(p)
    \/ e = <<>> /\ p = <<>>
    \/ /\ e # <<>> /\ p # <<>>
       /\ IF Head(p) = "*" THEN Match(e, Tail(p)) \/ Match(Tail(e), p)
          ELSE Head(p) \in {"?", Head(e)} /\ Match(Tail(e), Tail(p))

(* Replace at most max occurrences; a max of 0 counts down past 0 and is   *)
(* no limit.  A tail that is empty is not appended.                        *)
RECURSIVE Replace(_, _, _, _)
Replace(s, sub, to, max) ==
    LET p == Find(s, sub)
        rest == From(s, p + Len(sub))
    IN IF p = npos THEN s
       ELSE SubSeq(s, 1, p - 1) \o to
            \o (IF max = 1 THEN rest ELSE Replace(rest, sub, to, max - 1))

(* The pieces between separators; the last one only when it has something. *)
RECURSIVE Split(_, _, _)
Split(s, sep, max) ==
    LET p == Find(s, sep)
        rest == From(s, p + Len(sep))
    IN IF p = npos THEN IF s = <<>> THEN <<>> ELSE <<s>>
       ELSE <<SubSeq(s, 1, p - 1)>>
            \o (IF max # 1 THEN Split(rest, sep, max - 1)
                ELSE IF rest = <<>> THEN <<>> ELSE <<rest>>)

(* Strip the characters of set from the left 'l', the right 'r' or both.   *)
Strip(s, set, d) ==
    LET b == IF d = "r" THEN 1 ELSE FindFirstNotOf(s, set)
        e == IF d = "l" THEN Len(s) ELSE FindLastNotOf(s, set)
    IN IF b = npos THEN <<>> ELSE SubSeq(s, b, e)

(* The same, in place (fastring): out is what is done, from where to go on. *)
RECURSIVE ReplaceFrom(_, _, _, _, _, _)
ReplaceNext(s, out, from, p, sub, to, max) ==
    IF p = npos THEN out \o From(s, from)
    ELSE IF max = 1 THEN out \o SubSeq(s, from, p - 1) \o to \o From(s, p + Len(sub))
    ELSE ReplaceFrom(s, out \o SubSeq(s, from, p - 1) \o to, p + Len(sub), sub, to, max - 1)
ReplaceFrom(s, out, from, sub, to, max) ==
    ReplaceNext(s, out, from, FindAt(s, sub, from), sub, to, max)
replace(s, sub, to, max) == ReplaceFrom(s, <<>>, 1, sub, to, max)
StripLeft(s, set) ==
    IF FindFirstNotOf(s, set) = npos THEN <<>> ELSE From(s, FindFirstNotOf(s, set))
StripRight(s, set) == SubSeq(s, 1, FindLastNotOf(s, set))
strip(s, set, d) ==
    CASE d = "l" -> StripLeft(s, set)
      [] d = "r" -> StripRight(s, set)
      [] OTHER -> StripLeft(StripRight(s, set), set)

-----------------------------------------------------------------------------
(* path::clean: i reads s, r is what is kept, dotdot where ".." must stop. *)
Ends(s, i) == i > Len(s) \/ s[i] = "/"
Rooted(s) == s # <<>> /\ s[1] = "/"
RECURSIVE Backtrack(_, _)
Backtrack(r, dotdot) ==
    LET q == Front(r) IN
    IF Len(q) > dotdot /\ r[Len(r)] # "/" THEN Backtrack(q, dotdot) ELSE q
RECURSIVE CleanFrom(_, _, _, _)
CleanFrom(s, i, r, dotdot) ==
    LET next == Least({j \in i..Len(s) : s[j] = "/"})
        stop == IF next = 0 THEN Len(s) + 1 ELSE next
        slash == IF Len(r) # (IF Rooted(s) THEN 1 ELSE 0) THEN <<"/">> ELSE <<>>
        up == (IF Len(r) > 0 THEN <<"/">> ELSE <<>>) \o <<".", ".">>
    IN IF i > Len(s) THEN r
       ELSE IF s[i] = "/" \/ (s[i] = "." /\ Ends(s, i + 1)) THEN CleanFrom(s, i + 1, r, dotdot)
       ELSE IF s[i] = "." /\ s[i + 1] = "." /\ Ends(s, i + 2)
       THEN IF Len(r) > dotdot THEN CleanFrom(s, i + 2, Backtrack(r, dotdot), dotdot)
            ELSE IF Rooted(s) THEN CleanFrom(s, i + 2, r, dotdot)
            ELSE CleanFrom(s, i + 2, r \o up, Len(r \o up))
       ELSE CleanFrom(s, stop, r \o slash \o SubSeq(s, i, stop - 1), dotdot)
Clean(s) ==
    LET root == IF Rooted(s) THEN <<"/">> ELSE <<>>
        r == CleanFrom(s, Len(root) + 1, root, Len(root))
    IN IF r = <<>> THEN <<".">> ELSE r

SplitPath(s) ==
    LET p == RFind(s, <<"/">>) IN <<SubSeq(s, 1, p), From(s, p + 1)>>
Dir(s) == Clean(SplitPath(s)[1])
Base(s) ==
    LET x == Strip(s, <<"/">>, "r") IN
    IF s = <<>> THEN <<".">> ELSE IF x = <<>> THEN <<"/">> ELSE SplitPath(x)[2]
Ext(s) ==
    LET p == FindLastOf(s, <<".", "/">>) IN
    IF p # npos /\ s[p] = "." THEN From(s, p) ELSE <<>>
Join(s, t) ==
    LET v == IF s # <<>> THEN s \o <<"/">> \o t ELSE t IN
    IF v = <<>> THEN v ELSE Clean(v)
==========================================================================
