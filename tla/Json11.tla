------------------------------- MODULE Json11 -------------------------------
(* json11.cpp, the Json of the borders: dump, parse and the comparisons.    *)
(* A value is a record: its type t, the key k it has in its object, its     *)
(* text s (a string's characters, or the figures of a number without zeros  *)
(* that say nothing) and its elements c; an object's are sorted by key, as  *)
(* std::map keeps them.  In a text T, F and N stand for true, false and     *)
(* null, and four hexadecimal figures are one character.                    *)
LOCAL INSTANCE Integers
LOCAL INSTANCE Sequences
LOCAL INSTANCE SequencesExt
LOCAL INSTANCE FiniteSetsExt
LOCAL INSTANCE TLC

CONSTANTS Order,      \* the characters in the order of their codes
          MaxDepth,   \* max_depth, 200 in the code
          MaxDigits   \* the figures every int has room for, 9 in the code

LOCAL INSTANCE Texts

Quote == "\""
Escape == "\\"
Value(t, s, c) == [t |-> t, k |-> <<>>, s |-> s, c |-> c]
Null == Value("null", <<>>, <<>>)

-----------------------------------------------------------------------------
(* A control character without a name is written by its code, and so are    *)
(* U+2028 and U+2029.                                                       *)
Named == [c \in {"\n", "\r", "\t", "\f", "BS", Quote, Escape} |->
            CASE c = "\n" -> "n" [] c = "\r" -> "r" [] c = "\t" -> "t"
              [] c = "\f" -> "f" [] c = "BS" -> "b" [] OTHER -> c]
Codes == ("0041" :> "a") @@ ("001f" :> "US") @@ ("2028" :> "LS")
            @@ ("d83d" :> "HI") @@ ("de00" :> "LO")
ByCode == {"001f", "2028"}
StringText(s) ==
    LET Put(x, c) ==
          IF c \in DOMAIN Named THEN x \o <<Escape, Named[c]>>
          ELSE IF \E u \in ByCode : Codes[u] = c
          THEN x \o <<Escape, "u", CHOOSE u \in ByCode : Codes[u] = c>>
          ELSE Append(x, c)
    IN <<Quote>> \o FoldLeft(Put, <<>>, s) \o <<Quote>>

\* A number that is not finite is written as null.
RECURSIVE dump(_)
Items(texts) ==
    FoldLeft(LAMBDA text, i : text \o (IF i > 1 THEN <<",", " ">> ELSE <<>>) \o texts[i],
             <<>>, [i \in DOMAIN texts |-> i])
dump(v) ==
    CASE v.t = "null" \/ v.s = <<"nan">> -> <<"N">>
      [] v.t = "string" -> StringText(v.s)
      [] v.t = "array" -> <<"[">> \o Items([i \in DOMAIN v.c |-> dump(v.c[i])]) \o <<"]">>
      [] v.t = "object" ->
            LET Member(x) == StringText(x.k) \o <<":", " ">> \o dump(x)
            IN <<"{">> \o Items([i \in DOMAIN v.c |-> Member(v.c[i])]) \o <<"}">>
      [] OTHER -> v.s

-----------------------------------------------------------------------------
(* Comparisons: by type, then as the type compares.  A number is compared   *)
(* as a double, whichever it holds.                                         *)
Types == <<"null", "number", "bool", "string", "array", "object">>
Rank(v) == CHOOSE i \in DOMAIN Types : Types[i] = v.t
Number(s) ==
    IF s[1] = "-" THEN -FoldLeft(LAMBDA n, c : 10 * n + Code(c) - Code("0"), 0, Tail(s))
    ELSE FoldLeft(LAMBDA n, c : 10 * n + Code(c) - Code("0"), 0, s)
RECURSIVE Equal(_, _)
Equal(v, w) ==
    /\ v.t = w.t /\ v.k = w.k
    /\ IF v.t \in {"array", "object"}
       THEN Len(v.c) = Len(w.c) /\ \A i \in DOMAIN v.c : Equal(v.c[i], w.c[i])
       ELSE v.s = w.s /\ v.s # <<"nan">>
RECURSIVE LessThan(_, _)
LessThan(v, w) ==
    LET differ == {i \in DOMAIN v.c \cap DOMAIN w.c : LessThan(v.c[i], w.c[i]) \/ LessThan(w.c[i], v.c[i])}
    IN IF v.k # w.k THEN Less(v.k, w.k)
       ELSE IF v.t # w.t THEN Rank(v) < Rank(w)
       ELSE CASE v.t = "number" ->
                    v.s # <<"nan">> /\ w.s # <<"nan">> /\ Number(v.s) < Number(w.s)
              [] v.t \in {"string", "bool"} -> Less(v.s, w.s)
              [] v.t \in {"array", "object"} ->
                    IF differ = {} THEN Len(v.c) < Len(w.c)
                    ELSE LessThan(v.c[Min(differ)], w.c[Min(differ)])
              [] OTHER -> FALSE

-----------------------------------------------------------------------------
(* The reader stands at i, the next character; r.i of a result is where it  *)
(* stops.  A failure is kept, whatever is read after it.                    *)
White == {" ", "\t", "\r", "\n"}
At(t, i) == IF i <= Len(t) THEN t[i] ELSE "end"
Got(i, v) == [ok |-> TRUE, i |-> i, v |-> v]
Fail(i) == [ok |-> FALSE, i |-> i, v |-> Null]

consume_whitespace(t, i) ==
    Min({j \in i..(Len(t) + 1) : At(t, j) \notin White})
\* A mutant: a comment that is not closed goes on to the end.
consume_open_comment(t, i) ==
    LET closed == {j \in (i + 2)..(Len(t) - 1) : t[j] = "*" /\ t[j + 1] = "/"}
        line == {j \in (i + 2)..Len(t) : t[j] = "\n"}
    IN IF At(t, i) # "/" THEN i
       ELSE CASE At(t, i + 1) = "/" -> Min(line \cup {Len(t) + 1})
              [] At(t, i + 1) = "*" -> IF closed = {} THEN Len(t) + 1 ELSE Min(closed) + 2
              [] OTHER -> 0
\* 0 for a comment that is malformed; the position itself when there is none.
consume_comment(t, i) ==
    LET closed == {j \in (i + 2)..(Len(t) - 1) : t[j] = "*" /\ t[j + 1] = "/"}
        line == {j \in (i + 2)..Len(t) : t[j] = "\n"}
    IN IF At(t, i) # "/" THEN i
       ELSE CASE At(t, i + 1) = "/" -> Min(line \cup {Len(t) + 1})
              [] At(t, i + 1) = "*" -> IF closed = {} THEN 0 ELSE Min(closed) + 2
              [] OTHER -> 0
RECURSIVE consume_garbage(_, _, _)
garbage_at(t, at, after, strategy) ==
    IF after = at THEN at
    ELSE IF after = 0 THEN 0 ELSE consume_garbage(t, after, strategy)
consume_at(t, at, strategy) ==
    IF strategy = "STANDARD" THEN at ELSE garbage_at(t, at, consume_comment(t, at), strategy)
consume_garbage(t, i, strategy) == consume_at(t, consume_whitespace(t, i), strategy)
\* 0 when there is none.
token_at(t, at) == IF at > Len(t) THEN 0 ELSE at
next_token(t, i, strategy) == token_at(t, consume_garbage(t, i, strategy))

(* last is the code of an escape that may be the first half of a pair.      *)
Utf8(out, last) == IF last = "" THEN out ELSE Append(out, Codes[last])
RECURSIVE parse_string(_, _, _, _)
parse_string(t, i, out, last) ==
    LET c == At(t, i)
        x == At(t, i + 1)
        code == At(t, i + 2)
        named == {n \in DOMAIN Named : Named[n] = x}
    IN IF c \in {"end", "\n", "\r", "\t", "\f", "BS", "US"} THEN Fail(i)
       ELSE IF c = Quote THEN Got(i + 1, Value("string", Utf8(out, last), <<>>))
       ELSE IF c # Escape THEN parse_string(t, i + 1, Append(Utf8(out, last), c), "")
       ELSE IF x = "u"
       THEN IF code \notin DOMAIN Codes THEN Fail(i)
            ELSE IF last = "d83d" /\ code = "de00"
            THEN parse_string(t, i + 3, Append(out, "U+1f600"), "")
            ELSE parse_string(t, i + 3, Utf8(out, last), code)
       ELSE IF x = "/" THEN parse_string(t, i + 2, Append(Utf8(out, last), x), "")
       ELSE IF named = {} THEN Fail(i)
       ELSE parse_string(t, i + 2, Utf8(out, last) \o SetToSeq(named), "")

(* -? (0 | 1-9 figures) (. figures)? (e figures)?, without a leading 0.     *)
Digit == {"0", "1", "2"}
Run(t, i) == Min({j \in i..(Len(t) + 1) : At(t, j) \notin Digit})
Zeros(t, int, frac) ==
    CHOOSE n \in 0..(frac - int) :
        /\ \A j \in (frac - n)..(frac - 1) : t[j] = "0"
        /\ n < frac - int => At(t, frac - n - 1) # "0"
Undotted(bare) == IF bare # <<>> /\ Last(bare) = "." THEN Front(bare) ELSE bare
Positive(text) == IF text = <<"-", "0">> THEN <<"0">> ELSE text
Figured(t, i, int, frac, end) ==
    Value("number", Positive(Undotted(SubSeq(t, i, frac - Zeros(t, int, frac) - 1))) \o SubSeq(t, frac, end - 1), <<>>)
\* first is where the figures start, int, frac and end where the figures
\* before the point, after it and in the exponent end.
number_at(t, i, first, int, frac, end) ==
    IF int = first \/ (At(t, first) = "0" /\ At(t, int) \in Digit) THEN Fail(int)
    ELSE IF \/ At(t, int) \notin {".", "e"} /\ int - i <= MaxDigits
            \/ frac # int + 1 /\ end # frac + 1
    THEN Got(end, Figured(t, i, int, frac, end))
    ELSE Fail(end)
exponent_at(t, i, first, int, frac) ==
    number_at(t, i, first, int, frac, IF At(t, frac) = "e" THEN Run(t, frac + 1) ELSE frac)
fraction_at(t, i, first, int) ==
    exponent_at(t, i, first, int, IF At(t, int) = "." THEN Run(t, int + 1) ELSE int)
figures_at(t, i, first) ==
    fraction_at(t, i, first, IF At(t, first) = "0" THEN first + 1 ELSE Run(t, first))
parse_number(t, i) == figures_at(t, i, IF t[i] = "-" THEN i + 1 ELSE i)

\* data[key] = v
Put(c, key, v) ==
    LET x == [v EXCEPT !.k = key] IN
    SelectSeq(c, LAMBDA y : Less(y.k, key)) \o <<x>> \o SelectSeq(c, LAMBDA y : Less(key, y.k))
Words == [T |-> "bool", F |-> "bool", N |-> "null"]
RECURSIVE parse_json(_, _, _, _)
RECURSIVE Members(_, _, _, _, _)
RECURSIVE Elements(_, _, _, _, _)
Empty(t, q, c) == q # 0 /\ t[q] = c
parse_members(t, q, depth, st) ==
    IF Empty(t, q, "}") THEN Got(q + 1, Value("object", <<>>, <<>>)) ELSE Members(t, q, depth, st, <<>>)
parse_elements(t, q, depth, st) ==
    IF Empty(t, q, "]") THEN Got(q + 1, Value("array", <<>>, <<>>)) ELSE Elements(t, q, depth, st, <<>>)
json_at(t, p, depth, st) ==
    CASE t[p] \in Digit \cup {"-"} -> parse_number(t, p)
      [] t[p] \in DOMAIN Words ->
            Got(p + 1, Value(Words[t[p]], IF t[p] = "N" THEN <<>> ELSE <<t[p]>>, <<>>))
      [] t[p] = Quote -> parse_string(t, p + 1, <<>>, "")
      [] t[p] = "{" -> parse_members(t, next_token(t, p + 1, st), depth, st)
      [] t[p] = "[" -> parse_elements(t, next_token(t, p + 1, st), depth, st)
      [] OTHER -> Fail(p)
token_json(t, i, p, depth, st) ==
    IF depth > MaxDepth \/ p = 0 THEN Fail(i) ELSE json_at(t, p, depth, st)
parse_json(t, i, depth, st) == token_json(t, i, next_token(t, i, st), depth, st)

\* A member from its key on, and an element: v is the value, end what is
\* behind it.
member_end(t, i, end, more, depth, st) ==
    IF end = 0 THEN Fail(i)
    ELSE CASE t[end] = "}" -> Got(end + 1, Value("object", <<>>, more))
           [] t[end] = "," -> Members(t, next_token(t, end + 1, st), depth, st, more)
           [] OTHER -> Fail(end)
member_value(t, i, key, v, depth, st, c) ==
    IF ~v.ok THEN Fail(i) ELSE member_end(t, i, next_token(t, v.i, st), Put(c, key, v.v), depth, st)
member_colon(t, i, key, colon, depth, st, c) ==
    IF colon = 0 \/ At(t, colon) # ":" THEN Fail(i)
    ELSE member_value(t, i, key, parse_json(t, colon + 1, depth + 1, st), depth, st, c)
member_key(t, i, r, depth, st, c) ==
    IF ~r.ok THEN Fail(i) ELSE member_colon(t, i, r.v.s, next_token(t, r.i, st), depth, st, c)
Members(t, i, depth, st, c) ==
    IF i = 0 \/ At(t, i) # Quote THEN Fail(i)
    ELSE member_key(t, i, parse_string(t, i + 1, <<>>, ""), depth, st, c)
element_end(t, i, end, more, depth, st) ==
    IF end = 0 THEN Fail(i)
    ELSE CASE t[end] = "]" -> Got(end + 1, Value("array", <<>>, more))
           [] t[end] = "," -> Elements(t, next_token(t, end + 1, st), depth, st, more)
           [] OTHER -> Fail(end)
element_value(t, i, v, depth, st, c) ==
    IF ~v.ok THEN Fail(i) ELSE element_end(t, i, next_token(t, v.i, st), Append(c, v.v), depth, st)
Elements(t, i, depth, st, c) ==
    IF i = 0 THEN Fail(i) ELSE element_value(t, i, parse_json(t, i, depth + 1, st), depth, st, c)

parse_end(t, r, end) == IF r.ok /\ end = Len(t) + 1 THEN r ELSE Fail(r.i)
parse_all(t, r, st) == parse_end(t, r, consume_garbage(t, r.i, st))
parse(t, st) == parse_all(t, parse_json(t, 1, 0, st), st)

(* One value after the other; the one that fails is null, and the last.     *)
(* stop is where the last good one ends.                                    *)
RECURSIVE Multi(_, _, _, _, _)
multi_next(t, stop, r, after, vec, st) ==
    IF ~r.ok \/ after = 0 THEN [vec |-> vec, stop |-> stop, ok |-> FALSE]
    ELSE Multi(t, after, after, vec, st)
multi_one(t, stop, r, vec, st) ==
    multi_next(t, stop, r, consume_garbage(t, r.i, st), Append(vec, r.v), st)
Multi(t, i, stop, vec, st) ==
    IF i > Len(t) THEN [vec |-> vec, stop |-> stop, ok |-> TRUE]
    ELSE multi_one(t, stop, parse_json(t, i, 0, st), vec, st)
parse_multi(t, st) == Multi(t, 1, 1, <<>>, st)

\* What operator[] gives: null when the key is not there.
Member(v, key) ==
    LET at == {i \in DOMAIN v.c : v.t = "object" /\ v.c[i].k = key}
    IN IF at = {} THEN Null ELSE [v.c[Min(at)] EXCEPT !.k = <<>>]
=============================================================================
