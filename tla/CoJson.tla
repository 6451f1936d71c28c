------------------------------- MODULE CoJson -------------------------------
(* Json of base/json.h and base/json.cc: building, printing, parsing.       *)
(* A value is a record: its type t, the key k it has in the object that     *)
(* holds it, its text s (a string's characters; the figures of a number)    *)
(* and its elements c.  In a text T, F and N stand for the words true,      *)
(* false and null, NUL for the character 0, e for an exponent, and four     *)
(* hexadecimal figures are one character.                                   *)
LOCAL INSTANCE Integers
LOCAL INSTANCE Sequences
LOCAL INSTANCE SequencesExt
LOCAL INSTANCE FiniteSetsExt

Quote == "\""
Escape == "\\"
Value(t, s, c) == [t |-> t, k |-> <<>>, s |-> s, c |-> c]
Null == Value("null", <<>>, <<>>)
Cut(s, i) == SubSeq(s, 1, i - 1)
First(s, i, set) ==
    LET at == {j \in i..Len(s) : s[j] \in set}
    IN IF at = {} THEN Len(s) + 1 ELSE Min(at)

-----------------------------------------------------------------------------
(* The members of an object and the elements of an array; a value that is   *)
(* null becomes one.                                                        *)
Holder(v, t) == IF v.t = "null" THEN Value(t, <<>>, <<>>) ELSE v
push_back(v, x) == [Holder(v, "array") EXCEPT !.c = Append(@, x)]
add_member(v, key, x) == [Holder(v, "object") EXCEPT !.c = Append(@, [x EXCEPT !.k = key])]
Of(v, key) == {i \in DOMAIN v.c : v.c[i].k = key}
find(v, key) ==
    IF v.t # "object" \/ Of(v, key) = {} THEN Null
    ELSE [v.c[Min(Of(v, key))] EXCEPT !.k = <<>>]
\* obj[key] = x
assign(v, key, x) ==
    IF Of(v, key) = {} THEN add_member(v, key, x)
    ELSE [v EXCEPT !.c[Min(Of(v, key))] = [x EXCEPT !.k = key]]

-----------------------------------------------------------------------------
(* What is read of a string ends at a NUL, except when nothing before it    *)
(* has to be escaped.                                                       *)
Names == [c \in {"\n", "\r", "\t", "BS", "\f", Quote, Escape} |->
            CASE c = "\n" -> "n" [] c = "\r" -> "r" [] c = "\t" -> "t" [] c = "BS" -> "b"
              [] c = "\f" -> "f" [] OTHER -> c]
StringText(s) ==
    LET cs == Cut(s, First(s, 1, {"NUL"}))
        Put(x, c) == IF c \in DOMAIN Names THEN x \o <<Escape, Names[c]>> ELSE Append(x, c)
    IN <<Quote>>
       \o (IF ToSet(cs) \cap DOMAIN Names = {} THEN s ELSE FoldLeft(Put, <<>>, cs))
       \o <<Quote>>
Word(v) ==
    CASE v.t = "null" -> <<"N">>
      [] v.t = "string" -> StringText(v.s)
      [] v.t \in {"int", "double", "bool"} -> v.s

\* A key is written as it is.
Brackets(v) == IF v.t = "object" THEN <<"{", "}">> ELSE <<"[", "]">>
Key(v, x) == IF v.t = "object" THEN <<Quote>> \o x.k \o <<Quote, ":">> ELSE <<>>
RECURSIVE str(_)
str(v) ==
    LET Put(text, i) ==
            text \o (IF i > 1 THEN <<",">> ELSE <<>>) \o Key(v, v.c[i]) \o str(v.c[i])
    IN IF v.t \notin {"object", "array"} THEN Word(v)
       ELSE <<Brackets(v)[1]>> \o FoldLeft(Put, <<>>, [i \in DOMAIN v.c |-> i])
            \o <<Brackets(v)[2]>>

Spaces(n) == [i \in 1..n |-> " "]
RECURSIVE pretty(_, _, _)
pretty(v, base, indent) ==
    LET Put(text, i) ==
            text \o Spaces(indent) \o Key(v, v.c[i])
            \o (IF v.t = "object" THEN <<" ">> ELSE <<>>)
            \o (IF v.c[i].t \in {"object", "array"}
                THEN pretty(v.c[i], base, indent + base) ELSE str(v.c[i]))
            \o (IF i < Len(v.c) THEN <<",", "\n">> ELSE <<"\n">>)
    IN IF v.t \notin {"object", "array"} THEN Word(v)
       ELSE IF v.c = <<>> THEN Brackets(v)
       ELSE <<Brackets(v)[1], "\n">> \o FoldLeft(Put, <<>>, [i \in DOMAIN v.c |-> i])
            \o Spaces(indent - base) \o <<Brackets(v)[2]>>

-----------------------------------------------------------------------------
(* The reader r stands at b, the last character of what it has read, with   *)
(* the value v; it fails at b when it is not ok.  It stores the keys in     *)
(* cap bytes, of which used are taken, and moves them when they are full.   *)
White == {" ", "\t", "\r", "\n"}
Next(t, b) == First(t, b, {t[i] : i \in DOMAIN t} \ White)
At(t, b) == IF b <= Len(t) THEN t[b] ELSE "end"
Fail(r, b) == [r EXCEPT !.ok = FALSE, !.b = b]
Read(r, b, v) == [r EXCEPT !.b = b, !.v = v]

\* The two halves of a character past U+FFFF, and the UTF-8 of a code.
High == {"d83d"}
Low == {"de00"}
Codes == [c \in {"0000", "0041", "d83d", "de00"} |->
            CASE c = "0000" -> "NUL" [] c = "0041" -> "a" [] OTHER -> c]
\* [text, b]: b is 0 when the sequence is refused.
read_unicode(t, b) ==
    IF At(t, b) \notin DOMAIN Codes THEN [text |-> <<>>, b |-> 0]
    ELSE IF t[b] \notin High THEN [text |-> <<Codes[t[b]]>>, b |-> b]
    ELSE IF At(t, b + 1) = Escape /\ At(t, b + 2) = "u" /\ At(t, b + 3) \in Low
    THEN [text |-> <<"U+1f600">>, b |-> b + 3]
    ELSE [text |-> <<>>, b |-> 0]

\* p is the next quote or escape; strpbrk stops at a NUL before it.
RECURSIVE read_string(_, _, _, _)
unescape(r, t, p, text, u) ==
    IF u.b = 0 THEN Fail(r, p + 2) ELSE read_string(r, t, u.b + 1, text \o u.text)
read_escape(r, t, p, c, text, raw) ==
    IF c = "u" THEN unescape(r, t, p, text, read_unicode(t, p + 2))
    ELSE IF c = "/" THEN read_string(r, t, p + 2, Append(text, c))
    ELSE IF raw = {} THEN Fail(r, p + 1)
    ELSE read_string(r, t, p + 2, text \o SetToSeq(raw))
read_piece(r, t, p, nul, text) ==
    IF p > Len(t) \/ nul < p THEN Fail(r, p)
    ELSE IF t[p] = Quote THEN Read(r, p, Value("string", text, <<>>))
    ELSE read_escape(r, t, p, At(t, p + 1), text, {x \in DOMAIN Names : Names[x] = At(t, p + 1)})
read_upto(r, t, b, p, text) ==
    read_piece(r, t, p, First(t, b, {"NUL"}), text \o SubSeq(t, b, p - 1))
read_string(r, t, b, text) == read_upto(r, t, b, First(t, b, {Quote, Escape}), text)

\* The figures of a number without the zeros that say nothing.
Figures == {"0", "1", "2", "5"}
Bare(s) == SubSeq(s, First(s, 1, {s[i] : i \in DOMAIN s} \ {"0"}), Len(s))
OrZero(s) == IF s = <<>> THEN <<"0">> ELSE s
Whole(s) == OrZero(Bare(s))
Minus(s) == IF s # <<>> /\ s[1] = "-" THEN <<"-">> ELSE <<>>
\* A '-' alone is read as 0.
Negated(minus, n) == IF n = <<"0">> THEN n ELSE minus \o n
fastatoi(s) == Negated(Minus(s), Whole(SubSeq(s, Len(Minus(s)) + 1, Len(s))))
IsInt(s) == \A i \in DOMAIN s : s[i] \in Figures \/ (i = 1 /\ s[i] = "-")
Fraction(tail) == IF tail = <<>> THEN <<>> ELSE <<".">> \o tail
Decimal(s, minus, dot, end) ==
    minus \o Whole(SubSeq(s, Len(minus) + 1, dot - 1))
    \o Fraction(Reverse(Bare(Reverse(SubSeq(s, dot + 1, end - 1))))) \o SubSeq(s, end, Len(s))
to_double(s) == Decimal(s, Minus(s), First(s, 1, {"."}), First(s, 1, {"e"}))
IsDouble(s) ==
    /\ \E i \in DOMAIN s : s[i] \in Figures
    /\ \A i \in DOMAIN s : \/ s[i] \in Figures \cup {"."} \/ (i = 1 /\ s[i] = "-")
                           \/ (i = Len(s) /\ s[i] = "e" /\ s[i - 1] \in Figures)

(* A word or a number, up to what ends it: the end of the text does not.    *)
Words == [T |-> "bool", F |-> "bool", N |-> "null"]
read_word(r, b, q, s) ==
    IF Len(s) > 1 THEN Fail(r, b)
    ELSE Read(r, q - 1, Value(Words[s[1]], IF s[1] = "N" THEN <<>> ELSE s, <<>>))
read_number(r, b, q, s, dots) ==
    IF dots = 0
    THEN IF IsInt(s) THEN Read(r, q - 1, Value("int", fastatoi(s), <<>>)) ELSE Fail(r, b)
    ELSE IF IsDouble(s) THEN Read(r, q - 1, Value("double", to_double(s), <<>>)) ELSE Fail(r, b)
read_chars(r, b, q, s, dots) ==
    IF dots > 1 THEN Fail(r, q)
    ELSE IF s[1] \in DOMAIN Words THEN read_word(r, b, q, s)
    ELSE read_number(r, b, q, s, dots)
read_ended(r, t, b, q) ==
    IF q > Len(t) THEN Fail(r, q)
    ELSE read_chars(r, b, q, SubSeq(t, b, q - 1), Cardinality({i \in (b + 1)..(q - 1) : t[i] = "."}))
read_token(r, t, b) == read_ended(r, t, b, First(t, b + 1, {",", "}", "]"} \cup White))

(* A key is what stands before the next quote, with a 0 behind it.          *)
read_key(r, key) ==
    LET need == r.used + Len(key) + 1 IN
    IF need <= r.cap THEN [r EXCEPT !.used = need]
    ELSE [r EXCEPT !.used = need, !.cap = (@ * 3) \div 2 + Len(key) + 1, !.moved = TRUE]
Room(r, keys_len) ==
    IF keys_len > 0 /\ r.cap = 0
    THEN [r EXCEPT !.cap = IF keys_len < 4 THEN 4 ELSE keys_len, !.used = 4] ELSE r

RECURSIVE parse_json(_, _, _, _, _)
RECURSIVE parse_array(_, _, _, _, _)
parse_value(r, t, b, n) ==
    CASE t[b] = Quote -> read_string(r, t, b + 1, <<>>)
      [] t[b] = "{" -> parse_json(Room(r, n), t, b + 1, Value("object", <<>>, <<>>), n)
      [] t[b] = "[" -> parse_array(r, t, b + 1, Value("array", <<>>, <<>>), n)
      [] OTHER -> read_token(r, t, b)
\* A member or an element is v; y is where the next character is.
after_member(v, t, y, more, n) ==
    CASE At(t, y) = "}" -> Read(v, y, more)
      [] At(t, y) = "," -> parse_json(v, t, y + 1, more, n)
      [] OTHER -> Fail(v, y)
parse_member(v, t, key, res, n) ==
    IF ~v.ok THEN v
    ELSE after_member(v, t, Next(t, v.b + 1),
                      [res EXCEPT !.c = Append(@, [v.v EXCEPT !.k = key])], n)
after_colon(k, t, x, key, res, n) ==
    IF x > Len(t) THEN Fail(k, x) ELSE parse_member(parse_value(k, t, x, n), t, key, res, n)
after_key(k, t, colon, key, res, n) ==
    IF At(t, colon) # ":" THEN Fail(k, colon)
    ELSE after_colon(k, t, Next(t, colon + 1), key, res, n)
parse_key(r, t, q, key, res, n) ==
    IF q > Len(t) THEN Fail(r, q) ELSE after_key(read_key(r, key), t, Next(t, q + 1), key, res, n)
parse_name(r, t, b, q, res, n) == parse_key(r, t, q, SubSeq(t, b + 1, q - 1), res, n)
parse_members(r, t, b, res, n) ==
    CASE At(t, b) = "}" -> Read(r, b, res)
      [] At(t, b) = Quote -> parse_name(r, t, b, First(t, b + 1, {Quote}), res, n)
      [] OTHER -> Fail(r, b)
parse_json(r, t, b, res, n) == parse_members(r, t, Next(t, b), res, n)

after_element(v, t, y, more, n) ==
    CASE At(t, y) = "]" -> Read(v, y, more)
      [] At(t, y) = "," -> parse_array(v, t, y + 1, more, n)
      [] OTHER -> Fail(v, y)
parse_element(v, t, res, n) ==
    IF ~v.ok THEN v
    ELSE after_element(v, t, Next(t, v.b + 1), [res EXCEPT !.c = Append(@, v.v)], n)
parse_elements(r, t, b, res, n) ==
    CASE At(t, b) = "]" -> Read(r, b, res)
      [] At(t, b) = "end" -> Fail(r, b)
      [] OTHER -> parse_element(parse_value(r, t, b, n), t, res, n)
parse_array(r, t, b, res, n) == parse_elements(r, t, Next(t, b), res, n)

(* The memory for the keys is as long as the text, unless the caller says.  *)
Reader == [ok |-> TRUE, b |-> 0, v |-> Null, cap |-> 0, used |-> 0, moved |-> FALSE]
parse_end(r, t, end) == IF r.ok /\ end <= Len(t) THEN Fail(r, end) ELSE r
parse_rest(r, t) == parse_end(r, t, Next(t, r.b + 1))
parse_first(t, p, n) ==
    IF At(t, p) \notin {"{", "["} THEN Fail(Reader, p)
    ELSE parse_rest(parse_value(Reader, t, p, n), t)
parse_from(t, keys_len) ==
    parse_first(t, Next(t, 1), IF keys_len = 0 /\ Len(t) > 4 THEN Len(t) ELSE keys_len)
==========================================================================
