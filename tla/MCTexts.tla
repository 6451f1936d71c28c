------------------------------ MODULE MCTexts ------------------------------
(* The pure part of the library, compared with definitions that have        *)
(* nothing in common with it.  A behaviour types one or two sequences of    *)
(* characters, bytes, words, arguments or operations, as long as the        *)
(* subject says; the properties say what every operation of the subject     *)
(* makes of what is typed so far.                                           *)
EXTENDS Sequences, Integers, FiniteSets, SequencesExt, TLC

CONSTANTS Order, Typed, Wide, Narrow, Shift, GroupDigits, Block, LowBits,
          MaxDepth, MaxDigits, GAP, SEP, Sixty

T == INSTANCE Texts
N == INSTANCE Numbers
F == INSTANCE Flags
C == INSTANCE Codings
J == INSTANCE CoJson
L == INSTANCE Json11
G == INSTANCE Geometry
Clock == INSTANCE LogTime

VARIABLES subject, one, two

Atoms == [null |-> J!Null, true |-> J!Value("bool", <<"T">>, <<>>), int |-> J!Value("int", <<"-", "1">>, <<>>),
   half |-> J!Value("double", <<"1", ".", "5">>, <<>>), whole |-> J!Value("double", <<"1">>, <<>>), big |-> J!Value("double", <<"1", "e">>, <<>>),
   text |-> J!Value("string", <<"a", "\n", "\"">>, <<>>), nul |-> J!Value("string", <<"NUL">>, <<>>), cut |-> J!Value("string", <<"\\", "NUL", "a">>, <<>>)]
Atoms11 == [null |-> L!Null, true |-> L!Value("bool", <<"T">>, <<>>), false |-> L!Value("bool", <<"F">>, <<>>),
   one |-> L!Value("number", <<"1">>, <<>>), half |-> L!Value("number", <<"-", "1", ".", "2">>, <<>>), big |-> L!Value("number", <<"1", "1", "1">>, <<>>),
   nan |-> L!Value("number", <<"nan">>, <<>>), text |-> L!Value("string", <<"a", "\n", "/", "US", "LS">>, <<>>), b |-> L!Value("string", <<"b">>, <<>>)]
Grid(w, h) == {G!Point(x, y) : x \in 0..w, y \in 0..h}
MCShift == [k |-> 2, m |-> 4]
MCOrder == <<"\t", "\n", "\r", " ", "#", "'", "\"", "\\", "=", "*", "-", ".", "/", "0", "1", "2", "5", "7", "8", "9", "k", "?", "A", "F", "T", "a", "b">>
MCTyped == [search |-> [chars |-> {"a", "b"}, one |-> 6, two |-> 3],
            match |-> [chars |-> {"a", "b", "*", "?"}, one |-> 3, two |-> 4],
            number |-> [chars |-> {"-", "0", "1", "2", "5", "7", "8", "k"}, one |-> 5, two |-> 0],
            figures |-> [chars |-> {"0", "1", "9"}, one |-> 9, two |-> 0],
            config |-> [chars |-> {"a", "#", "/", "'", "\"", "\\", " ", "=", "\n"}, one |-> 5, two |-> 0],
            args |-> [chars |-> {<<"-", "a">>, <<"-", "a", "b">>, <<"-", "a", "c">>, <<"s", "=", "x">>,
                                 <<"-", "s", "=", "y">>, <<"t", "=", "7">>, <<"t", "=", "x">>, <<"-", "t">>, <<"x">>, <<"-", "-">>,
                                 <<"c","o","n","f","i","g","=","f">>, <<"-", "m","k","c","o","n","f">>}, one |-> 4, two |-> 0],
            base64 |-> [chars |-> {0, 97, 128, 255}, one |-> 7, two |-> 0],
            lines64 |-> [chars |-> {63, 64, 65}, one |-> 8, two |-> 0],
            digest |-> [chars |-> {0, 97}, one |-> 5, two |-> 5],
            crc |-> [chars |-> {0, 1, 128}, one |-> 4, two |-> 4],
            json |-> [chars |-> {<<"{">>, <<"}">>, <<"[">>, <<"]">>, <<",">>, <<":">>, <<" ">>, <<"T">>, <<"1">>, <<"\"", "a", "\"">>}, one |-> 7, two |-> 0],
            build |-> [chars |-> DOMAIN Atoms \cup {"[", "{", "]", "key"}, one |-> 4, two |-> 0],
            build11 |-> [chars |-> {"null", "true", "half", "big", "nan", "text", "[", "{", "]", "key"}, one |-> 4, two |-> 0],
            compare11 |-> [chars |-> {"null", "true", "false", "one", "nan", "b", "[", "{", "]"}, one |-> 2, two |-> 2],
            json11 |-> [chars |-> {<<"{">>, <<"}">>, <<"[">>, <<"]">>, <<",">>, <<":">>, <<" ">>, <<"T">>, <<"-">>, <<"0">>, <<"1">>, <<"\"", "a", "\"">>}, one |-> 6, two |-> 0],
            comment11 |-> [chars |-> {<<"[">>, <<"]">>, <<"T">>, <<"1">>, <<"\n">>, <<"/", "/">>, <<"/", "*">>, <<"*", "/">>, <<"\"", "/", "/", "\"">>}, one |-> 5, two |-> 0],
            multi11 |-> [chars |-> {<<"[">>, <<"]">>, <<"T">>, <<"1">>, <<" ">>, <<",">>}, one |-> 3, two |-> 2],
            escape11 |-> [chars |-> {"d83d", "de00", "0041", "b", "\n"}, one |-> 5, two |-> 0],
            clock |-> [chars |-> {-2, 0, 1, 2, 3, 4}, one |-> 6, two |-> 0],
            path |-> [chars |-> {"a", "/", "."}, one |-> 7, two |-> 1],
            region |-> [chars |-> Grid(3, 2), one |-> 4, two |-> 0],
            zone |-> [chars |-> Grid(5, 4), one |-> 2, two |-> 0],
            cross |-> [chars |-> Grid(2, 2), one |-> 2, two |-> 2],
            trail |-> [chars |-> {G!Point(0, 0), G!Point(1, 0), G!Point(2, 1), G!Point(0, 2), G!Point(1, 2)}, one |-> 4, two |-> 3]]
CrossTyped == [cross |-> MCTyped.cross]

Is(x) == subject = x

Occurrences(s, sub) == {i \in 1..(Len(s) + 1) : T!Occurs(s, sub, i)}
Pieces(s, sub) == T!Split(s, sub, 0)
SearchIsRight ==
    Is("search") =>
        /\ T!RFind(one, two) = T!Greatest(Occurrences(one, two))
        /\ T!Less(one, two) <=>
             \/ IsStrictPrefix(one, two)
             \/ \E i \in DOMAIN one \cap DOMAIN two :
                   /\ SubSeq(one, 1, i - 1) = SubSeq(two, 1, i - 1)
                   /\ T!Code(one[i]) < T!Code(two[i])
        /\ T!Greater(one, two) = T!Less(two, one)
        /\ two # <<>> =>
             LET joined == FlattenSeq([i \in DOMAIN Pieces(one, two) |-> Pieces(one, two)[i] \o <<"A">>])
                 changed == T!Replace(one, two, <<"A">>, 0)
             IN joined = IF one # <<>> /\ T!EndsWith(changed, <<"A">>) THEN changed ELSE
                         IF one = <<>> THEN <<>> ELSE changed \o <<"A">>
        /\ \A d \in {"l", "r", "b"} : T!strip(one, two, d) = T!Strip(one, two, d)
        /\ \A max \in {0, 1, 2} : two # <<>> => T!replace(one, two, <<"A">>, max) = T!Replace(one, two, <<"A">>, max)
        /\ LET x == T!Strip(one, two, "b")
               i == T!Find(one, x)
           IN IF x = <<>> THEN ToSet(one) \subseteq ToSet(two)
              ELSE /\ {Head(x), Last(x)} \cap ToSet(two) = {}
                   /\ ToSet(SubSeq(one, 1, i - 1) \o T!From(one, i + Len(x))) \subseteq ToSet(two)

Advance(at, c, s) ==
    IF c = "*" THEN {j \in 0..Len(s) : \E i \in at : i <= j}
    ELSE {i + 1 : i \in {i \in at : i < Len(s) /\ c \in {"?", s[i + 1]}}}
Glob(s, p) == Len(s) \in FoldLeft(LAMBDA at, c : Advance(at, c, s), {0}, p)
MatchIsGlob ==
    Is("match") =>
        /\ T!Match(one, two) => Glob(one, two)
        /\ Glob(one, two) /\ ~T!EndsWith(two, <<"*", "*">>) => T!Match(one, two)

Elements(s) == SelectSeq(T!Split(s, <<"/">>, 0), LAMBDA x : x \notin {<<>>, <<".">>})
Up == <<".", ".">>
Keep(rooted, kept, x) ==
    IF x # Up THEN Append(kept, x)
    ELSE IF kept # <<>> /\ Last(kept) # Up THEN Front(kept)
    ELSE IF rooted THEN kept ELSE Append(kept, x)
RefClean(s) ==
    LET v == FoldLeft(LAMBDA k, x : Keep(T!Rooted(s), k, x), <<>>, Elements(s))
        j == FoldLeft(LAMBDA t, x : IF t = <<>> THEN x ELSE t \o <<"/">> \o x, <<>>, v)
        r == (IF T!Rooted(s) THEN <<"/">> ELSE <<>>) \o j
    IN IF r = <<>> THEN <<".">> ELSE r
PathsAreClean ==
    Is("path") =>
        /\ T!Clean(one) = RefClean(one)
        /\ T!EndsWith(one, <<"/">>) \/ T!Join(T!Dir(one), T!Base(one)) = T!Clean(one)
Sign == {<<>>, <<"-">>}
Base(t) == IF t # <<>> /\ t[1] = "0" THEN 8 ELSE 10
Part(neg, digits, suffix) == [neg |-> neg, digits |-> digits, suffix |-> suffix]
\* The one way there is to divide what is typed, or none.
Parts ==
    {Part(neg, SubSeq(one, Len(neg) + 1, Len(neg) + n), suffix) :
        <<neg, n, suffix>> \in
          {<<neg, n, suffix>> \in Sign \X (0..Len(one)) \X {<<>>, <<"k">>, <<"m">>} :
             /\ Len(one) = Len(neg) + n + Len(suffix)
             /\ T!StartsWith(one, neg) /\ T!EndsWith(one, suffix)
             /\ n > 0 \/ one \in {<<>>, <<"k">>, <<"m">>}}}
Numerals == {p \in Parts : \A i \in DOMAIN p.digits : N!IsFigure(p.digits[i], Base(p.digits))}
Size(p) == N!Value(p.digits, Base(p.digits))
Scaled(p) == Size(p) * 2^(IF p.suffix = <<>> THEN 0 ELSE Shift[p.suffix[1]])
Means(p) == IF p.neg = <<>> THEN Scaled(p) ELSE -Scaled(p)
IsSigned(r, w, numerals) ==
    /\ numerals = {} => ~r.ok
    /\ \A p \in numerals : IF r.ok THEN r.val = Means(p) ELSE Means(p) \notin N!MinInt(w)..N!MaxInt(w)
    /\ r.ok => r.val \in N!MinInt(w)..N!MaxInt(w)
IsUnsigned(r, w, numerals) ==
    /\ numerals = {} => ~r.ok
    /\ \A p \in numerals :
          /\ Means(p) \in 0..N!MaxUint(w) => r.ok
          /\ r.ok /\ Size(p) <= N!MaxInt(Wide) => r.val = Means(p) % 2^w
\* errno left over from a call before: the largest and the least are refused.
IsStale(r, stale, numerals) ==
    stale.ok <=> r.ok /\ \A p \in numerals : p.suffix # <<>> \/ Means(p) \notin {N!MinInt(Wide), N!MaxInt(Wide)}
NumberIsRight(numerals) ==
    /\ IsSigned(N!to_int64(one, "0"), Wide, numerals)
    /\ IsSigned(N!to_int32(one, "0"), Narrow, numerals)
    /\ IsUnsigned(N!to_uint64(one, "0"), Wide, numerals)
    /\ IsUnsigned(N!to_uint32(one, "0"), Narrow, numerals)
    /\ IsStale(N!to_int64(one, "0"), N!to_int64(one, N!to_double("tiny", "0").errno), numerals)
FiguresComeBack(v) ==
    /\ N!u64toa(v) = one
    /\ Len(one) <= 6 => N!u32toa(v) = one
    /\ LET h == N!u32toh(v) IN N!Value(SubSeq(h, 3, Len(h)), 16) = v /\ (h[3] # "0" \/ v = 0)
NumbersAreRight ==
    /\ Is("number") => NumberIsRight(Numerals)
    /\ Is("figures") /\ one # <<>> /\ (one[1] # "0" \/ Len(one) = 1) => FiguresComeBack(N!Value(one, 10))

\* What is typed is how far the clock goes between two lines of the log.
LogAt(t, jump) == Clock!update(t, t.start + jump)
IsLogged(t, now) == t.buf = Clock!Local(now) /\ t.start = now
TimesAreRight ==
    Is("clock") =>
        IsLogged(FoldLeft(LogAt, Clock!reset(1), one), FoldLeft(+, 1, one))

Flag(type, val, help) == [type |-> type, value |-> val, help |-> help]
Flags0 == (<<"s">> :> Flag("string", <<>>, "s") @@ <<"t">> :> Flag("int32", 0, "t"))
Tuned == F!Set(F!Set(Flags0, <<"s">>, one), <<"t">>, 5)
Has(c) == Contains(one, c)
Quoted == Has("'") \/ Has("\"")
Marked == Has("#") \/ T!Find(one, F!Comment) # 0
Lost ==
    \/ Has("\n") \/ (Has("'") /\ Has("\""))
    \/ /\ one # <<>> /\ ~Quoted
       /\ (Marked \/ one[1] = " " \/ Last(one) \in {" ", "\\"})
ConfigComesBack ==
    Is("config") =>
        LET back == F!parse_config(Flags0, F!mkconf(Tuned, <<<<"s">>, <<"t">>>>)) = Tuned
        IN /\ back => ~Lost
           /\ ~Lost /\ ~(Quoted /\ Marked) => back

NoLines(t) == SelectSeq(t, LAMBDA c : c # C!End)
CodesComeBack ==
    /\ Is("base64") =>
         C!base64_decode(C!base64_encode(one)) = IF one = <<>> THEN C!Error ELSE one
    /\ Is("lines64") =>
         LET r == C!base64_decode(one) IN
         r # C!Error => C!base64_decode(NoLines(one)) = r /\ Len(C!base64_encode(r)) = Len(NoLines(one))
Twice == C!md5_update(C!md5_update(C!md5_init, one), two)
DigestsAreWhole ==
    Is("digest") =>
        LET all == FlattenSeq(C!md5_finish(Twice))
            n == Len(one) + Len(two)
        IN /\ C!md5_finish(Twice) = C!md5sum(one \o two)
           /\ Twice.hi * 2^LowBits + Twice.lo = n
           /\ Len(all) % Block = 0 /\ Len(all) - n \in 3..(Block + 2)
           /\ SubSeq(all, 1, n + 1) = one \o two \o <<128>>
           /\ SubSeq(all, Len(all) - 1, Len(all)) = <<8 * Twice.lo, Twice.hi>>
           /\ \A i \in (n + 2)..(Len(all) - 2) : all[i] = 0
BurstsAreSeen ==
    Is("crc") /\ Len(one) = Len(two) /\ one # two =>
        LET d == {i \in DOMAIN one : one[i] # two[i]} IN
        (\A i, j \in d : i - j \in -1..1) => C!crc16(one, 0) # C!crc16(two, 0)
ArgFlags == (<<"s">> :> Flag("string", <<>>, "s") @@ <<"t">> :> Flag("int32", 0, "t") @@ <<"a">> :> Flag("bool", FALSE, "a")
  @@ <<"b">> :> Flag("bool", FALSE, "b") @@ F!Config :> Flag("string", <<>>, ".") @@ F!Mkconf :> Flag("bool", FALSE, "."))
Files == <<"f">> :> <<"s", "=", "z", "\n", "b", "=", "1">>
Bad == {<<"-", "a", "c">>, <<"t", "=", "x">>, <<"-", "t">>, <<"-", "-">>, <<"-", "m","k","c","o","n","f">>}
Said(x) == ToSet(one) \cap x # {}
OfS(i) == IF i = 0 THEN <<>> ELSE <<Last(one[i])>>
LastS == OfS(SelectLastInSeq(one, LAMBDA x : x \in {<<"s", "=", "x">>, <<"-", "s", "=", "y">>}))
SaysLast(flags, configured) ==
    /\ flags[<<"a">>].value = Said({<<"-", "a">>, <<"-", "a", "b">>})
    /\ flags[<<"b">>].value = (configured \/ Said({<<"-", "a", "b">>}))
    /\ flags[<<"t">>].value = IF Said({<<"t", "=", "7">>}) THEN 7 ELSE 0
    /\ flags[<<"s">>].value = IF configured THEN <<"z">> ELSE LastS
IsSaid(r) ==
    /\ r.flags = F!NoFlags <=> Said(Bad)
    /\ r.flags # F!NoFlags =>
        /\ r.rest = SelectSeq(one, LAMBDA x : x = <<"x">>)
        /\ SaysLast(r.flags, Said({<<"c","o","n","f","i","g","=","f">>}))
SaidLast == Is("args") => IsSaid(F!init(ArgFlags, one, Files))

Bad0(s) == [s EXCEPT !.want = "bad"]
Push(s, c, want) == [s EXCEPT !.stack = Append(@, c), !.want = want, !.num = FALSE]
Pop(s) == [stack |-> Front(s.stack), want |-> IF Len(s.stack) = 1 THEN "done" ELSE "after", num |-> FALSE]
Step(s, c) ==
    LET top == IF s.stack = <<>> THEN "" ELSE Last(s.stack)
        value == s.want \in {"element", "value"}
    IN CASE c = <<" ">> -> [s EXCEPT !.num = FALSE]
         [] c = <<"[">> /\ (value \/ s.want = "start") -> Push(s, "[", "element")
         [] c = <<"{">> /\ (value \/ s.want = "start") -> Push(s, "{", "key")
         [] c = <<"]">> /\ top = "[" /\ s.want \in {"element", "after"} -> Pop(s)
         [] c = <<"}">> /\ top = "{" /\ s.want \in {"key", "after"} -> Pop(s)
         [] c = <<",">> /\ s.want = "after" -> [s EXCEPT !.want = IF top = "[" THEN "element" ELSE "key"]
         [] c = <<":">> /\ s.want = "colon" -> [s EXCEPT !.want = "value"]
         [] Len(c) = 3 /\ s.want = "key" -> [s EXCEPT !.want = "colon"]
         [] c = <<"1">> /\ s.want = "after" /\ s.num -> s
         [] (Len(c) = 3 \/ c \in {<<"T">>, <<"1">>}) /\ value -> [s EXCEPT !.want = "after", !.num = c = <<"1">>]
         [] OTHER -> Bad0(s)
Loosely(tokens) == FoldLeft(Step, [stack |-> <<>>, want |-> "start", num |-> FALSE], tokens)
\* used is what the keys took of the memory for them.
IsRead(t, r, accepted) ==
    /\ r.ok = accepted
    /\ r.ok => ~r.moved /\ ~J!parse_from(t, r.used).moved
JsonIsRead ==
    Is("json") =>
        LET t == FlattenSeq(one) IN IsRead(t, J!parse_from(t, 0), Loosely(one).want = "done")

(* A value is built by a stack machine, which either library's operators    *)
(* drive: lib.push and lib.add say which.                                   *)
Grow(top, x, lib) ==
    CASE lib = "co" /\ top.v.t = "array" -> J!push_back(top.v, x)
      [] lib = "co" -> J!add_member(top.v, top.key, x)
      [] top.v.t = "array" -> [top.v EXCEPT !.c = Append(@, x)]
      [] OTHER -> [top.v EXCEPT !.c = L!Put(@, top.key, x)]
Attach(stack, x, lib) ==
    IF stack = <<>> THEN stack
    ELSE Append(Front(stack), [Last(stack) EXCEPT !.v = Grow(Last(stack), x, lib)])
Close(stack, lib) == Attach(Front(stack), Last(stack).v, lib)
Empty(type, lib) == [v |-> IF lib = "co" THEN J!Holder(J!Null, type) ELSE L!Value(type, <<>>, <<>>), key |-> <<"a">>]
Build(stack, op, lib) ==
    CASE op = "[" -> Append(stack, Empty("array", lib))
      [] op = "{" -> Append(stack, Empty("object", lib))
      [] op = "]" -> IF Len(stack) > 1 THEN Close(stack, lib) ELSE stack
      [] op = "key" -> IF stack = <<>> THEN stack ELSE [stack EXCEPT ![Len(stack)].key = <<"\"">>]
      [] OTHER -> Attach(stack, IF lib = "co" THEN Atoms[op] ELSE Atoms11[op], lib)
RECURSIVE Whole(_, _)
Whole(stack, lib) == IF Len(stack) = 1 THEN stack[1].v ELSE Whole(Close(stack, lib), lib)
Built(ops, lib) == FoldLeft(LAMBDA stack, op : Build(stack, op, lib), <<>>, ops)
RECURSIVE Plain(_)
Plain(v) ==
    /\ ~Contains(v.k, "\"") /\ ~Contains(v.s, "NUL")
    /\ v.t = "double" => Contains(v.s, ".")
    /\ \A i \in DOMAIN v.c : Plain(v.c[i])
\* A value, what it reads as when printed, and when printed pretty.
ComesBack(v, back, shown) ==
    /\ (back.ok /\ back.v = v) <=> Plain(v)
    /\ shown.ok = back.ok /\ (shown.ok => shown.v = back.v)
\* obj["a"] = half
IsAssigned(v, w) ==
    /\ J!find(w, <<"a">>) = Atoms["half"] /\ J!find(w, <<"\"">>) = J!find(v, <<"\"">>)
    /\ Len(w.c) - Len(v.c) = IF \E i \in DOMAIN v.c : v.c[i].k = <<"a">> THEN 0 ELSE 1
IsBuilt(v) ==
    /\ ComesBack(v, J!parse_from(J!str(v), 0), J!parse_from(J!pretty(v, 4, 4), 0))
    /\ v.t = "object" => IsAssigned(v, J!assign(v, <<"a">>, Atoms["half"]))
OrNone(stack, lib) == IF stack = <<>> THEN {} ELSE {Whole(stack, lib)}
JsonComesBack == Is("build") => \A v \in OrNone(Built(one, "co"), "co") : IsBuilt(v)

-----------------------------------------------------------------------------
RECURSIVE Depth(_)
Depth(v) == IF v.c = <<>> THEN 0 ELSE 1 + T!Greatest({Depth(v.c[i]) : i \in DOMAIN v.c})
RECURSIVE Has11(_, _)
Has11(v, s) == v.s = s \/ \E i \in DOMAIN v.c : Has11(v.c[i], s)
ComesBack11(v, back) ==
    (back.ok /\ back.v = v) <=> (Depth(v) <= MaxDepth /\ ~Has11(v, <<"nan">>))
Json11ComesBack ==
    Is("build11") =>
        \A v \in OrNone(Built(one, "json11"), "json11") : ComesBack11(v, L!parse(L!dump(v), "STANDARD"))
Json11IsOrdered ==
    Is("compare11") =>
        LET v == Whole(Built(<<"[">> \o one, "json11"), "json11")
            w == Whole(Built(<<"[">> \o two, "json11"), "json11")
            nan == Has11(v, <<"nan">>) \/ Has11(w, <<"nan">>)
        IN /\ ~(L!LessThan(v, w) /\ L!LessThan(w, v))
           /\ L!Equal(v, w) => ~L!LessThan(v, w)
           /\ ~nan => L!Equal(v, w) \/ L!LessThan(v, w) \/ L!LessThan(w, v)
           /\ L!Equal(v, v) <=> ~Has11(v, <<"nan">>)

(* The texts json11 accepts, token by token.                                *)
Number11(s, c) ==
    CASE s.num = "" -> [s EXCEPT !.num = IF c = <<"-">> THEN "sign" ELSE IF c = <<"0">> THEN "zero" ELSE "int"]
      [] s.num = "sign" /\ c # <<"-">> -> [s EXCEPT !.num = IF c = <<"0">> THEN "zero" ELSE "int"]
      [] s.num = "int" /\ c # <<"-">> -> s
      [] OTHER -> Bad0(s)
Strict(s, c) ==
    LET top == IF s.stack = <<>> THEN "" ELSE Last(s.stack)
        value == s.want \in {"start", "element", "item", "value"}
        after == [s EXCEPT !.want = IF s.stack = <<>> THEN "done" ELSE "after", !.num = ""]
        open(k, want) == [stack |-> Append(s.stack, k), want |-> want, num |-> ""]
        close == [stack |-> Front(s.stack), want |-> IF Len(s.stack) = 1 THEN "done" ELSE "after", num |-> ""]
    IN IF s.num # "" /\ c \in {<<"-">>, <<"0">>, <<"1">>} THEN Number11(s, c)
       ELSE IF s.num = "sign" THEN Bad0(s)
       ELSE CASE c = <<" ">> -> [s EXCEPT !.num = ""]
         [] c = <<"[">> /\ value -> open("[", "element")
         [] c = <<"{">> /\ value -> open("{", "key")
         [] c = <<"]">> /\ top = "[" /\ s.want \in {"element", "after"} -> close
         [] c = <<"}">> /\ top = "{" /\ s.want \in {"key", "after"} -> close
         [] c = <<",">> /\ s.want = "after" -> [s EXCEPT !.want = IF top = "[" THEN "item" ELSE "name", !.num = ""]
         [] c = <<":">> /\ s.want = "colon" -> [s EXCEPT !.want = "value"]
         [] Len(c) = 3 /\ s.want \in {"key", "name"} -> [s EXCEPT !.want = "colon"]
         [] (Len(c) = 3 \/ c = <<"T">>) /\ value -> after
         [] c \in {<<"-">>, <<"0">>, <<"1">>} /\ value -> Number11(after, c)
         [] OTHER -> Bad0(s)
Strictly(tokens) == FoldLeft(Strict, [stack |-> <<>>, want |-> "start", num |-> ""], tokens)
Json11IsRead ==
    Is("json11") =>
        LET s == Strictly(one) IN
        L!parse(FlattenSeq(one), "STANDARD").ok = (s.want = "done" /\ s.num # "sign")

(* What is left of a text when its comments are taken away first.           *)
Skip(s, c) ==
    LET put == [s EXCEPT !.out = Append(@, c)]
        Go(mode) == [s EXCEPT !.in = mode]
    IN CASE s.in = "text" -> IF c = "/" THEN Go("slash") ELSE IF c = "\"" THEN [put EXCEPT !.in = "string"] ELSE put
         [] s.in = "string" -> IF c = "\"" THEN [put EXCEPT !.in = "text"] ELSE put
         [] s.in = "slash" -> Go(IF c = "/" THEN "line" ELSE IF c = "*" THEN "block" ELSE "bad")
         [] s.in = "line" -> IF c = "\n" THEN [put EXCEPT !.in = "text"] ELSE s
         [] s.in \in {"block", "star"} ->
               IF c = "*" THEN Go("star")
               ELSE IF c = "/" /\ s.in = "star" THEN [in |-> "text", out |-> Append(s.out, " ")] ELSE Go("block")
         [] OTHER -> s
CommentsAreSkipped ==
    Is("comment11") =>
        LET t == FlattenSeq(one)
            s == FoldLeft(Skip, [in |-> "text", out |-> <<>>], t) IN
        L!parse(t, "COMMENTS").ok
            = (s.in \in {"text", "line"} /\ L!parse(s.out, "STANDARD").ok)

(* A stream is read again from where parse_multi stopped.                   *)
\* r is what t reads as, head the same of what it says is read of t, all
\* and more what t, or a blank, reads as with more text behind it.
ReadOn(r, head, all, more) ==
    /\ head.ok /\ head.vec = IF r.ok THEN r.vec ELSE Front(r.vec)
    /\ r.ok /\ ToSet(two) \ {<<" ">>} # {} => all.vec = r.vec \o more.vec /\ all.ok = more.ok
ReadMany(t, u, r) ==
    ReadOn(r, L!parse_multi(SubSeq(t, 1, r.stop - 1), "STANDARD"),
           L!parse_multi(t \o u, "STANDARD"), L!parse_multi(u, "STANDARD"))
ReadFirst(t, u) == ReadMany(t, u, L!parse_multi(t, "STANDARD"))
ManyAreRead == Is("multi11") => ReadFirst(FlattenSeq(one), <<" ">> \o FlattenSeq(two))

Surrogates ==
    FlattenSeq([i \in DOMAIN one |->
        IF i < Len(one) /\ one[i] = "d83d" /\ one[i + 1] = "de00" THEN <<"U+1f600">>
        ELSE IF i > 1 /\ one[i] = "de00" /\ one[i - 1] = "d83d" THEN <<>>
        ELSE IF one[i] \in DOMAIN L!Codes THEN <<L!Codes[one[i]]>> ELSE <<one[i]>>])
PairsAreJoined ==
    Is("escape11") =>
        LET text == FlattenSeq([i \in DOMAIN one |->
                        IF one[i] \in DOMAIN L!Codes THEN <<"\\", "u", one[i]>>
                        ELSE IF one[i] = "\n" THEN <<"\\", "n">> ELSE <<one[i]>>])
        IN L!parse(<<"\"">> \o text \o <<"\"">>, "STANDARD").v.s = Surrogates

-----------------------------------------------------------------------------
(* A polygon is a fan of triangles from its first vertex: a point is inside *)
(* when an odd number of them holds it.                                     *)
Turn(a, b, p) == G!Side(p, a, b)
Holds(t, p) ==
    LET turns == {Turn(t[1], t[2], p), Turn(t[2], t[3], p), Turn(t[3], t[1], p)}
    IN (\A n \in turns : n > 0) \/ (\A n \in turns : n < 0)
Triangle(i) == <<one[1], one[i], one[i + 1]>>
Fan == {Triangle(i) : i \in 2..(Len(one) - 1)}
Sides(t) == {<<t[1], t[2]>>, <<t[2], t[3]>>, <<t[3], t[1]>>}
IsOn(p, ab) == Turn(ab[1], ab[2], p) = 0 /\ G!BoxesMeet(p, p, ab[1], ab[2])
\* An edge that leads from its end to the right passes less than a pixel to
\* the right of p: the division cuts off what p is short of it.
Grazed(p) ==
    \E i \in DOMAIN one :
        LET a == one[i]
            b == one[IF i = 1 THEN Len(one) ELSE i - 1]
            far == G!Magnitude(b.y - a.y)
            rise == IF b.y > a.y THEN p.y - a.y ELSE a.y - p.y
            short == (a.x - p.x) * far + (b.x - a.x) * rise
        IN rise \in 0..far /\ b.x > a.x /\ short > 0 /\ short < far
RegionsAreRight ==
    /\ Is("region") /\ Len(one) > 2 =>
         \A p \in Grid(3, 2) :
            \/ \E ab \in UNION {Sides(t) : t \in Fan} : IsOn(p, ab)
            \/ Grazed(p)
            \/ G!judge_out_polygon(p, one) <=> Cardinality({i \in 2..(Len(one) - 1) : Holds(Triangle(i), p)}) % 2 = 1
    /\ Is("zone") /\ Len(one) = 2 =>
         \A p \in Grid(5, 4) :
            LET Between(v, m, n) == G!Lesser(m, n) <= v /\ v < G!Greater(m, n) IN
            G!judge_out_rectangle(p, one) <=>
               Between(p.x, one[1].x + GAP, one[2].x - GAP) /\ Between(p.y, one[1].y + GAP, one[2].y - GAP)

\* ab and cd have a point in common: where the lines meet is on both, or an
\* end of one is on the other.
Meet(a, b, c, d) ==
    LET D == (b.x - a.x) * (d.y - c.y) - (b.y - a.y) * (d.x - c.x)
        s == (c.x - a.x) * (d.y - c.y) - (c.y - a.y) * (d.x - c.x)
        t == (c.x - a.x) * (b.y - a.y) - (c.y - a.y) * (b.x - a.x)
        In(n) == IF D > 0 THEN n \in 0..D ELSE -n \in 0..(-D)
    IN IF D # 0 THEN In(s) /\ In(t)
       ELSE IsOn(a, <<c, d>>) \/ IsOn(b, <<c, d>>) \/ IsOn(c, <<a, b>>) \/ IsOn(d, <<a, b>>)
Crosses == G!cross_line(one[1], one[2], two[1], two[2])
CrossingsAreSeen ==
    /\ Is("cross") /\ Len(one) = 2 /\ Len(two) = 2 =>
         /\ Meet(one[1], one[2], two[1], two[2]) => TRUE \in Crosses
         /\ TRUE \in Crosses =>
              \E p, q \in {two[1], two[2]} : Turn(one[1], one[2], p) >= 0 /\ Turn(one[1], one[2], q) <= 0
    /\ Is("trail") /\ Len(one) > 1 /\ Len(two) > 1 =>
         LET whole == G!judge_out_broken_line(one, two)
             Piece(i) == G!judge_out_line(one, <<two[i], two[i + 1]>>)
             parts == 1..(Len(two) - 1)
         IN /\ TRUE \in whole <=> \E i \in parts : TRUE \in Piece(i)
            /\ \A i \in parts, k \in {Len(one)} \cup {n \in 1..Len(one) : n % SEP = 1} :
                  k > 1 /\ Meet(one[1], one[k], two[i], two[i + 1]) => TRUE \in whole

-----------------------------------------------------------------------------
\* A text that is refused is not typed on, but for one character.
CanGoOn ==
    /\ Is("json") /\ one # <<>> => Loosely(Front(one)).want # "bad"
    /\ Is("json11") /\ one # <<>> => Strictly(Front(one)).want # "bad"

Init == subject \in DOMAIN Typed /\ one = <<>> /\ two = <<>>
TypeOne(t) ==
    /\ two = <<>> /\ Len(one) < t.one /\ CanGoOn
    /\ \E c \in t.chars : one' = Append(one, c)
    /\ UNCHANGED <<subject, two>>
TypeTwo(t) ==
    /\ Len(two) < t.two
    /\ \E c \in t.chars : two' = Append(two, c)
    /\ UNCHANGED <<subject, one>>
Next == \E t \in {Typed[subject]} : TypeOne(t) \/ TypeTwo(t)
Spec == Init /\ [][Next]_<<subject, one, two>>

-----------------------------------------------------------------------------
(* Searching a text (fastring.cc, str.cc): what is found from the right is  *)
(* the last occurrence although the search jumps; '<' is the dictionary's   *)
(* order; split and replace cut at the same places; match is the glob it is *)
(* said to be, except that two stars at the end want a character; replace   *)
(* and strip in place do what the functions of the same names do; a cleaned *)
(* path is the shortest one with its meaning, and Dir and Base make it up.  *)
(* A number read is the number its text says, in its width or refused       *)
(* (str.cc), except where a size past the largest signed one passes through *)
(* it, and where errno is left over from another call; a number written     *)
(* (fast.cc) reads as itself while its digits fit the table.                *)
(* base64_decode gives what was encoded, whatever ends of line there are;   *)
(* md5 of a message in two parts is md5 of the message, whatever waits in   *)
(* the buffer between them, and is padded to whole blocks with the bits     *)
(* counted in both parts of the counter; crc16 tells apart two messages     *)
(* that differ in two bytes side by side.  The time a log line begins with  *)
(* is the time of day, however far the clock went, or was set (log.cc).     *)
TextsAreRight ==
    /\ SearchIsRight /\ MatchIsGlob /\ PathsAreClean /\ NumbersAreRight
    /\ CodesComeBack /\ DigestsAreWhole /\ BurstsAreSeen /\ TimesAreRight

(* The config file that --mkconf writes gives the flags it was written for, *)
(* unless a value holds what the file cannot say (flag.cc: both quotation   *)
(* marks, an end of line, or a comment, blank or backslash that is not      *)
(* quoted); the last word on a flag wins, and the config file has it.       *)
FlagsAreRight == ConfigComesBack /\ SaidLast

(* Json, both of them: the texts that are accepted (json.cc: a comma before *)
(* the end allowed; json11.cpp: strictly, comments where asked for); the    *)
(* keys never move while values point to them; a value printed and parsed   *)
(* is the same value exactly when no key wants an escape, no double is      *)
(* whole and no string has a 0 (json.cc), when it is no deeper than         *)
(* max_depth and finite (json11.cpp); the order of values is total but for  *)
(* the number that is none; a stream can be read on from where              *)
(* parse_multi stopped; two halves of a character are joined.               *)
JsonIsRight ==
    /\ JsonIsRead /\ JsonComesBack
    /\ Json11ComesBack /\ Json11IsOrdered /\ Json11IsRead
    /\ CommentsAreSkipped /\ ManyAreRead /\ PairsAreJoined

(* A point is in a polygon of judge.cpp exactly when it is inside, unless   *)
(* an edge that leans to the right passes within a pixel of it, and in a    *)
(* rectangle when it is GAP inside, from the corners as they are named; a   *)
(* trail that meets a line may be told so, a broken line is its pieces, and *)
(* what is on one side of the trail's chord is never crossed.               *)
GeometryIsRight == RegionsAreRight /\ CrossingsAreSeen

(* cross_line says whether two segments meet (judge.cpp:57).                *)
CrossLineIsMeeting ==
    Is("cross") /\ Len(one) = 2 /\ Len(two) = 2 =>
        Crosses = {Meet(one[1], one[2], two[1], two[2])}
=============================================================================
