------------------------------- MODULE Flags -------------------------------
(* The flags of base/flag.cc: set from the command line and from a config   *)
(* file, and the config file that --mkconf writes.  The flags are a         *)
(* function from names (texts) to records of type, value and help.          *)
(* A run that ends in exit(-1) gives NoFlags.                               *)
LOCAL INSTANCE Integers
LOCAL INSTANCE Sequences
LOCAL INSTANCE SequencesExt
LOCAL INSTANCE FiniteSetsExt

CONSTANTS Order, Wide, Narrow, Shift, GroupDigits

LOCAL INSTANCE Texts
Num == INSTANCE Numbers

NoFlags == <<>>
Inf(p, s) == IF p = npos THEN Len(s) + 1 ELSE p   \* npos is the largest there
Hyphens == <<"-">>
Dots == <<".", "c", "o", "n", "f">>
Blank == <<" ", "\t">>
Spaces == Blank \o <<"\r", "\n">>
Quotes == {"'", "\""}

Conversion(type, v) ==
    CASE type = "string" -> [ok |-> TRUE, val |-> v]
      [] type = "bool" -> Num!to_bool(v)
      [] type = "int32" -> Num!to_int32(v, "0")
      [] type = "uint32" -> Num!to_uint32(v, "0")
      [] type = "int64" -> Num!to_int64(v, "0")
      [] type = "uint64" -> Num!to_uint64(v, "0")
flag_get_value(flag) ==
    CASE flag.type = "string" -> flag.value
      [] flag.type = "bool" -> IF flag.value THEN <<"t","r","u","e">> ELSE <<"f","a","l","s","e">>
      [] OTHER -> Num!i64toa(flag.value)

Set(flags, name, val) == [flags EXCEPT ![name].value = val]
Converted(flags, name, c) == IF c.ok THEN Set(flags, name, c.val) ELSE NoFlags
set_flag_value(flags, name, value) ==
    IF name \notin DOMAIN flags THEN NoFlags
    ELSE Converted(flags, name, Conversion(flags[name].type, value))

IsBool(flags, name) == name \in DOMAIN flags /\ flags[name].type = "bool"
(* -abc is the flag abc, or the flags a, b and c.                           *)
set_bool_flags(flags, name) ==
    IF IsBool(flags, name) THEN Set(flags, name, TRUE)
    ELSE IF name \in DOMAIN flags \/ Len(name) = 1 THEN NoFlags
    ELSE IF \E i \in DOMAIN name : ~IsBool(flags, <<name[i]>>) THEN NoFlags
    ELSE [f \in DOMAIN flags |->
            IF Len(f) = 1 /\ Contains(name, f[1]) THEN [flags[f] EXCEPT !.value = TRUE]
            ELSE flags[f]]

-----------------------------------------------------------------------------
(* One argument after the other; an argument without '-' and '=' is kept.   *)
\* bp is where the hyphens end, ep where the '=' is, or past the end.
TakeArgument(r, arg, bp, ep) ==
    IF r.flags = NoFlags THEN r
    ELSE IF ep <= bp THEN [r EXCEPT !.flags = NoFlags]
    ELSE IF ep <= Len(arg)
    THEN [r EXCEPT !.flags = set_flag_value(@, SubSeq(arg, bp, ep - 1), From(arg, ep + 1))]
    ELSE IF bp = 1 THEN [r EXCEPT !.rest = Append(@, arg)]
    ELSE [r EXCEPT !.flags = set_bool_flags(@, From(arg, bp))]
Argument(r, arg) ==
    TakeArgument(r, arg, Inf(FindFirstNotOf(arg, Hyphens), arg), Inf(Find(arg, <<"=">>), arg))

(* A single argument may name the config file, or ask for help (and exit).  *)
Config == <<"c", "o", "n", "f", "i", "g">>
Help == <<"-", "-", "h", "e", "l", "p">>
Mkconf == <<"m", "k", "c", "o", "n", "f">>
IsConfig(arg, files) ==
    /\ ~StartsWith(arg, Hyphens) /\ Find(arg, <<"=">>) = npos
    /\ EndsWith(arg, Dots) \/ EndsWith(arg, Config)
    /\ arg \in files
parse_command_line_flags(flags, args, files) ==
    IF Len(args) = 1 /\ (args[1] = Help \/ FindFirstNotOf(args[1], Hyphens) = npos)
    THEN [flags |-> NoFlags, rest |-> <<>>]
    ELSE IF Len(args) = 1 /\ IsConfig(args[1], files)
    THEN [flags |-> Set(flags, Config, args[1]), rest |-> <<>>]
    ELSE FoldLeft(Argument, [flags |-> flags, rest |-> <<>>], args)

-----------------------------------------------------------------------------
(* Where sub is in s, outside quotation marks.  A mark that is not closed   *)
(* is no mark.  x and y are the marks that are open.                        *)
Toggle(q, c) ==
    IF c \notin Quotes THEN q
    ELSE IF c = q.x THEN [x |-> "", y |-> ""]
    ELSE IF c = q.y THEN [q EXCEPT !.y = ""]
    ELSE IF q.x = "" THEN [q EXCEPT !.x = c] ELSE [q EXCEPT !.y = c]
RECURSIVE NotInMarks(_, _, _, _)
CloseOf(s, after, q) == Least({j \in after..Len(s) : s[j] \in Quotes /\ s[j] \in {q.x, q.y}})
AfterMarks(s, sub, p, close) ==
    IF close = npos THEN p ELSE NotInMarks(s, sub, close + 1, [x |-> "", y |-> ""])
OpenAt(s, sub, p, q) ==
    IF q.x = "" THEN p ELSE AfterMarks(s, sub, p, CloseOf(s, p + Len(sub), q))
InMarks(s, sub, i, q, p) ==
    IF p = npos THEN npos ELSE OpenAt(s, sub, p, FoldLeft(Toggle, q, SubSeq(s, i, p)))
NotInMarks(s, sub, i, q) == InMarks(s, sub, i, q, FindAt(s, sub, i))
find_not_in_qm(s, sub) == NotInMarks(s, sub, 1, [x |-> "", y |-> ""])

(* A line, with those it continues on after a backslash: [text, next].      *)
RECURSIVE getline(_, _)
Joined(s, more) == [more EXCEPT !.text = Strip(s, Spaces \o <<"\\">>, "r") \o @]
Stripped(lines, n, s) ==
    IF s = <<>> \/ Last(s) # "\\" THEN [text |-> s, next |-> n + 1]
    ELSE Joined(s, getline(lines, n + 1))
getline(lines, n) ==
    IF n > Len(lines) THEN [text |-> <<>>, next |-> n]
    ELSE Stripped(lines, n, Strip(Replace(lines[n], <<"W">>, <<" ">>, 0), Spaces, "b"))

Comment == <<"/", "/">>
CutAt(s, p) == IF p > Len(s) THEN s ELSE Strip(SubSeq(s, 1, p - 1), Blank, "r")
Uncommented(s) ==
    CutAt(s, Min({Inf(find_not_in_qm(s, <<"#">>), s), Inf(find_not_in_qm(s, Comment), s)}))
\* A mutant: every mark at the ends goes, whether there is a pair or not.
UnquotedAll(v) == IF v = <<>> THEN v ELSE Strip(v, <<"'", "\"">>, "b")
Unquoted(v) ==
    IF Len(v) > 1 /\ v[1] \in Quotes /\ v[1] = Last(v) THEN Strip(v, <<v[1]>>, "b") ELSE v
Assign(flags, s, p) ==
    IF p \in {npos, 1} THEN NoFlags
    ELSE set_flag_value(flags, Strip(SubSeq(s, 1, p - 1), Blank, "r"),
                        Unquoted(Strip(From(s, p + 1), Blank, "l")))
AssignIn(flags, s) == Assign(flags, s, find_not_in_qm(s, <<"=">>))
Line(flags, text) ==
    IF text = <<>> \/ text[1] = "#" \/ StartsWith(text, Comment) THEN flags
    ELSE AssignIn(flags, Uncommented(text))
RECURSIVE Lines(_, _, _)
LineThenRest(flags, lines, l) == Lines(Line(flags, l.text), lines, l.next)
Lines(flags, lines, n) ==
    IF n > Len(lines) \/ flags = NoFlags THEN flags
    ELSE LineThenRest(flags, lines, getline(lines, n))
parse_config(flags, data) ==
    LET sep == IF Find(data, <<"\n">>) = npos /\ Find(data, <<"\r">>) # npos THEN "\r" ELSE "\n"
    IN Lines(flags, Split(data, <<sep>>, 0), 1)

(* The text that --mkconf writes for the flags it does not hide.            *)
format_str(s) ==
    LET double == Find(s, <<"\"">>) # npos
        single == Find(s, <<"'">>) # npos
    IN IF ~double /\ ~single THEN s
       ELSE IF ~double THEN <<"\"">> \o s \o <<"\"">>
       ELSE IF ~single THEN <<"'">> \o s \o <<"'">>
       ELSE <<"'">> \o Replace(s, <<"'">>, <<"\\", "'">>, 0) \o <<"'">>
mkconf(flags, names) ==
    LET v(f) == IF flags[f].type = "string" THEN format_str(flag_get_value(flags[f]))
                ELSE flag_get_value(flags[f])
        Entry(t, f) ==
            IF flags[f].help \in {"", "."} THEN t
            ELSE t \o <<"#", " ", "\n">> \o f \o <<" ", "=", " ">> \o v(f) \o <<"\n", "\n">>
    IN FoldLeft(Entry, <<"#", "\n", "\n">>, names) \o <<"\n">>

(* flag::init: the command line, then the config file over it.  --mkconf    *)
(* writes the file and exits.                                               *)
Configured(r, mkconf_set, file, files) ==
    IF ~mkconf_set /\ file = <<>> THEN r
    ELSE IF mkconf_set \/ file \notin DOMAIN files THEN [r EXCEPT !.flags = NoFlags]
    ELSE [r EXCEPT !.flags = parse_config(@, files[file])]
Parsed(r, files) ==
    IF r.flags = NoFlags THEN r
    ELSE Configured(r, r.flags[Mkconf].value, r.flags[Config].value, files)
init(flags, args, files) == Parsed(parse_command_line_flags(flags, args, DOMAIN files), files)
==========================================================================
