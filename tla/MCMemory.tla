------------------------------ MODULE MCMemory ------------------------------
(* The memory of the library: one part per behaviour, the parts share       *)
(* nothing but the variables that name a heap, a fault and its cause.       *)
EXTENDS Integers, TLC

CONSTANTS Values, Names, FirstCap, MaxBlocks, MaxSize, MaxDone,
          Strs, Header, MaxChars,
          Streams, Texts, Room, MaxBytes, MaxBuffers,
          Writers, Paths, Caps, Sizes, Word, MaxWritten, MaxOpens,
          Maps, Keys, Vals

VARIABLES part, heap, val, cause, done, str, busy, raced, fault,
          buf, stm, held, gone, lost, disk, wr, log, home, crashed, kv, ki, kl, cap, got, tree, did

Owner == [s \in Strs |-> IF s = 3 THEN 2 ELSE 1]
Capacity == [m \in Maps |-> 2 * m - 1]
Text == [k \in Keys |-> (k % 2) + 1]

PathTexts ==
    {<<>>, <<"a">>, <<"/", "a">>, <<"a", "/">>, <<"b">>, <<"a", "/", "b">>,
     <<"a", "/", "/", "b">>, <<"a", "/", "b", "/", "a">>}
Targets == {<<"a">>, <<"b">>}
MaxLinks == 3
Symmetry == Permutations(Paths)

J == INSTANCE JsonMemory
S == INSTANCE Strings
T == INSTANCE Streams
F == INSTANCE FileStream
L == INSTANCE LruMap
P == INSTANCE FileTree

Init ==
    /\ part \in {"json", "strings", "streams", "files", "paths", "lru"}
    /\ J!JsonInit /\ S!StrInit /\ T!StreamInit /\ L!LruInit
    /\ P!TreeInit /\ (part # "paths" => tree[<<"a">>].kind = "dir")
    /\ F!FileInit(IF part = "files" THEN {1} ELSE {})
strVars == <<str, busy, raced>>
streamVars == <<buf, stm, held, gone, lost>>
fileVars == <<disk, wr, log, home, crashed>>
lruVars == <<kv, ki, kl, cap, got>>
treeVars == <<tree, did>>
Json == part = "json" /\ J!JsonNext /\ UNCHANGED <<fault, strVars, streamVars, fileVars, lruVars, treeVars>>
String == part = "strings" /\ S!StrNext /\ UNCHANGED <<val, cause, done, streamVars, fileVars, lruVars, treeVars>>
Stream == part = "streams" /\ T!StreamNext /\ UNCHANGED <<heap, val, done, strVars, fileVars, lruVars, treeVars>>
File == part = "files" /\ F!FileNext /\ UNCHANGED <<heap, val, cause, done, fault, strVars, streamVars, lruVars, treeVars>>
Lru == part = "lru" /\ L!LruNext /\ UNCHANGED <<heap, val, cause, done, fault, strVars, streamVars, fileVars, treeVars>>
PathCall == part = "paths" /\ P!TreeNext /\ UNCHANGED <<heap, val, cause, done, fault, strVars, streamVars, fileVars, lruVars>>
Next == UNCHANGED part /\ (Json \/ String \/ Stream \/ File \/ Lru \/ PathCall)
vars == <<part, heap, val, cause, done, fault, strVars, streamVars, fileVars, lruVars, treeVars>>
Spec == Init /\ [][Next]_vars

\* A shared value of json.h counts who refers to it through every copy, move,
\* assignment and parse, nothing refers to freed memory before one of the three
\* operations that break it, and only what is on a cycle is never freed.
JsonCountsAreRight == part = "json" => J!JsonCountsAreRight
\* A fastring's block lives as long as a string that shares it, unless two
\* threads meet in _Reserve; a fastream's buffer is one owner's, through
\* growth, moves and magicstream::str (fastring.cc, fastream.h).
BuffersAreRight ==
    /\ part = "strings" => S!StringsAreRight
    /\ part = "streams" => T!StreamsAreRight
\* What is given to a fstream reaches the file that is open, in order, whatever
\* the buffer holds and the system takes; mkdir, remove and symlink leave the
\* tree as they say (fs.h, unix/fs.cc).
FilesAreRight ==
    /\ part = "files" => F!FilesAreRight
    /\ part = "paths" => P!TreeIsRight
\* The list, the values and the kept iterators of an LruMap are together the
\* entries that were used last, in order (lru_map.h); dtoa gives the text of the
\* number it was asked for, cached or not (fast.cc).
TextIsTheNumbers == got = L!Nothing \/ got.s = Text[got.k]
LruIsRecency == L!R!RecencySpec /\ []TextIsTheNumbers
==============================================================================
