------------------------------ MODULE FileStream ------------------------------
(* base/fs.h and base/unix/fs.cc: a buffered writer, and the file it opens,  *)
(* closes and writes.  The bytes are numbered as they are given to a stream. *)
EXTENDS Naturals, Sequences, FiniteSets, SequencesExt

CONSTANTS Writers, Paths,
          Caps,        \* the capacities the writers are made with
          Sizes,       \* the sizes of what is written
          Word,        \* the bytes a number may take, 24 in the code
          MaxWritten,  \* bound: bytes given
          MaxOpens     \* bound: calls of open

VARIABLES disk,        \* path -> its bytes
          wr,          \* writer -> its buffer and its file
          log,         \* the calls of open, and what became of each
          home,        \* byte -> the last call of open by its writer, or 0
          crashed
fileVars == <<disk, wr, log, home, crashed>>

NoOne == [there |-> FALSE, buffer |-> FALSE, cap |-> 0, text |-> <<>>,
          ctx |-> FALSE, path |-> "", last |-> 0]
IsOpen(w) == w.path # ""      \* fd # nullfd
Count == Len(home)

Made(c) == [NoOne EXCEPT !.there = TRUE, !.buffer = TRUE, !.cap = c]
\* The first writers are made; another one is there when one moves to it.
FileInit(first) ==
    /\ disk = [p \in Paths |-> <<>>]
    /\ \E c \in Caps : wr = [i \in Writers |-> IF i \in first THEN Made(c) ELSE NoOne]
    /\ log = <<>> /\ home = <<>> /\ crashed = FALSE

(* file::write of a text: all of it, a part, or none of it, as the system   *)
(* says.  The caller does not look.  A file that is not open takes nothing, *)
(* as memory that is not there gives nothing; a file that never was has no  *)
(* context, and the write crashes.  No text, no call.                       *)
Writes(w, text, there) ==
    IF text = <<>> THEN {[crash |-> FALSE, text |-> <<>>]}
    ELSE IF ~w.ctx THEN {[crash |-> TRUE, text |-> <<>>]}
    ELSE {[crash |-> FALSE, text |-> SubSeq(text, 1, n)] :
            n \in IF IsOpen(w) /\ there THEN 1..Len(text) ELSE {}}
         \cup {[crash |-> FALSE, text |-> <<>>]}
Waiting(w) == Writes(w, w.text, w.buffer)

Stream(i) == wr[i].there /\ ~crashed
Put(i, w) == wr' = [wr EXCEPT ![i] = w]
\* The file of the writer takes text, of what it should have.
Takes(i, text, due) ==
    /\ disk' = IF text = <<>> THEN disk ELSE [disk EXCEPT ![wr[i].path] = @ \o text]
    /\ log' = IF wr[i].last # 0 /\ text # due THEN [log EXCEPT ![wr[i].last].short = TRUE] ELSE log
Given(n) == [k \in 1..n |-> Count + k]
Give(i, n) ==
    /\ Count + n <= MaxWritten
    /\ home' = home \o [k \in 1..n |-> IF IsOpen(wr[i]) THEN wr[i].last ELSE 0]

Flushed(w) == [w EXCEPT !.text = <<>>]
flush(i) ==
    /\ Stream(i) /\ Put(i, Flushed(wr[i])) /\ UNCHANGED home
    /\ \E r \in Waiting(wr[i]) : Takes(i, r.text, wr[i].text) /\ crashed' = r.crash

Ended(l, e, how) == IF e = 0 THEN l ELSE [l EXCEPT ![e].ended = how]

\* What the system may answer: the file, made or emptied, or nothing.
xx_open(p, mode) ==
    {[path |-> "", disk |-> disk],
     [path |-> p, disk |-> IF mode = "w" THEN [disk EXCEPT ![p] = <<>>] ELSE disk]}

(* fstream::open closes the file, and leaves what waits in the buffer; the  *)
(* next write takes it to the file that is open then.  Opening may fail.    *)
open(i, p, mode) ==
    LET w == wr[i] IN
    /\ Stream(i) /\ Len(log) < MaxOpens /\ \A j \in Writers \ {i} : wr[j].path # p
    /\ \E f \in xx_open(p, mode) :
          /\ Put(i, [w EXCEPT !.ctx = TRUE, !.path = f.path, !.last = Len(log) + 1])
          /\ disk' = f.disk
          /\ log' = Append(Ended(log, IF IsOpen(w) THEN w.last ELSE 0, "reopened"),
                           [path |-> f.path, mode |-> mode, short |-> FALSE, ended |-> ""])
    /\ UNCHANGED <<home, crashed>>

(* A file that is open is flushed and closed.                               *)
Close(i, after) ==
    IF ~IsOpen(wr[i]) THEN Put(i, after) /\ UNCHANGED <<disk, log>>
    ELSE \E r \in Waiting(wr[i]) :
           /\ Put(i, after)
           /\ disk' = [disk EXCEPT ![wr[i].path] = @ \o r.text]
           /\ log' = [Ended(log, wr[i].last, "closed") EXCEPT
                         ![wr[i].last].short = @ \/ r.text # wr[i].text]
close(i) ==
    /\ Stream(i) /\ UNCHANGED <<home, crashed>>
    /\ Close(i, IF IsOpen(wr[i]) THEN [Flushed(wr[i]) EXCEPT !.path = ""] ELSE wr[i])
Destroy(i) == Stream(i) /\ Close(i, NoOne) /\ UNCHANGED <<home, crashed>>

(* n bytes: into the buffer, after a flush when they do not fit; past the   *)
(* buffer when they never would.  A buffer that moved away is not there.    *)
\* A mutant: what would never fit is written before what waits.
appendPast(i, n) ==
    LET w == wr[i]
        full == w.cap < Len(w.text) + n
        past == IF n > w.cap THEN Given(n) ELSE <<>>
        due == IF past # <<>> THEN past ELSE IF full THEN w.text ELSE <<>>
    IN /\ Stream(i) /\ Give(i, n)
       /\ Put(i, [w EXCEPT !.text = (IF full /\ past = <<>> THEN <<>> ELSE @) \o (IF past = <<>> THEN Given(n) ELSE <<>>)])
       /\ \E r \in Writes(w, due, w.buffer \/ past # <<>>) :
             /\ Takes(i, r.text, due)
             /\ crashed' = (r.crash \/ (past = <<>> /\ ~w.buffer))
append(i, n) ==
    LET w == wr[i]
        full == w.cap < Len(w.text) + n
        past == IF n > w.cap THEN Given(n) ELSE <<>>
        due == IF full THEN w.text \o past ELSE <<>>
    IN /\ Stream(i) /\ Give(i, n)
       /\ Put(i, [w EXCEPT !.text = (IF full THEN <<>> ELSE @) \o (IF past = <<>> THEN Given(n) ELSE <<>>)])
       /\ \E r \in IF full THEN Waiting(w) ELSE Writes(w, <<>>, TRUE), q \in Writes(w, past, TRUE) :
             /\ Takes(i, r.text \o q.text, due)
             /\ crashed' = (r.crash \/ q.crash \/ (past = <<>> /\ ~w.buffer))
\* A number: the buffer is grown when it cannot hold Word bytes.
print(i, n) ==
    LET w == wr[i]
        full == w.cap < Len(w.text) + Word
    IN /\ Stream(i) /\ Give(i, n)
       /\ Put(i, [w EXCEPT !.text = (IF full THEN <<>> ELSE @) \o Given(n),
                           !.cap = IF @ < Word THEN (@ * 3) \div 2 + Word ELSE @, !.buffer = @ \/ w.cap < Word])
       /\ \E r \in IF full THEN Waiting(w) ELSE Writes(w, <<>>, TRUE) :
             /\ Takes(i, r.text, IF full THEN w.text ELSE <<>>)
             /\ crashed' = (r.crash \/ (~w.buffer /\ w.cap >= Word))

(* Of the writer that is moved from, the buffer and the file are gone, the  *)
(* capacity and the size are not.                                           *)
Move(i, j) ==
    /\ Stream(i) /\ ~wr[j].there
    /\ wr' = [wr EXCEPT ![j] = wr[i], ![i].buffer = FALSE, ![i].ctx = FALSE, ![i].path = "", ![i].last = 0]
    /\ UNCHANGED <<disk, log, home, crashed>>

FileNext ==
    \E i \in Writers :
        \/ \E p \in Paths, mode \in {"a", "w"} : open(i, p, mode)
        \/ flush(i) \/ close(i) \/ Destroy(i)
        \/ \E n \in Sizes : append(i, n)
        \/ print(i, Word)
        \/ \E j \in Writers : Move(i, j)

Truncated(e) == \E f \in (e + 1)..Len(log) : log[f].path = log[e].path /\ log[f].mode = "w"
Of(e) == {b \in 1..Count : home[b] = e}
\* What a writer was given between open and close is in that file, unless
\* the system took only a part of it or the file was emptied since; a byte
\* is in another file only when its writer was not open, or was opened again
\* before it wrote; no byte is in two places, and none is overtaken.
FilesAreRight ==
    /\ \A e \in DOMAIN log :
         /\ log[e].ended = "closed" /\ ~log[e].short /\ ~Truncated(e) =>
              Of(e) \subseteq ToSet(disk[log[e].path])
         /\ log[e].ended = "closed" /\ ~log[e].short =>
              \A p \in Paths \ {log[e].path} : Of(e) \cap ToSet(disk[p]) = {}
    /\ \A p \in Paths : IsInjective(disk[p])
    /\ \A p \in Paths, e \in DOMAIN log :
         LET here == SelectSeq(disk[p], LAMBDA b : home[b] = e) IN
         \A k, l \in DOMAIN here : k < l => here[k] < here[l]
    /\ crashed => \E i \in Writers : ~wr[i].buffer \/ ~wr[i].ctx
===============================================================================
