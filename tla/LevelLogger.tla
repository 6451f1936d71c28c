--------------------------- MODULE LevelLogger ---------------------------
(* The logger of base/log.cc.  Threads push lines into a buffer that a     *)
(* logging thread swaps out every 128 ms and writes to a chain of files    *)
(* xx, xx.1, xx.2 ...; log::close stops that thread and writes the rest.   *)
(* A fatal line closes the logger, writes to a file of its own and aborts; *)
(* SIGINT, SIGTERM and SIGQUIT close the logger from a signal handler, on  *)
(* whatever thread the signal interrupts, and end the process.             *)
(*                                                                         *)
(* A line is its number in the order of the pushes; Marker is the "......" *)
(* that replaces dropped lines.  Sizes are counted in lines.               *)
EXTENDS Naturals, FiniteSets, SequencesExt

CONSTANTS
    Callers,    \* the threads of the program
    Logger,     \* the logging thread
    None,       \* no thread, no file
    MaxBuffer,  \* FLG_max_log_buffer_size
    HalfCap,    \* half the capacity of the buffer: above it the logger is woken
    MaxFile,    \* FLG_max_log_file_size
    MaxNum,     \* FLG_max_log_file_num
    MaxLines,   \* bound: lines pushed
    MaxFaults   \* bound: signals, files deleted by others, opens that fail

ASSUME LoggerAssumption ==
    /\ Logger \notin Callers
    /\ None \notin Callers \union {Logger, "log", "fatal", "gone"}
    /\ {MaxBuffer, MaxFile, MaxNum, MaxLines} \subseteq Nat \ {0}
    /\ {HalfCap, MaxFaults} \subseteq Nat

VARIABLES
    pushed,  \* number of lines pushed
    fs,      \* _fs: the buffer
    batch,   \* the logging thread's own buffer, swapped with _fs
    event,   \* _log_event (manual reset)
    stop,    \* _stop, as the thread that set it, or None
    owner,   \* holder of _log_mutex
    files,   \* which files of the chain exist; 0 is xx, i is xx.i
    chain,   \* their lines
    fatal,   \* the lines of the .fatal file, fatal lines left out
    handle,  \* what _file is open on: "log", "fatal", "gone" (deleted) or None
    lost,    \* lines dropped, by reason
    pc,      \* where each thread is
    then,    \* what a thread does when its close() is over
    mark,    \* lines pushed before the thread called close(), when it goes on after it
    closed,  \* the threads whose last close() has returned
    wedged,  \* a signal has interrupted the holder of _log_mutex
    dead,    \* the process has ended
    faults   \* signals and faults of the file system so far

buffers == <<fs, batch, event, owner>>
disk == <<files, chain, fatal, handle, lost>>
closing == <<stop, then, mark, closed>>
outside == <<wedged, dead, faults>>
vars == <<pushed, buffers, disk, closing, pc, outside>>

Threads == Callers \union {Logger}
Indices == 0 .. MaxNum - 1
Marker == 0
IsLine(l) == l # Marker
Lines(s) == {s[k] : k \in DOMAIN s} \ {Marker}
Size(s) == Cardinality({k \in DOMAIN s : IsLine(s[k])})
Reasons == {"full", "open", "old", "deleted"}

Init ==
    /\ pushed = 0 /\ fs = <<>> /\ batch = <<>> /\ event = FALSE /\ owner = None
    /\ files = {} /\ chain = [i \in Indices |-> <<>>] /\ fatal = <<>>
    /\ handle = None /\ lost = [r \in Reasons |-> {}]
    /\ stop = None /\ then = [t \in Threads |-> None]
    /\ mark = [t \in Threads |-> 0] /\ closed = {}
    /\ pc = [t \in Threads |-> IF t = Logger THEN "wait" ELSE "idle"]
    /\ wedged = FALSE /\ dead = FALSE /\ faults = 0

Goto(t, l) == pc' = [pc EXCEPT ![t] = l]
Lose(r, ls) == lost' = [lost EXCEPT ![r] = @ \union ls]

---------------------------------------------------------------------------
(* Pushing a line: LOG << ... ends in LevelLogger::push.                   *)

Lock(t, at, to) ==
    /\ pc[t] = at /\ owner = None
    /\ owner' = t /\ Goto(t, to)

\* Mutant of DropHalf: the lines are dropped in silence.
DropUnmarked(s) == SubSeq(s, Len(s) - Size(s) + (Size(s) \div 2) + 2, Len(s))

\* A full buffer loses the lines up to and with the one its middle is in.
DropHalf(s) ==
    <<Marker>> \o SubSeq(s, Len(s) - Size(s) + (Size(s) \div 2) + 2, Len(s))

PushBegin(t) ==
    /\ t \in Callers /\ pushed < MaxLines
    /\ Lock(t, "idle", "push")
    /\ UNCHANGED <<pushed, fs, batch, event, disk, closing, outside>>

Push(t) ==
    LET full == Size(fs) >= MaxBuffer
        room == IF full THEN DropHalf(fs) ELSE fs
    IN /\ pc[t] = "push"
       /\ pushed' = pushed + 1
       /\ fs' = Append(room, pushed')
       /\ Lose("full", Lines(fs) \ Lines(room))
       /\ event' = (event \/ Size(fs') > HalfCap)
       /\ owner' = None /\ Goto(t, "idle")
       /\ UNCHANGED <<batch, files, chain, fatal, handle, closing, outside>>

---------------------------------------------------------------------------
(* The files: open_log_file, write and rotate.                             *)

\* xx -> xx.1 -> xx.2 ... up to the first free name; the last name is freed.
Moves(i) == \A j \in 1 .. i - 1 : j \in files
Taken == {i \in Indices : Moves(i)}
Renamed ==
    [i \in Indices |-> IF i = 0 THEN <<>> ELSE IF Moves(i) THEN chain[i - 1] ELSE chain[i]]
Overwritten == UNION {Lines(chain[i]) : i \in {j \in Taken : j + 1 \notin Taken}}

OpenLog ==
    /\ handle' = "log"
    /\ IF Len(chain[0]) >= MaxFile
       THEN /\ chain' = Renamed
            /\ files' = files \union Taken
            /\ Lose("old", Overwritten)
       ELSE /\ files' = files \union {0}
            /\ UNCHANGED <<chain, lost>>

\* The first half of write: the file is opened when none is open.
WriteOpen(t, at, to) ==
    /\ pc[t] = at /\ Goto(t, to)
    /\ \/ handle # None /\ UNCHANGED <<disk, faults>>
       \/ handle = None /\ OpenLog /\ UNCHANGED <<fatal, faults>>
       \/ /\ handle = None /\ faults < MaxFaults
          /\ faults' = faults + 1 /\ UNCHANGED disk
    /\ UNCHANGED <<pushed, buffers, closing, wedged, dead>>

\* The second half: the lines go where _file is open by then, and rotate()
\* closes a file that is too long or has been deleted.
WriteLines(s) ==
    /\ CASE handle = "log"   -> /\ chain' = [chain EXCEPT ![0] = @ \o s]
                                /\ UNCHANGED <<fatal, lost>>
         [] handle = "fatal" -> fatal' = fatal \o s /\ UNCHANGED <<chain, lost>>
         [] handle = "gone"  -> Lose("deleted", Lines(s)) /\ UNCHANGED <<chain, fatal>>
         [] OTHER            -> Lose("open", Lines(s)) /\ UNCHANGED <<chain, fatal>>
    /\ handle' = IF \/ handle = "gone"
                    \/ handle = "log" /\ Len(chain'[0]) >= MaxFile
                    \/ handle = "fatal" /\ Len(fatal') >= MaxFile
                 THEN None ELSE handle
    /\ UNCHANGED files

---------------------------------------------------------------------------
(* The logging thread: thread_fun.                                         *)

\* Mutants of Woken: the time does not end the wait; _stop is not looked at.
WokenBySignal == IF stop # None THEN "ended" ELSE IF event THEN "signaled" ELSE "wait"
WokenDeaf == IF event THEN "signaled" ELSE "timeout"

Woken == IF stop # None THEN "ended" ELSE IF event THEN "signaled" ELSE "timeout"

\* Mutant of Cleared: the buffer keeps what was written.
ClearedNot(s) == s

\* fs->clear() after a write.
Cleared(s) == <<>>

\* while (!_stop), then _log_event.wait(128), which a signal or the time ends.
Wake ==
    /\ pc[Logger] = "wait"
    /\ Goto(Logger, Woken)
    /\ UNCHANGED <<pushed, buffers, disk, closing, outside>>

SwapBegin ==
    /\ \/ Lock(Logger, "signaled", "swap_reset")
       \/ Lock(Logger, "timeout", "swap")
    /\ UNCHANGED <<pushed, fs, batch, event, disk, closing, outside>>

Swap ==
    /\ pc[Logger] \in {"swap", "swap_reset"}
    /\ fs' = batch /\ batch' = fs     \* batch is empty here
    /\ event' = (event /\ pc[Logger] = "swap")
    /\ owner' = None
    /\ Goto(Logger, IF fs = <<>> THEN "wait" ELSE "open")
    /\ UNCHANGED <<pushed, disk, closing, outside>>

LoggerOpen == WriteOpen(Logger, "open", "append")

LoggerAppend ==
    /\ pc[Logger] = "append"
    /\ WriteLines(batch)
    /\ batch' = Cleared(batch) /\ Goto(Logger, "wait")
    /\ UNCHANGED <<pushed, fs, event, owner, closing, outside>>

---------------------------------------------------------------------------
(* log::close, from a caller, a fatal line or a signal handler.            *)

\* stop(): only the first caller stops the thread; another returns at once.
Close(t, next) ==
    /\ then' = [then EXCEPT ![t] = next]
    /\ mark' = [mark EXCEPT ![t] = IF next = "return" THEN pushed ELSE 0]
    /\ closed' = closed \ {t}
    /\ IF stop = None
       THEN stop' = t /\ event' = TRUE /\ Goto(t, "join")
       ELSE UNCHANGED <<stop, event>> /\ Goto(t, "over")

CallClose(t) ==
    /\ t \in Callers /\ pc[t] = "idle" /\ t \notin closed
    /\ \E next \in {"return", "fatal"} : Close(t, next)
    /\ UNCHANGED <<pushed, fs, batch, owner, disk, outside>>

OnSignal(t) ==
    /\ faults < MaxFaults /\ pc[t] # "ended"
    /\ faults' = faults + 1
    /\ wedged' = (wedged \/ owner = t)
    /\ Close(t, "raise")
    /\ UNCHANGED <<pushed, fs, batch, owner, disk, dead>>

\* Mutant of Joined: the logging thread is not waited for.
JoinedNot(t) == TRUE

\* pthread_join of the calling thread itself fails at once.
Joined(t) == pc[Logger] = "ended" \/ t = Logger

Join(t) ==
    /\ pc[t] = "join"
    /\ Joined(t)
    /\ Goto(t, "lock")
    /\ UNCHANGED <<pushed, buffers, disk, closing, outside>>

\* Mutant of Rest: what is buffered is left.
RestLeft == "unlock"

Rest == IF fs = <<>> THEN "unlock" ELSE "drain"

DrainBegin(t) ==
    /\ Lock(t, "lock", Rest)
    /\ UNCHANGED <<pushed, fs, batch, event, disk, closing, outside>>

DrainOpen(t) == WriteOpen(t, "drain", "drain_append")

DrainAppend(t) ==
    /\ pc[t] = "drain_append"
    /\ WriteLines(fs)
    /\ fs' = Cleared(fs) /\ Goto(t, "unlock")
    /\ UNCHANGED <<pushed, batch, event, owner, closing, outside>>

Unlock(t) ==
    /\ pc[t] = "unlock"
    /\ owner' = None /\ Goto(t, "over")
    /\ UNCHANGED <<pushed, fs, batch, event, disk, closing, outside>>

\* close() is over: the caller goes on, or the process ends in raise().
Return(t) ==
    /\ pc[t] = "over"
    /\ CASE then[t] = "return" -> Goto(t, "idle") /\ closed' = closed \union {t}
                                  /\ UNCHANGED dead
         [] then[t] = "fatal"  -> Goto(t, "fatal") /\ UNCHANGED <<closed, dead>>
         [] then[t] = "raise"  -> dead' = TRUE /\ UNCHANGED <<pc, closed>>
    /\ UNCHANGED <<pushed, buffers, disk, stop, then, mark, wedged, faults>>

\* push_fatal_log: _file moves to the .fatal file, then abort().
FatalOpen(t) ==
    /\ pc[t] = "fatal" /\ Goto(t, "abort")
    /\ \/ handle' = "fatal" /\ UNCHANGED faults
       \/ handle' = None /\ faults < MaxFaults /\ faults' = faults + 1
    /\ UNCHANGED <<pushed, buffers, files, chain, fatal, lost, closing, wedged, dead>>

Abort(t) ==
    /\ pc[t] = "abort" /\ dead' = TRUE
    /\ UNCHANGED <<pushed, buffers, disk, closing, pc, wedged, faults>>

---------------------------------------------------------------------------
\* External: somebody removes a file of the chain.
Delete(i) ==
    /\ faults < MaxFaults /\ i \in files
    /\ faults' = faults + 1
    /\ files' = files \ {i}
    /\ Lose("deleted", Lines(chain[i]))
    /\ chain' = [chain EXCEPT ![i] = <<>>]
    /\ handle' = IF i = 0 /\ handle = "log" THEN "gone" ELSE handle
    /\ UNCHANGED <<pushed, buffers, fatal, closing, pc, wedged, dead>>

LoggerStep == ~dead /\ (Wake \/ SwapBegin \/ Swap \/ LoggerOpen \/ LoggerAppend)
Finish(t) ==
    ~dead /\ \/ Push(t) \/ Join(t) \/ DrainBegin(t) \/ DrainOpen(t) \/ DrainAppend(t)
             \/ Unlock(t) \/ Return(t) \/ FatalOpen(t) \/ Abort(t)
Call(t) == ~dead /\ (PushBegin(t) \/ CallClose(t))
Outside == ~dead /\ ((\E t \in Threads : OnSignal(t)) \/ (\E i \in Indices : Delete(i)))

Next == LoggerStep \/ (\E t \in Threads : Finish(t) \/ Call(t)) \/ Outside

\* Threads that hold no lock are scheduled; nobody has to call anything.
Spec ==
    /\ Init /\ [][Next]_vars
    /\ WF_vars(LoggerStep) /\ \A t \in Threads : WF_vars(Finish(t))

---------------------------------------------------------------------------
\* What comes before, and the lines of a sequence rise.
Precedes(S, T) == \A l \in S, m \in T : l < m
Rises(s) ==
    \A k, n \in DOMAIN s : k < n /\ IsLine(s[k]) /\ IsLine(s[n]) => s[k] < s[n]

\* The files, read from the oldest to xx, hold the lines in the order they
\* were pushed and none twice, across rotation, deleted files, a full buffer
\* and a close() that races with the logging thread (log.cc, write, rotate,
\* open_log_file).
FilesInOrder ==
    /\ \A i \in Indices : Rises(chain[i])
    /\ \A i, j \in Indices : i < j => Precedes(Lines(chain[j]), Lines(chain[i]))

\* Where a line can be, and the lines that are there.
Place ==
    ({"fs", "batch", "fatal"} \X {0}) \union ({"file"} \X Indices) \union ({"lost"} \X Reasons)
Held(p) ==
    CASE p[1] = "fs"    -> Lines(fs)
      [] p[1] = "batch" -> Lines(batch)
      [] p[1] = "fatal" -> Lines(fatal)
      [] p[1] = "file"  -> Lines(chain[p[2]])
      [] p[1] = "lost"  -> lost[p[2]]

\* Every line pushed is in exactly one place: still buffered, in one file, or
\* lost for one of the reasons the code has (buffer full, open failed, oldest
\* file rotated out, file deleted by others).
EveryLineAccounted ==
    /\ UNION {Held(p) : p \in Place} = 1 .. pushed
    /\ \A p, q \in Place : p # q => Held(p) \intersect Held(q) = {}

\* When the close() that stopped the logger has returned, no line pushed
\* before it was called is left in memory (log.cc, LevelLogger::stop).
Unwritten == Lines(fs) \union Lines(batch)
CloseWrites ==
    \A t \in closed : stop = t => Unwritten \intersect (1 .. mark[t]) = {}

\* Three promises about every line: the files hold the lines in order and none
\* twice, no line is nowhere or in two places, and close() writes the rest
\* (write, rotate, thread_fun and stop of LevelLogger).
LogIsRight == FilesInOrder /\ EveryLineAccounted /\ CloseWrites

\* Where the files pass over lines and all of them were dropped from a full
\* buffer, the files say so with "......" (LevelLogger::push).
Files == FlattenSeq([i \in 1 .. MaxNum |-> chain[MaxNum - i]])
DropsAreMarked ==
    \A k \in 1 .. Len(Files) - 1 :
        LET skipped == (Files[k] + 1) .. (Files[k + 1] - 1)
        IN ~(IsLine(Files[k]) /\ skipped # {} /\ skipped \subseteq lost["full"])

\* Nothing waits for ever.  A line does not stay in memory while the logger
\* runs: the 128 ms wait ends even if nobody signals the event.  And close()
\* returns, or ends the process, whatever the logging thread was doing -
\* unless a signal interrupted the thread that holds _log_mutex.
LinesAreWritten ==
    /\ \A l \in 1 .. MaxLines :
          l \in Unwritten ~> (l \notin Unwritten \/ stop # None \/ dead \/ wedged)
    /\ \A t \in Threads :
          pc[t] = "join" ~> (pc[t] \in {"idle", "fatal"} \/ dead \/ wedged)
===========================================================================
