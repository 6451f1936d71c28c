----------------------------- MODULE Sockets -----------------------------
(* The calls of base/co that wait for a socket (co_unix.cc, the hooks of   *)
(* hook_unix.cc, EvRead and EvWrite of scheduler.h) on one scheduler, its  *)
(* epoll map (epoll.cc) and the kernel below it.  A call is a row of what  *)
(* it registers, keeps and trusts.  Only the scheduler's thread runs:      *)
(* `running` is the coroutine on its stack, 0 the loop.                    *)
EXTENDS Integers, FiniteSets

CONSTANTS
    Cos,      \* coroutines (ids in _co_pool, 0 is the main one)
    Fds,      \* socket descriptors
    N,        \* units that recvn and send ask for
    Chunk     \* FLG_tcp_max_recv_size and FLG_tcp_max_send_size, in units

ASSUME SocketAssumption == 0 \notin Cos /\ N \in Nat /\ Chunk \in Nat \ {0}

VARIABLES
    program, \* who makes which calls on which descriptors
    entry,   \* _ev_map: the id that reads and the id that writes, 0 is none
    ready,   \* descriptors in the kernel's ready list
    data,    \* per descriptor: something to read
    room,    \* per descriptor: space to write
    link,    \* per descriptor: "new", "going", "up", "refused" or "closed" by the peer
    running,
    batch,   \* events that epoll_wait has returned, not handled yet
    call,    \* per coroutine: its call
    timers,  \* per coroutine: its timers, "own" of its call, "old" of an earlier one
    why,     \* per coroutine: what resumed it
    strayed, \* coroutines that were once resumed for a call they were not in
    missing, \* per coroutine: why the kernel may never tell its call, or "no"
    answer   \* per coroutine: what its last call returned

osVars == <<data, room, link>>
epollVars == <<entry, ready>>
socketVars ==
    <<program, epollVars, osVars, running, batch, call, timers, why, strayed, missing, answer>>

None == [r |-> 0, w |-> 0]
Idle == [op |-> "idle", fd |-> 0, left |-> 0, has |-> FALSE, parked |-> FALSE, looks |-> FALSE]
Parked(op) == [Idle EXCEPT !.op = op, !.parked = TRUE]

---------------------------------------------------------------------------
(* The calls.  adds: registers for every wait, or for the first one only;  *)
(* all: goes on until N units are done; trusts: returns when it is resumed *)
(* instead of trying again; wake and end: what it unregisters when it is   *)
(* resumed and when it returns; expire: what when its time is up.          *)

Plain(dir) ==
    [dir |-> dir, adds |-> "every", timed |-> FALSE, all |-> FALSE, trusts |-> FALSE,
     wake |-> "keep", end |-> "keep", expire |-> "keep"]
EvRead == [Plain("r") EXCEPT !.adds = "first", !.timed = TRUE, !.expire = "r"]
EvWrite == [Plain("w") EXCEPT !.adds = "first", !.end = "w"]
Timed(row) == [row EXCEPT !.timed = TRUE]
All(row) == [row EXCEPT !.all = TRUE]

accept == Plain("r")
recv == Plain("r")
recvfrom == Plain("r")
recvn == All(Plain("r"))
recv_ms == EvRead
recvfrom_ms == EvRead
recvn_ms == All(EvRead)
send == All(EvWrite)
send_ms == All(Timed(EvWrite))
sendto == [Plain("w") EXCEPT !.wake = "w"]
sendto_ms == Timed(EvWrite)
connect == [Plain("w") EXCEPT !.wake = "event", !.trusts = TRUE]
connect_ms == [Timed(EvWrite) EXCEPT !.trusts = TRUE]
read == Plain("r")
read_ms == EvRead
write == EvWrite
write_ms == Timed(EvWrite)
poll(dir) == [Plain(dir) EXCEPT !.wake = "event", !.trusts = TRUE]

Rows ==
    [accept |-> accept, recv |-> recv, recvfrom |-> recvfrom, recvn |-> recvn,
     recv_ms |-> recv_ms, recvfrom_ms |-> recvfrom_ms, recvn_ms |-> recvn_ms,
     send |-> send, send_ms |-> send_ms, sendto |-> sendto, sendto_ms |-> sendto_ms,
     connect |-> connect, connect_ms |-> connect_ms,
     read |-> read, read_ms |-> read_ms, write |-> write, write_ms |-> write_ms,
     poll_in |-> poll("r"), poll_out |-> poll("w"),
     poll_in_ms |-> Timed(poll("r")), poll_out_ms |-> Timed(poll("w"))]
Calls == DOMAIN Rows
Connects == {"connect", "connect_ms"}
Polls == {"poll_in", "poll_out", "poll_in_ms", "poll_out_ms"}
Row(c) == Rows[call[c].op]
Waits(c) == call[c].op \in Calls

---------------------------------------------------------------------------
(* The kernel: an edge-triggered registration is reported when something   *)
(* it is registered for happens, or already holds as it is made.           *)

Failed(f) == link[f] \in {"refused", "closed"}
Can(f, d) == Failed(f) \/ (d = "r" /\ data[f]) \/ (d = "w" /\ room[f])
Registered(f) == entry[f] # None
Fires(f, d) == IF entry[f][d] # 0 THEN {f} ELSE {}

Arrive(f) ==
    /\ link[f] = "up" /\ ~data[f] /\ data' = [data EXCEPT ![f] = TRUE]
    /\ ready' = ready \union Fires(f, "r")
    /\ UNCHANGED <<entry, room, link>>

PeerReads(f) ==
    /\ link[f] = "up" /\ ~room[f] /\ room' = [room EXCEPT ![f] = TRUE]
    /\ ready' = ready \union Fires(f, "w")
    /\ UNCHANGED <<entry, data, link>>

Established(f) ==
    /\ link[f] = "going" /\ link' = [link EXCEPT ![f] = "up"]
    /\ room' = [room EXCEPT ![f] = TRUE]
    /\ ready' = ready \union Fires(f, "w")
    /\ UNCHANGED <<entry, data>>

\* An error or a reset is reported whatever the registration is for.
Breaks(f) ==
    /\ \/ link[f] = "going" /\ link' = [link EXCEPT ![f] = "refused"]
       \/ link[f] = "up" /\ link' = [link EXCEPT ![f] = "closed"]
    /\ ready' = ready \union (IF Registered(f) THEN {f} ELSE {})
    /\ UNCHANGED <<entry, data, room>>

Kernel(f) ==
    /\ Arrive(f) \/ PeerReads(f) \/ Established(f) \/ Breaks(f)
    /\ UNCHANGED <<program, strayed, running, batch, call, timers, why, missing, answer>>

---------------------------------------------------------------------------
(* The epoll map.                                                          *)

\* add_ev_read and add_ev_write: EPOLL_CTL_ADD is used for the second
\* direction as well and fails for a descriptor that is registered.
Add(f, d, c) ==
    IF Registered(f)
    THEN UNCHANGED epollVars
    ELSE /\ entry' = [entry EXCEPT ![f][d] = c]
         /\ ready' = ready \union (IF Can(f, d) THEN {f} ELSE {})

\* Whom an event is for, had add_ev_read and add_ev_write both succeeded too.
Ud(e) == IF e.w # 0 THEN e.w ELSE e.r

\* What stands in the way of an event for the call, when it asks for it: the
\* other direction, another coroutine's id, or, for a call that waits before
\* it tries, a registration whose edge may be over.
Obstacle(f, d, c) ==
    IF ~Registered(f) THEN "no"
    ELSE IF entry[f][d] = 0 THEN "refused"
    ELSE IF Ud(entry[f]) # c THEN "foreign"
    ELSE IF call[c].op \in Polls THEN "leftover"
    ELSE "no"

\* del_ev_read, del_ev_write, del_event.
Rest(e, what) ==
    CASE what = "keep" -> e
      [] what = "event" -> None
      [] OTHER -> [e EXCEPT ![what] = 0]
Del(f, what) ==
    /\ entry' = [entry EXCEPT ![f] = Rest(@, what)]
    /\ ready' = IF entry'[f] = None THEN ready \ {f} ELSE ready

\* The calls of other coroutines that lose their registration by it.
Deprived(c, f, what) ==
    {d \in Cos \ {c} : Waits(d) /\ call[d].fd = f /\ call[d].parked
                       /\ entry[f][Row(d).dir] # 0 /\ Rest(entry[f], what)[Row(d).dir] = 0}
Deprive(c, f, what) ==
    missing' = [d \in Cos |-> IF d \in Deprived(c, f, what) THEN "removed" ELSE missing[d]]

---------------------------------------------------------------------------
(* The coroutines.                                                         *)

Fresh(c) == why' = [why EXCEPT ![c] = "begin"]
Free(f, d) == \A c \in Cos : Waits(c) /\ call[c].fd = f => Row(c).dir # d

\* A coroutine makes a call.  A descriptor has one reader and one writer at
\* a time, but they may be different coroutines each time.
Begin(c, op, f) ==
    /\ running = c /\ call[c] = Idle
    /\ op \in program.calls \intersect Calls /\ Free(f, Rows[op].dir)
    /\ (op \in Connects) <=> (link[f] = "new")
    /\ call' = [call EXCEPT ![c] =
                  [op |-> op, fd |-> f, left |-> IF Rows[op].all THEN N ELSE 1,
                   has |-> FALSE, parked |-> FALSE, looks |-> FALSE]]
    /\ Fresh(c) /\ missing' = [missing EXCEPT ![c] = "no"] /\ answer' = [answer EXCEPT ![c] = "none"]
    /\ strayed' = strayed \union {d \in {c} : [fd |-> f, co |-> c] \in batch}
    /\ IF op \in Connects
       THEN link' = [link EXCEPT ![f] = "going"] /\ UNCHANGED <<data, room>>
       ELSE UNCHANGED osVars
    /\ UNCHANGED <<program, epollVars, running, batch, timers>>

\* Mutant of Ending: ~EvWrite leaves the registration where it is.
EndingKept(c, a) == "keep"

\* What a call unregisters as it returns: ~EvWrite, or a timeout of EvRead.
Ending(c, a) ==
    LET row == Row(c) IN
    IF row.end # "keep" /\ call[c].has THEN row.end
    ELSE IF a = "timeout" THEN row.expire ELSE "keep"

\* Its timers, when the one of its call or sleep is not taken back.
Stale(c) == IF "own" \in timers[c] THEN (timers[c] \ {"own"}) \union {"old"} ELSE timers[c]

\* Mutant of Own: ~EvRead and ~EvWrite leave the timer.
OwnKept(c) == Stale(c)

\* The timers left by a call that returns.
Own(c) == timers[c] \ {"own"}

Return(c, a) ==
    /\ answer' = [answer EXCEPT ![c] = a]
    /\ call' = [call EXCEPT ![c] = Idle]
    /\ timers' = [timers EXCEPT ![c] = Own(c)]
    /\ Del(call[c].fd, Ending(c, a)) /\ Deprive(c, call[c].fd, Ending(c, a))
    /\ Fresh(c)
    /\ UNCHANGED <<program, strayed, osVars, running, batch>>

\* A unit is done.  recvn(ms) and send(ms) do one chunk after another, each
\* with an EvRead or EvWrite, and so with a timer, of its own.
Progress(c) ==
    LET f == call[c].fd
        chunkDone == Row(c).timed /\ (call[c].left - 1) % Chunk = 0
    IN  /\ IF Row(c).dir = "r"
           THEN /\ \E more \in BOOLEAN : data' = [data EXCEPT ![f] = more]
                /\ UNCHANGED room
           ELSE /\ \E more \in BOOLEAN : room' = [room EXCEPT ![f] = more]
                /\ UNCHANGED data
        /\ IF call[c].left = 1
           THEN /\ answer' = [answer EXCEPT ![c] = "ok"]
                /\ call' = [call EXCEPT ![c] = Idle]
                /\ timers' = [timers EXCEPT ![c] = Own(c)]
                /\ Del(f, Ending(c, "ok")) /\ Deprive(c, f, Ending(c, "ok"))
           ELSE /\ UNCHANGED answer
                /\ call' = [call EXCEPT ![c].left = @ - 1,
                                        ![c].has = IF chunkDone THEN FALSE ELSE @]
                /\ IF chunkDone
                   THEN /\ timers' = [timers EXCEPT ![c] = Own(c)]
                        /\ Del(f, Ending(c, "ok")) /\ Deprive(c, f, Ending(c, "ok"))
                   ELSE UNCHANGED <<timers, epollVars, missing>>
        /\ Fresh(c)
        /\ UNCHANGED <<program, strayed, link, running, batch>>

\* Mutant of Registers: EvWrite believes that it is registered from the start.
RegistersNever(c) == Row(c).adds = "every"

Registers(c) == Row(c).adds = "every" \/ ~call[c].has

Park(c) ==
    LET f == call[c].fd
        d == Row(c).dir
    IN  /\ IF Registers(c)
           THEN /\ Add(f, d, c)
                /\ missing' = [missing EXCEPT ![c] = Obstacle(f, d, c)]
                /\ timers' = IF Row(c).timed
                             THEN [timers EXCEPT ![c] = @ \union {"own"}] ELSE timers
           ELSE UNCHANGED <<epollVars, missing, timers>>
        /\ call' = [call EXCEPT ![c].has = TRUE, ![c].parked = TRUE]
        /\ running' = 0 /\ Fresh(c)
        /\ UNCHANGED <<program, strayed, osVars, batch, answer>>

\* poll() that cannot register asks the kernel itself, and sleeps in between.
Looks(c) ==
    \/ call[c].looks
    \/ /\ call[c].op \in Polls /\ why[c] = "begin"
       /\ Obstacle(call[c].fd, Row(c).dir, c) = "refused"

Look(c) ==
    IF Can(call[c].fd, Row(c).dir) THEN Return(c, "ok")
    ELSE /\ call' = [call EXCEPT ![c].looks = TRUE, ![c].parked = TRUE]
         /\ timers' = [timers EXCEPT ![c] = @ \union {"own"}]
         /\ missing' = [missing EXCEPT ![c] = "refused"]
         /\ running' = 0 /\ Fresh(c)
         /\ UNCHANGED <<program, strayed, epollVars, osVars, batch, answer>>

\* poll() waits before anything else, connect() has just begun.
Try(c) ==
    LET f == call[c].fd
        d == Row(c).dir
    IN  /\ running = c /\ Waits(c) /\ ~call[c].parked
        /\ IF Looks(c) THEN Look(c)
           ELSE IF Row(c).trusts /\ why[c] = "begin"
           THEN Park(c)
           ELSE IF Row(c).trusts
           THEN Return(c, IF call[c].op \in Connects /\ link[f] = "refused" THEN "error" ELSE "ok")
           ELSE IF Failed(f) THEN Return(c, "error")
           ELSE IF Can(f, d) THEN Progress(c)
           ELSE Park(c)

\* poll() has slept: its time is up, or it looks again.
Awake(c) ==
    /\ timers' = [timers EXCEPT ![c] = Stale(c)]
    /\ \/ /\ Row(c).timed /\ answer' = [answer EXCEPT ![c] = "timeout"]
          /\ call' = [call EXCEPT ![c] = Idle]
       \/ /\ Row(c).timed => call[c].left > 0
          /\ call' = [call EXCEPT ![c].parked = FALSE,
                                  ![c].left = IF Row(c).timed THEN @ - 1 ELSE @]
          /\ UNCHANGED answer
    /\ UNCHANGED <<epollVars, missing>>

\* Back from yield(): connect, sendto and poll unregister; a call with a time
\* limit asks whether it was the timers that resumed it.
Back(c) ==
    LET f == call[c].fd
    IN  /\ running = c /\ Waits(c) /\ call[c].parked
        /\ IF call[c].looks THEN Awake(c)
           ELSE IF Row(c).timed /\ why[c] \in {"time", "old"}
           THEN LET what == IF Row(c).wake # "keep" THEN Row(c).wake ELSE Ending(c, "timeout")
                IN  /\ answer' = [answer EXCEPT ![c] = "timeout"]
                    /\ call' = [call EXCEPT ![c] = Idle]
                    /\ timers' = [timers EXCEPT ![c] = Stale(c)]
                    /\ Del(f, what) /\ Deprive(c, f, what)
           ELSE /\ Del(f, Row(c).wake) /\ Deprive(c, f, Row(c).wake)
                /\ call' = [call EXCEPT ![c].parked = FALSE]
                /\ UNCHANGED <<timers, answer>>
        /\ UNCHANGED <<program, strayed, osVars, running, batch, why>>

\* co::sleep: the timer of a sleep that is cut short stays.
Sleep(c) ==
    /\ running = c /\ call[c] = Idle /\ call' = [call EXCEPT ![c] = Parked("sleep")]
    /\ timers' = [timers EXCEPT ![c] = @ \union {"own"}] /\ running' = 0
    /\ missing' = [missing EXCEPT ![c] = "no"] /\ answer' = [answer EXCEPT ![c] = "none"]
    /\ UNCHANGED <<program, strayed, epollVars, osVars, batch, why>>

EndSleep(c) ==
    /\ running = c /\ call[c].op = "sleep" /\ call' = [call EXCEPT ![c] = Idle]
    /\ timers' = [timers EXCEPT ![c] = Stale(c)]
    /\ Fresh(c)
    /\ UNCHANGED <<program, strayed, epollVars, osVars, running, batch, missing, answer>>

\* co::close: what waits for the descriptor is not told.  The number is free
\* for a new socket when nobody uses it.
Close(c, f) ==
    /\ running = c /\ call[c] = Idle /\ "close" \in program.calls
    /\ link[f] # "new" /\ Free(f, "r") /\ Free(f, "w")
    /\ Del(f, "event") /\ Deprive(c, f, "event")
    /\ link' = [link EXCEPT ![f] = "new"]
    /\ data' = [data EXCEPT ![f] = FALSE] /\ room' = [room EXCEPT ![f] = FALSE]
    /\ UNCHANGED <<program, strayed, running, batch, call, timers, why, answer>>

\* co::shutdown, both ways: nor does this tell anybody.
Shutdown(c, f) ==
    /\ running = c /\ call[c] = Idle /\ "shutdown" \in program.calls /\ link[f] = "up"
    /\ \E what \in {"r", "w", "event"} :
          /\ Del(f, what) /\ Deprive(c, f, what)
          /\ link' = IF what = "event" THEN [link EXCEPT ![f] = "closed"] ELSE link
          /\ data' = IF what = "r" THEN [data EXCEPT ![f] = TRUE] ELSE data
    /\ UNCHANGED <<program, strayed, room, running, batch, call, timers, why, answer>>

Coroutine(c) ==
    \/ Try(c) \/ Back(c) \/ Sleep(c) \/ EndSleep(c)
    \/ \E f \in program.fds : Close(c, f) \/ Shutdown(c, f) \/ \E op \in Calls : Begin(c, op, f)

---------------------------------------------------------------------------
(* The loop.                                                               *)

Event(f) == [fd |-> f, co |-> Ud(entry[f])]
Reported(f) == Registered(f) /\ (Failed(f) \/ \E d \in {"r", "w"} : entry[f][d] # 0 /\ Can(f, d))

Poll ==
    /\ running = 0 /\ batch = {} /\ ready # {}
    /\ batch' = {Event(f) : f \in {g \in ready : Reported(g)}}
    /\ ready' = {}
    /\ UNCHANGED <<program, strayed, entry, osVars, running, call, timers, why, missing, answer>>

IsFor(e, c) == Waits(c) /\ call[c].fd = e.fd /\ ~call[c].looks

Deliver(e) ==
    /\ running = 0 /\ e \in batch /\ batch' = batch \ {e}
    /\ running' = e.co
    /\ IF IsFor(e, e.co)
       THEN why' = [why EXCEPT ![e.co] = "event"] /\ UNCHANGED strayed
       ELSE why' = [why EXCEPT ![e.co] = "stray"] /\ strayed' = strayed \union {e.co}
    /\ UNCHANGED <<program, epollVars, osVars, call, timers, missing, answer>>

TimeOut(c) ==
    /\ running = 0 /\ batch = {}
    /\ \E t \in timers[c] :
          /\ timers' = [timers EXCEPT ![c] = @ \ {t}]
          /\ why' = [why EXCEPT ![c] = IF t = "own" THEN "time" ELSE "old"]
    /\ running' = c
    /\ UNCHANGED <<program, strayed, epollVars, osVars, batch, call, missing, answer>>

Loop == Poll \/ (\E f \in Fds, c \in Cos : Deliver([fd |-> f, co |-> c])) \/ \E c \in Cos : TimeOut(c)

\* Coroutines start as if from a sleep; sockets are new, or from accept().
SocketInit(programs) ==
    /\ program \in programs
    /\ entry = [f \in Fds |-> None] /\ ready = {}
    /\ data = [f \in Fds |-> FALSE]
    /\ \/ link = [f \in Fds |-> "new"] \/ link = [f \in Fds |-> "up"]
    /\ room = [f \in Fds |-> link[f] = "up"]
    /\ running = 0 /\ batch = {}
    /\ call = [c \in Cos |-> IF c \in program.cos THEN Parked("sleep") ELSE Idle]
    /\ timers = [c \in Cos |-> IF c \in program.cos THEN {"own"} ELSE {}]
    /\ strayed = {} /\ why = [c \in Cos |-> "begin"] /\ missing = [c \in Cos |-> "no"]
    /\ answer = [c \in Cos |-> "none"]
SocketNext ==
    \/ Loop \/ (\E c \in Cos : Coroutine(c))
    \/ \E f \in program.fds : Kernel(f)

---------------------------------------------------------------------------
\* A call whose socket is ready, or has failed, is going to be told - unless
\* the other direction was registered first, the registration is another
\* coroutine's, somebody took it away, or poll() waits for an edge that is
\* over (Epoll::add_ev_read and add_ev_write; EvRead, which leaves its
\* registration behind).
Notified ==
    \A c \in {d \in Cos : Waits(d) /\ call[d].parked /\ running # d} :
        LET f == call[c].fd IN
        Can(f, Row(c).dir) =>
            missing[c] # "no" \/ Event(f) \in batch \/ (f \in ready /\ Event(f).co = c)

\* A registration for writing does not outlive its call: only those for
\* reading are left for later calls to meet (~EvWrite, co::sendto, co::connect).
WritesAreOwn ==
    \A f \in Fds : entry[f].w # 0 =>
        LET c == entry[f].w IN Waits(c) /\ call[c].fd = f /\ Row(c).dir = "w"

\* Both, about what Epoll::_ev_map holds while coroutines come and go.
SocketsAreRight == Notified /\ WritesAreOwn

\* What a call answers is true: it reports a timeout when its own time is up,
\* connect() that it is connected, poll() that the socket is ready - unless
\* the coroutine was once resumed for something it did not wait for
\* (Scheduler::resume takes any event of the coroutine as the answer).
AnswersAreTrue ==
    [][\A c \in Cos : Waits(c) /\ call'[c] = Idle =>
          LET f == call[c].fd IN
          /\ answer'[c] = "timeout" => why[c] = "time" \/ c \in strayed
          /\ answer'[c] = "ok" /\ call[c].op \in Connects =>
                link[f] \in {"up", "closed"} \/ c \in strayed
          /\ answer'[c] = "ok" /\ call[c].op \in Polls =>
                Can(f, Row(c).dir) \/ c \in strayed]_socketVars

\* It is in a call with a time limit.
Limited(c) == Waits(c) /\ Row(c).timed
===========================================================================
