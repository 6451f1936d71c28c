--------------------------- MODULE Sockets_proofs ---------------------------
(* What the epoll map holds while coroutines come and go, and what their    *)
(* calls answer, for any number of coroutines and sockets, any chunks and   *)
(* any programs: proofs about the steps of Sockets.                         *)
EXTENDS Sockets, TLAPS

---------------------------------------------------------------------------
(* The invariant.                                                          *)

Dirs == {"r", "w"}
Other(d) == IF d = "r" THEN "w" ELSE "r"
Entries == [r : Cos \union {0}, w : Cos \union {0}]

CallRecs ==
    [op : Calls \union {"idle", "sleep"}, fd : Fds \union {0}, left : Int,
     has : BOOLEAN, parked : BOOLEAN, looks : BOOLEAN]

SocketTyped ==
    /\ program.fds \subseteq Fds
    /\ entry \in [Fds -> Entries] /\ ready \subseteq Fds
    /\ data \in [Fds -> BOOLEAN] /\ room \in [Fds -> BOOLEAN]
    /\ link \in [Fds -> {"new", "going", "up", "refused", "closed"}]
    /\ running \in Cos \union {0} /\ batch \subseteq [fd : Fds, co : Cos]
    /\ call \in [Cos -> CallRecs]
    /\ timers \in [Cos -> SUBSET {"own", "old"}]
    /\ why \in [Cos -> {"begin", "event", "stray", "time", "old"}]
    /\ missing \in [Cos -> {"no", "refused", "foreign", "leftover", "removed"}]
    /\ answer \in [Cos -> {"none", "ok", "error", "timeout"}] /\ strayed \subseteq Cos

\* A coroutine that waits has a socket, in a direction of its own, and it is
\* parked or it runs.
Calling(c) ==
    Waits(c) =>
        /\ call[c].fd \in Fds /\ link[call[c].fd] # "new"
        /\ call[c].parked \/ running = c
        /\ call[c].looks => call[c].op \in Polls
        /\ \A d \in Cos \ {c} : Waits(d) /\ call[d].fd = call[c].fd => Row(d).dir # Row(c).dir

\* An epoll entry is for one direction, a new socket has none, and nothing
\* can be read or written before a connection is there.
Linked(f) ==
    /\ entry[f].r = 0 \/ entry[f].w = 0
    /\ link[f] = "new" => entry[f] = None
    /\ link[f] \in {"new", "going"} => ~data[f] /\ ~room[f]

\* A registration for writing is held by its call.
Owns(c, f) ==
    /\ Waits(c) /\ call[c].fd = f /\ Row(c).dir = "w" /\ call[c].has /\ ~call[c].looks
    /\ Row(c).wake # "keep" => call[c].parked
Writing(f) == entry[f].w # 0 => Owns(entry[f].w, f)

\* A call that believes in its registration has it.
Holding(c) ==
    Waits(c) =>
        /\ missing[c] = "no" /\ (call[c].parked \/ (Row(c).adds = "first" /\ call[c].has)) =>
              entry[call[c].fd][Row(c).dir] = c
        /\ call[c].op \in Polls /\ missing[c] = "refused" => call[c].looks
        /\ missing[c] # "refused" /\ (call[c].parked \/ (Row(c).adds = "first" /\ call[c].has)) =>
              entry[call[c].fd][Other(Row(c).dir)] # c
        /\ call[c].op \in Connects /\ ~call[c].parked /\ why[c] = "begin" =>
              entry[call[c].fd] = None

\* What it waits for is on its way.
Told(c) ==
    Waits(c) /\ call[c].parked /\ running # c /\ missing[c] = "no"
             /\ Can(call[c].fd, Row(c).dir) =>
        Event(call[c].fd) \in batch \/ call[c].fd \in ready

\* Old timers come from strays, and a call's own timer resumes it once.
Timing(c) ==
    /\ "old" \in timers[c] \/ why[c] \in {"old", "stray"} => c \in strayed
    /\ "own" \in timers[c] =>
          call[c].op = "sleep" \/ (Waits(c) /\ (Row(c).timed \/ call[c].looks))
    /\ running = c /\ why[c] = "time" /\ (call[c].op = "sleep" \/ call[c].parked) =>
          "own" \notin timers[c]
    /\ running = c /\ why[c] = "time" /\ Waits(c) =>
          call[c].looks \/ (Row(c).timed /\ call[c].parked)
    /\ running = c /\ (call[c].op = "sleep" \/ (call[c].looks /\ call[c].parked)) =>
          why[c] \in {"time", "old", "stray"}
    /\ running = c /\ Waits(c) /\ call[c].parked => why[c] # "begin"

\* An event that is for the call of a coroutine is true of it.
IsTrue(c) ==
    /\ link[call[c].fd] \in {"up", "refused", "closed"}
    /\ call[c].op \in Polls => Can(call[c].fd, Row(c).dir)
Reporting(c) ==
    c \notin strayed /\ Waits(c) /\ ~call[c].looks =>
        /\ [fd |-> call[c].fd, co |-> c] \in batch => IsTrue(c)
        /\ running = c /\ why[c] = "event" => IsTrue(c)

SocketInv ==
    /\ SocketTyped
    /\ \A f \in Fds : Linked(f) /\ Writing(f)
    /\ \A c \in Cos : Calling(c) /\ Holding(c) /\ Told(c) /\ Timing(c) /\ Reporting(c)

---------------------------------------------------------------------------
(* The rows of the calls.                                                  *)

\* What the rows of the calls have in common; trusts and polls: those of
\* connect and poll, and those of poll.
IsRow(row, trusts, polls) ==
    /\ row.dir \in Dirs /\ row.adds \in {"every", "first"} /\ row.timed \in BOOLEAN
    /\ row.wake \in {"keep", "w", "event"} /\ row.end \in {"keep", "w"}
    /\ row.expire \in {"keep", "r"} /\ (row.trusts <=> trusts)
    /\ row.dir = "w" /\ row.wake = "keep" => row.end = "w"
    /\ row.adds = "first" => row.wake = "keep"
    /\ row.end = "w" => row.adds = "first" /\ row.dir = "w"
    /\ trusts /\ ~polls => row.dir = "w"
    /\ polls => row.adds = "every" /\ row.wake = "event" /\ row.end = "keep" /\ row.expire = "keep"

LEMMA RowsAre ==
  ASSUME NEW op \in Calls
  PROVE  /\ IsRow(Rows[op], op \in Connects \union Polls, op \in Polls)
         /\ op \notin {"idle", "sleep"}
<1>1. op \in {"accept", "recv", "recvfrom", "recvn", "recv_ms", "recvfrom_ms", "recvn_ms", "send",
              "send_ms", "sendto", "sendto_ms", "connect", "connect_ms", "read", "read_ms", "write",
              "write_ms", "poll_in", "poll_out", "poll_in_ms", "poll_out_ms"}
  BY DEF Calls, Rows
<1> USE DEF Dirs, Connects, Polls
<1>2. CASE op \in {"accept", "recv", "recvfrom", "recvn", "read"}
  <2>1. IsRow(Plain("r"), FALSE, FALSE) /\ IsRow(All(Plain("r")), FALSE, FALSE)
    BY DEF IsRow, Plain, All
  <2>2. Rows[op] = Plain("r") \/ Rows[op] = All(Plain("r"))
    BY <1>2 DEF Rows, accept, recv, recvfrom, recvn, read
  <2> QED
    BY <1>2, <2>1, <2>2 DEF IsRow
<1>3. CASE op \in {"recv_ms", "recvfrom_ms", "recvn_ms", "read_ms"}
  <2>1. IsRow(EvRead, FALSE, FALSE) /\ IsRow(All(EvRead), FALSE, FALSE)
    BY DEF IsRow, EvRead, Plain, All
  <2>2. Rows[op] = EvRead \/ Rows[op] = All(EvRead)
    BY <1>3 DEF Rows, recv_ms, recvfrom_ms, recvn_ms, read_ms
  <2> QED
    BY <1>3, <2>1, <2>2 DEF IsRow
<1>4. CASE op \in {"send", "send_ms", "sendto_ms", "write", "write_ms"}
  <2>1. /\ IsRow(EvWrite, FALSE, FALSE) /\ IsRow(All(EvWrite), FALSE, FALSE)
        /\ IsRow(Timed(EvWrite), FALSE, FALSE) /\ IsRow(All(Timed(EvWrite)), FALSE, FALSE)
    BY DEF IsRow, EvWrite, Plain, All, Timed
  <2>2. \/ Rows[op] = EvWrite \/ Rows[op] = All(EvWrite)
        \/ Rows[op] = Timed(EvWrite) \/ Rows[op] = All(Timed(EvWrite))
    BY <1>4 DEF Rows, send, send_ms, sendto_ms, write, write_ms
  <2> QED
    BY <1>4, <2>1, <2>2 DEF IsRow
<1>5. CASE op = "sendto"
  <2>1. IsRow(sendto, FALSE, FALSE)
    BY DEF IsRow, sendto, Plain
  <2>2. Rows[op] = sendto
    BY <1>5 DEF Rows
  <2> QED
    BY <1>5, <2>1, <2>2 DEF IsRow
<1>6. CASE op \in {"connect", "connect_ms"}
  <2>1. IsRow(connect, TRUE, FALSE) /\ IsRow(connect_ms, TRUE, FALSE)
    BY DEF IsRow, connect, connect_ms, EvWrite, Timed, Plain
  <2>2. Rows[op] = connect \/ Rows[op] = connect_ms
    BY <1>6 DEF Rows
  <2> QED
    BY <1>6, <2>1, <2>2 DEF IsRow
<1>7. CASE op \in {"poll_in", "poll_out", "poll_in_ms", "poll_out_ms"}
  <2>1. /\ IsRow(poll("r"), TRUE, TRUE) /\ IsRow(poll("w"), TRUE, TRUE)
        /\ IsRow(Timed(poll("r")), TRUE, TRUE) /\ IsRow(Timed(poll("w")), TRUE, TRUE)
    BY DEF IsRow, poll, Timed, Plain
  <2>2. \/ Rows[op] = poll("r") \/ Rows[op] = poll("w")
        \/ Rows[op] = Timed(poll("r")) \/ Rows[op] = Timed(poll("w"))
    BY <1>7 DEF Rows
  <2> QED
    BY <1>7, <2>1, <2>2
<1> QED
  BY <1>1, <1>2, <1>3, <1>4, <1>5, <1>6, <1>7

---------------------------------------------------------------------------
(* A step of one coroutine: what the others keep.                          *)

\* The coroutine runs, and the others do not.
Alone(c) ==
    /\ running = c /\ running' \in {c, 0}
    /\ \A d \in Cos \ {c} : call'[d] = call[d] /\ timers'[d] = timers[d] /\ why'[d] = why[d]
    /\ batch' = batch /\ strayed \subseteq strayed'

\* What one of them waits for, on socket f and in direction x, is there if it
\* was, and does not come while that one relies on being told ...
Unmoved(d, f, x) ==
    /\ link[f] \in {"up", "refused", "closed"} => link'[f] \in {"up", "refused", "closed"}
    /\ Can(f, x) => Can(f, x)'
    /\ missing'[d] = "no" /\ Can(f, x)' => Can(f, x)

\* ... and so is what it has registered, unless it is known that this is gone.
Kept(d, f, x) ==
    /\ missing'[d] = "no" =>
          missing[d] = "no" /\ entry'[f] = entry[f] /\ (f \in ready => f \in ready')
    /\ missing'[d] = "refused" => missing[d] = "refused"
    /\ missing'[d] # "refused" => entry'[f][Other(x)] # d

LEMMA WaiterIs ==
  ASSUME SocketInv, NEW c \in Cos, Waits(c)
  PROVE  /\ call[c].fd \in Fds /\ Row(c).dir \in Dirs /\ Row(c) = Rows[call[c].op]
         /\ IsRow(Row(c), call[c].op \in Connects \union Polls, call[c].op \in Polls)
         /\ call[c].op \notin {"idle", "sleep"}
<1>1. call[c].op \in Calls /\ Row(c) = Rows[call[c].op] /\ call[c].fd \in Fds
  BY DEF Waits, Row, SocketInv, Calling
<1>2. /\ IsRow(Row(c), call[c].op \in Connects \union Polls, call[c].op \in Polls)
      /\ call[c].op \notin {"idle", "sleep"}
  BY <1>1, RowsAre
<1>3. Row(c).dir \in Dirs
  BY <1>2 DEF IsRow
<1> QED
  BY <1>1, <1>2, <1>3

\* What the others know and are told stays true.
LEMMA OthersKeep ==
  ASSUME SocketInv, NEW c \in Cos, NEW d \in Cos \ {c}, Alone(c),
         \A f \in Fds, x \in Dirs :
            Waits(d) /\ f = call[d].fd /\ x = Row(d).dir => Unmoved(d, f, x) /\ Kept(d, f, x)
  PROVE  Holding(d)' /\ Told(d)' /\ Timing(d)' /\ Reporting(d)'
<1>1. /\ call'[d] = call[d] /\ timers'[d] = timers[d] /\ why'[d] = why[d]
      /\ batch' = batch /\ strayed \subseteq strayed' /\ running = c /\ running' # d /\ c # d
  <2>1. 0 \notin Cos
    BY SocketAssumption
  <2> QED
    BY <2>1 DEF Alone
<1>2. (Waits(d)' <=> Waits(d)) /\ Row(d)' = Row(d)
  BY <1>1 DEF Waits, Row
<1>3. Calling(d) /\ Holding(d) /\ Told(d) /\ Timing(d) /\ Reporting(d)
  BY DEF SocketInv
<1>4. Timing(d)'
  BY <1>1, <1>2, <1>3 DEF Timing
<1>5. CASE ~Waits(d)
  BY <1>2, <1>4, <1>5 DEF Holding, Told, Reporting
<1>6. CASE Waits(d)
  <2>1. PICK f \in Fds, x \in Dirs : f = call[d].fd /\ x = Row(d).dir
    BY <1>6, WaiterIs
  <2>2. Unmoved(d, f, x) /\ Kept(d, f, x)
    BY <1>6, <2>1
  <2>3. call[d].parked
    BY <1>1, <1>3, <1>6 DEF Calling
  <2>4. Holding(d)'
    BY <1>1, <1>2, <1>3, <1>6, <2>1, <2>2, <2>3 DEF Holding, Kept
  <2>5. Told(d)'
    <3>1. Told(d)' <=> (missing'[d] = "no" /\ Can(f, x)' => Event(f)' \in batch' \/ f \in ready')
      BY <1>1, <1>2, <1>6, <2>1, <2>3 DEF Told, Event, Can, Failed
    <3>2. Told(d) <=> (missing[d] = "no" /\ Can(f, x) => Event(f) \in batch \/ f \in ready)
      BY <1>1, <1>6, <2>1, <2>3 DEF Told
    <3>3. missing'[d] = "no" => Event(f)' = Event(f)
      BY <2>2 DEF Kept, Event
    <3> QED
      BY <1>1, <1>3, <2>2, <3>1, <3>2, <3>3 DEF Unmoved, Kept
  <2>6. Reporting(d)'
    <3>1. IsTrue(d)' <=> link'[f] \in {"up", "refused", "closed"} /\ (call[d].op \in Polls => Can(f, x)')
      BY <1>1, <1>2, <2>1 DEF IsTrue, Can, Failed
    <3>2. IsTrue(d) <=> link[f] \in {"up", "refused", "closed"} /\ (call[d].op \in Polls => Can(f, x))
      BY <2>1 DEF IsTrue
    <3>3. IsTrue(d) => IsTrue(d)'
      BY <2>2, <3>1, <3>2 DEF Unmoved
    <3> QED
      BY <1>1, <1>2, <1>3, <3>3 DEF Reporting
  <2> QED
    BY <1>4, <2>4, <2>5, <2>6
<1> QED
  BY <1>5, <1>6

\* What del_ev_read, del_ev_write and del_event leave.
LEMMA RestIs ==
  ASSUME NEW e \in Entries, NEW what \in {"keep", "event", "r", "w"}
  PROVE  /\ Rest(e, what) \in Entries
         /\ \A x \in Dirs : Rest(e, what)[x] = IF what = "event" \/ what = x THEN 0 ELSE e[x]
<1>1. CASE what = "keep"
  BY <1>1 DEF Rest, Entries, Dirs
<1>2. CASE what = "event"
  BY <1>2 DEF Rest, None, Entries, Dirs
<1>3. CASE what = "r"
  BY <1>3 DEF Rest, Entries, Dirs
<1>4. CASE what = "w"
  BY <1>4 DEF Rest, Entries, Dirs
<1> QED
  BY <1>1, <1>2, <1>3, <1>4

LEMMA EntryIs ==
  ASSUME NEW e \in Entries
  PROVE  e = None <=> e.r = 0 /\ e.w = 0
BY DEF Entries, None

LEMMA Removed ==
  ASSUME SocketInv, NEW c \in Cos, running = c, NEW f \in Fds,
         NEW what \in {"keep", "event", "r", "w"}, Del(f, what), Deprive(c, f, what)
  PROVE  /\ entry' \in [Fds -> Entries] /\ ready' \subseteq Fds
         /\ missing' \in [Cos -> {"no", "refused", "foreign", "leftover", "removed"}]
         /\ missing'[c] = missing[c]
         /\ \A x \in Dirs : entry'[f][x] = IF what = "event" \/ what = x THEN 0 ELSE entry[f][x]
         /\ \A g \in Fds : g # f => entry'[g] = entry[g] /\ (g \in ready => g \in ready')
         /\ \A d \in Cos \ {c}, g \in Fds, x \in Dirs :
               Waits(d) /\ g = call[d].fd /\ x = Row(d).dir => Kept(d, g, x)
<1>1. /\ entry \in [Fds -> Entries] /\ ready \subseteq Fds /\ entry[f] \in Entries
      /\ missing \in [Cos -> {"no", "refused", "foreign", "leftover", "removed"}]
  BY DEF SocketInv, SocketTyped
<1>2. /\ entry'[f] = Rest(entry[f], what) /\ Rest(entry[f], what) \in Entries
      /\ \A g \in Fds : g # f => entry'[g] = entry[g]
      /\ entry' \in [Fds -> Entries]
  <2>1. Rest(entry[f], what) \in Entries
    BY <1>1, RestIs
  <2> QED
    BY <1>1, <2>1 DEF Del
<1>3. \A x \in Dirs : entry'[f][x] = IF what = "event" \/ what = x THEN 0 ELSE entry[f][x]
  BY <1>1, <1>2, RestIs
<1>4. /\ ready' \subseteq Fds /\ \A g \in Fds : g # f => (g \in ready => g \in ready')
      /\ entry'[f] # None => ready' = ready
  BY <1>1 DEF Del
<1>5. /\ \A d \in Cos : missing'[d] = IF d \in Deprived(c, f, what) THEN "removed" ELSE missing[d]
      /\ missing' \in [Cos -> {"no", "refused", "foreign", "leftover", "removed"}]
  BY <1>1 DEF Deprive
<1>6. missing'[c] = missing[c]
  BY <1>5 DEF Deprived
<1>7. ASSUME NEW d \in Cos \ {c}, NEW g \in Fds, NEW x \in Dirs,
             Waits(d), g = call[d].fd, x = Row(d).dir
      PROVE  Kept(d, g, x)
  <2>1. call[d].parked /\ Holding(d)
    BY <1>7 DEF SocketInv, Calling
  <2>2. /\ missing[d] = "no" => entry[g][x] = d
        /\ missing[d] # "refused" => entry[g][Other(x)] # d
    BY <1>7, <2>1 DEF Holding
  <2>3. d # 0 /\ Other(x) \in Dirs /\ Other(x) # x /\ Dirs = {x, Other(x)}
    BY SocketAssumption DEF Dirs, Other
  <2>4. entry[g][x] = 0 \/ entry[g][Other(x)] = 0
    BY DEF SocketInv, Linked, Dirs, Other
  <2>5. CASE g # f
    <3>1. d \notin Deprived(c, f, what)
      BY <1>7, <2>5 DEF Deprived
    <3> QED
      BY <1>2, <1>4, <1>5, <2>2, <2>5, <3>1 DEF Kept
  <2>6. CASE g = f
    <3>1. d \in Deprived(c, f, what) <=> entry[g][x] # 0 /\ entry'[g][x] = 0
      BY <1>2, <1>7, <2>1, <2>6 DEF Deprived
    <3>2. missing'[d] = "no" => missing[d] = "no" /\ entry'[g][x] = d /\ entry'[g] = entry[g]
      <4>1. SUFFICES ASSUME missing'[d] = "no"
                     PROVE  missing[d] = "no" /\ entry'[g][x] = d /\ entry'[g] = entry[g]
        OBVIOUS
      <4>2. d \notin Deprived(c, f, what) /\ missing[d] = "no"
        BY <1>5, <4>1
      <4>3. entry[g][x] = d /\ entry'[g][x] # 0
        BY <2>2, <2>3, <3>1, <4>2
      <4>4. entry'[g][x] = d /\ entry[g][Other(x)] = 0 /\ entry'[g][Other(x)] = 0
        BY <1>3, <2>3, <2>4, <2>6, <4>3
      <4>5. entry'[g] \in Entries /\ entry[g] \in Entries
        BY <1>1, <1>2
      <4>6. entry'[g].r = entry[g].r /\ entry'[g].w = entry[g].w
        BY <2>3, <4>3, <4>4 DEF Dirs
      <4>7. entry'[g] = entry[g]
        BY <4>5, <4>6 DEF Entries
      <4> QED
        BY <4>2, <4>4, <4>7
    <3>3. missing'[d] = "no" => (g \in ready => g \in ready')
      <4>1. entry'[g][x] = d => entry'[g] # None
        BY <2>3 DEF None, Dirs
      <4> QED
        BY <1>4, <2>6, <3>2, <4>1
    <3>4. missing'[d] = "refused" => missing[d] = "refused"
      BY <1>5
    <3>5. missing'[d] # "refused" => entry'[g][Other(x)] # d
      <4>1. CASE d \in Deprived(c, f, what)
        BY <1>3, <2>3, <2>4, <2>6, <3>1, <4>1
      <4>2. CASE d \notin Deprived(c, f, what)
        BY <1>3, <1>5, <2>2, <2>3, <2>6, <4>2
      <4> QED
        BY <4>1, <4>2
    <3> QED
      BY <3>2, <3>3, <3>4, <3>5 DEF Kept
  <2> QED
    BY <2>5, <2>6
<1> QED
  BY <1>2, <1>3, <1>4, <1>5, <1>6, <1>7

\* A step of a coroutine: what it has to keep for itself and for the sockets.
LEMMA OwnStep ==
  ASSUME SocketInv, NEW c \in Cos, Alone(c), SocketTyped',
         \A f \in Fds : /\ Linked(f)'
                        /\ entry'[f].w \in {0, entry[f].w, c}
                        /\ entry'[f].w = c => Owns(c, f)',
         \A d \in Cos : Calling(d)',
         \A d \in Cos \ {c}, f \in Fds, x \in Dirs :
            Waits(d) /\ f = call[d].fd /\ x = Row(d).dir => Unmoved(d, f, x) /\ Kept(d, f, x),
         Holding(c)', Told(c)', Timing(c)', Reporting(c)'
  PROVE  SocketInv'
<1>1. ASSUME NEW f \in Fds
      PROVE  Writing(f)'
  <2>1. entry'[f].w # 0 /\ entry'[f].w # c => entry'[f].w = entry[f].w
    OBVIOUS
  <2>2. SUFFICES ASSUME NEW d \in Cos \ {c}, entry[f].w = d, d # 0
                 PROVE  Owns(d, f)'
    <3>1. entry[f].w \in Cos \union {0}
      BY DEF SocketInv, SocketTyped, Entries
    <3> QED
      BY <2>1, <3>1 DEF Writing
  <2>3. Owns(d, f) /\ call'[d] = call[d]
    BY <2>2 DEF SocketInv, Writing, Alone
  <2> QED
    BY <2>3 DEF Owns, Waits, Row
<1>2. ASSUME NEW d \in Cos
      PROVE  Holding(d)' /\ Told(d)' /\ Timing(d)' /\ Reporting(d)'
  <2>1. CASE d = c
    BY <2>1
  <2>2. CASE d # c
    BY <2>2, OthersKeep
  <2> QED
    BY <2>1, <2>2
<1> QED
  BY <1>1, <1>2 DEF SocketInv

\* Who calls what, after a step in which a call goes on or is over.
LEMMA CallingKept ==
  ASSUME SocketInv, NEW c \in Cos, Alone(c),
         \A d \in Cos : Waits(d) => link'[call[d].fd] # "new",
         Waits(c)' => /\ Waits(c) /\ call'[c].op = call[c].op /\ call'[c].fd = call[c].fd
                      /\ call'[c].parked \/ running' = c
                      /\ call'[c].looks => call[c].op \in Polls
  PROVE  \A d \in Cos : Calling(d)'
<1>1. ASSUME NEW d \in Cos, Waits(d)'
      PROVE  /\ Waits(d) /\ call'[d].fd = call[d].fd /\ Row(d)' = Row(d)
             /\ call'[d].parked \/ running' = d
             /\ call'[d].looks => call'[d].op \in Polls
  <2>1. CASE d = c
    BY <1>1, <2>1 DEF Row
  <2>2. CASE d # c
    <3>1. call'[d] = call[d] /\ running # d
      BY <2>2 DEF Alone
    <3>2. Waits(d) /\ Row(d)' = Row(d)
      BY <1>1, <3>1 DEF Waits, Row
    <3> QED
      BY <3>1, <3>2 DEF SocketInv, Calling
  <2> QED
    BY <2>1, <2>2
<1> SUFFICES ASSUME NEW d \in Cos, Waits(d)'
             PROVE  Calling(d)'
  BY DEF Calling
<1>2. Waits(d) /\ Calling(d)
  BY <1>1 DEF SocketInv
<1>3. ASSUME NEW e \in Cos \ {d}, Waits(e)', call'[e].fd = call'[d].fd
      PROVE  Row(e)'.dir # Row(d)'.dir
  <2>1. Waits(e) /\ call[e].fd = call[d].fd /\ Row(e)' = Row(e) /\ Row(d)' = Row(d)
    BY <1>1, <1>3
  <2> QED
    BY <1>2, <2>1 DEF Calling
<1> QED
  BY <1>1, <1>2, <1>3 DEF Calling

\* What a call removes as it returns, or as a chunk of it is done.
LEMMA EndingIs ==
  ASSUME SocketInv, NEW c \in Cos, Waits(c), NEW a
  PROVE  /\ Ending(c, a) \in {"keep", "r", "w"}
         /\ \A f \in Fds : entry[f].w = c /\ Row(c).wake = "keep" => Ending(c, a) = "w"
<1>1. IsRow(Row(c), call[c].op \in Connects \union Polls, call[c].op \in Polls)
  BY WaiterIs
<1>2. Ending(c, a) \in {"keep", "r", "w"}
  BY <1>1 DEF Ending, IsRow
<1>3. ASSUME NEW f \in Fds, entry[f].w = c, Row(c).wake = "keep"
      PROVE  Ending(c, a) = "w"
  <2>1. Owns(c, f)
    BY <1>3, SocketAssumption DEF SocketInv, Writing
  <2> QED
    BY <1>1, <1>3, <2>1 DEF Owns, Ending, IsRow
<1> QED
  BY <1>2, <1>3

---------------------------------------------------------------------------
(* The steps of a call.                                                    *)

\* Removals: the entries stay for one direction, and no other writes.
LEMMA RemovedLinks ==
  ASSUME SocketInv, NEW c \in Cos, running = c, NEW f \in Fds,
         NEW what \in {"keep", "event", "r", "w"}, Del(f, what), Deprive(c, f, what)
  PROVE  \A g \in Fds : /\ entry'[g].r = 0 \/ entry'[g].w = 0
                        /\ entry[g] = None => entry'[g] = None
                        /\ entry'[g].w \in {0, entry[g].w}
<1> SUFFICES ASSUME NEW g \in Fds
             PROVE  /\ entry'[g].r = 0 \/ entry'[g].w = 0
                    /\ entry[g] = None => entry'[g] = None
                    /\ entry'[g].w \in {0, entry[g].w}
  OBVIOUS
<1>1. /\ entry' \in [Fds -> Entries] /\ entry \in [Fds -> Entries]
      /\ \A x \in Dirs : entry'[f][x] = IF what = "event" \/ what = x THEN 0 ELSE entry[f][x]
      /\ g # f => entry'[g] = entry[g]
  BY Removed DEF SocketInv, SocketTyped
<1>2. /\ entry'[g].r \in {0, entry[g].r} /\ entry'[g].w \in {0, entry[g].w}
  BY <1>1 DEF Dirs
<1>3. Linked(g)
  BY DEF SocketInv
<1>4. /\ entry[g] = None => entry[g].r = 0 /\ entry[g].w = 0
      /\ entry'[g].r = 0 /\ entry'[g].w = 0 => entry'[g] = None
  BY <1>1, EntryIs
<1> QED
  BY <1>2, <1>3, <1>4 DEF Linked

LEMMA ReturnStep ==
  ASSUME SocketInv, NEW c \in Cos, running = c, Waits(c), ~call[c].parked,
         NEW a \in {"ok", "error"}, Return(c, a)
  PROVE  SocketInv'
<1>1. PICK f \in Fds : f = call[c].fd
  BY WaiterIs
<1>2. PICK what \in {"keep", "event", "r", "w"} : what = Ending(c, a)
  BY EndingIs
<1>3. Del(f, what) /\ Deprive(c, f, what)
  BY <1>1, <1>2 DEF Return
<1>4. /\ answer' = [answer EXCEPT ![c] = a] /\ call' = [call EXCEPT ![c] = Idle]
      /\ timers' = [timers EXCEPT ![c] = timers[c] \ {"own"}]
      /\ why' = [why EXCEPT ![c] = "begin"]
      /\ UNCHANGED <<program, strayed, data, room, link, running, batch>>
  BY DEF Return, Own, Fresh, osVars
<1>5. SocketTyped
  BY DEF SocketInv
<1>6. Alone(c)
  BY <1>4, <1>5 DEF Alone, SocketTyped
<1>7. Idle \in CallRecs
      /\ Idle.op = "idle" /\ ~Idle.looks
  BY DEF Idle, CallRecs
<1>8. SocketTyped'
  <2>1. /\ entry' \in [Fds -> Entries] /\ ready' \subseteq Fds
        /\ missing' \in [Cos -> {"no", "refused", "foreign", "leftover", "removed"}]
    BY <1>3, Removed
  <2> QED
    BY <1>4, <1>5, <1>7, <2>1 DEF SocketTyped
<1>9. call'[c].op = "idle" /\ ~call'[c].looks /\ why'[c] = "begin" /\ timers'[c] = timers[c] \ {"own"} /\ ~Waits(c)'
  <2>1. call'[c].op = "idle" /\ ~call'[c].looks /\ why'[c] = "begin" /\ timers'[c] = timers[c] \ {"own"}
    BY <1>4, <1>5, <1>7 DEF SocketTyped
  <2>2. "idle" \notin Calls
    BY RowsAre
  <2> QED
    BY <2>1, <2>2 DEF Waits
<1>10. ASSUME NEW g \in Fds
       PROVE  Linked(g)' /\ entry'[g].w \in {0, entry[g].w, c} /\ entry'[g].w # c
  <2>1. /\ entry'[g].r = 0 \/ entry'[g].w = 0
        /\ entry[g] = None => entry'[g] = None
        /\ entry'[g].w \in {0, entry[g].w}
    BY <1>3, RemovedLinks
  <2>2. Linked(g) /\ Writing(g)
    BY DEF SocketInv
  <2>3. entry'[g].w # c
    <3>1. c # 0
      BY SocketAssumption
    <3>2. CASE entry[g].w = c
      <4>1. Owns(c, g)
        BY <2>2, <3>1, <3>2 DEF Writing
      <4>2. g = f /\ what = "w"
        BY <1>1, <1>2, <3>2, <4>1, EndingIs DEF Owns
      <4>3. entry'[f].w = 0
        BY <1>3, <4>2, Removed DEF Dirs
      <4> QED
        BY <3>1, <4>2, <4>3
    <3> QED
      BY <2>1, <3>1, <3>2
  <2> QED
    BY <1>4, <2>1, <2>2, <2>3 DEF Linked
<1>11. \A d \in Cos : Calling(d)'
  <2>1. \A d \in Cos : Waits(d) => link'[call[d].fd] # "new"
    BY <1>4 DEF SocketInv, Calling
  <2> QED
    BY <1>6, <1>9, <2>1, CallingKept
<1>12. \A d \in Cos \ {c}, g \in Fds, x \in Dirs :
          Waits(d) /\ g = call[d].fd /\ x = Row(d).dir => Unmoved(d, g, x) /\ Kept(d, g, x)
  <2>1. \A d \in Cos, g \in Fds, x \in Dirs : Unmoved(d, g, x)
    BY <1>4 DEF Unmoved, Can, Failed
  <2> QED
    BY <1>3, <2>1, Removed
<1>13. Holding(c)' /\ Told(c)' /\ Reporting(c)'
  BY <1>9 DEF Holding, Told, Reporting
<1>14. Timing(c)'
  <2>1. Timing(c)
    BY DEF SocketInv
  <2> QED
    BY <1>4, <1>9, <2>1 DEF Timing
<1> QED
  BY <1>6, <1>8, <1>10, <1>11, <1>12, <1>13, <1>14, OwnStep

LEMMA NoneRemoved ==
  ASSUME SocketInv, NEW c \in Cos, running = c, UNCHANGED <<entry, ready>>,
         \A d \in Cos \ {c} : missing'[d] = missing[d]
  PROVE  \A d \in Cos \ {c}, g \in Fds, x \in Dirs :
            Waits(d) /\ g = call[d].fd /\ x = Row(d).dir => Kept(d, g, x)
<1> SUFFICES ASSUME NEW d \in Cos \ {c}, Waits(d)
             PROVE  LET g == call[d].fd
                        x == Row(d).dir
                    IN  Kept(d, g, x)
  OBVIOUS
<1>1. Holding(d) /\ call[d].parked
  BY DEF SocketInv, Calling
<1> QED
  BY <1>1 DEF Holding, Kept

\* A call that does not wait for its first step and is not over.
LEMMA ProgressStep ==
  ASSUME SocketInv, NEW c \in Cos, running = c, Waits(c), ~call[c].parked, ~Row(c).trusts,
         ~Failed(call[c].fd), Can(call[c].fd, Row(c).dir), Progress(c)
  PROVE  SocketInv'
<1>1. PICK f \in Fds, y \in Dirs : f = call[c].fd /\ y = Row(c).dir
  BY WaiterIs
<1> DEFINE chunkDone == Row(c).timed /\ (call[c].left - 1) % Chunk = 0
           over == call[c].left = 1 \/ chunkDone
<1>2. /\ y = "r" => room' = room /\ \E more \in BOOLEAN : data' = [data EXCEPT ![f] = more]
      /\ y # "r" => data' = data /\ \E more \in BOOLEAN : room' = [room EXCEPT ![f] = more]
      /\ call[c].left = 1 => call' = [call EXCEPT ![c] = Idle] /\ answer' = [answer EXCEPT ![c] = "ok"]
      /\ call[c].left # 1 =>
            /\ call' = [call EXCEPT ![c].left = @ - 1,
                                    ![c].has = IF chunkDone THEN FALSE ELSE @]
            /\ answer' = answer
      /\ over => /\ timers' = [timers EXCEPT ![c] = timers[c] \ {"own"}]
                 /\ Del(f, Ending(c, "ok")) /\ Deprive(c, f, Ending(c, "ok"))
      /\ ~over => UNCHANGED <<timers, entry, ready, missing>>
      /\ why' = [why EXCEPT ![c] = "begin"]
      /\ UNCHANGED <<program, strayed, link, running, batch>>
  BY <1>1 DEF Progress, Own, Fresh, epollVars
<1> HIDE DEF chunkDone, over
<1>3. PICK what \in {"keep", "event", "r", "w"} : what = Ending(c, "ok")
  BY EndingIs
<1>4. SocketTyped
  BY DEF SocketInv
<1>5. IsRow(Row(c), call[c].op \in Connects \union Polls, call[c].op \in Polls) /\ call[c].op \in Calls
  BY WaiterIs DEF Waits
<1>6. call[c].op \notin Connects \union Polls
  BY <1>5 DEF IsRow
<1>7. link[f] = "up"
  <2>1. Linked(f) /\ link[f] \notin {"refused", "closed"} /\ (data[f] \/ room[f])
    BY <1>1 DEF SocketInv, Failed, Can
  <2> QED
    BY <1>4, <2>1 DEF Linked, SocketTyped
<1>8. Idle \in CallRecs
      /\ Idle.op = "idle" /\ ~Idle.looks /\ ~Idle.parked
  BY DEF Idle, CallRecs
<1>9. "idle" \notin Calls
  BY RowsAre
<1>10. call[c].left # 1 =>
          /\ call'[c] \in CallRecs
          /\ call'[c].op = call[c].op /\ call'[c].fd = call[c].fd /\ call'[c].looks = call[c].looks
          /\ call'[c].parked = call[c].parked
          /\ call'[c].has = IF chunkDone THEN FALSE ELSE call[c].has
  <2>1. call[c] \in CallRecs /\ call \in [Cos -> CallRecs]
    BY <1>4 DEF SocketTyped, CallRecs
  <2>2. call[c].left - 1 \in Int /\ call[c].has \in BOOLEAN
    BY <2>1 DEF CallRecs
  <2>3. PICK n \in Int, h \in BOOLEAN :
           n = call[c].left - 1 /\ h = (IF chunkDone THEN FALSE ELSE call[c].has)
    <3>1. CASE chunkDone
      BY <2>2, <3>1
    <3>2. CASE ~chunkDone
      BY <2>2, <3>2
    <3> QED
      BY <3>1, <3>2
  <2>4. call[c].left # 1 => call'[c] = [[call[c] EXCEPT !.left = n] EXCEPT !.has = h]
    BY <1>2, <2>1, <2>3
  <2> QED
    BY <2>1, <2>3, <2>4 DEF CallRecs
<1>11. /\ call' \in [Cos -> CallRecs]
       /\ \A d \in Cos \ {c} : call'[d] = call[d] /\ timers'[d] = timers[d] /\ why'[d] = why[d]
       /\ timers' \in [Cos -> SUBSET {"own", "old"}] /\ timers'[c] \subseteq timers[c]
       /\ why'[c] = "begin" /\ ~call'[c].parked
       /\ over => "own" \notin timers'[c]
  <2>1. /\ \A d \in Cos \ {c} : timers'[d] = timers[d] /\ why'[d] = why[d]
        /\ timers' \in [Cos -> SUBSET {"own", "old"}] /\ timers'[c] \subseteq timers[c]
        /\ why'[c] = "begin" /\ (over => "own" \notin timers'[c])
    BY <1>2, <1>4 DEF SocketTyped
  <2>2. CASE call[c].left = 1
    BY <1>2, <1>4, <1>8, <2>1, <2>2 DEF SocketTyped
  <2>3. CASE call[c].left # 1
    <3>1. call'[c] \in CallRecs /\ ~call'[c].parked
      BY <1>10, <2>3
    <3> QED
      BY <1>2, <1>4, <2>1, <2>3, <3>1 DEF SocketTyped
  <2> QED
    BY <2>2, <2>3
<1>12. /\ call[c].left = 1 => ~Waits(c)' /\ call'[c].op = "idle" /\ ~call'[c].looks
       /\ call[c].left # 1 => /\ call'[c].op = call[c].op /\ call'[c].fd = call[c].fd
                              /\ call'[c].looks = call[c].looks
                              /\ call'[c].has => call[c].has /\ ~over
                              /\ ~over => call'[c].has = call[c].has
  <2>1. CASE call[c].left = 1
    BY <1>2, <1>4, <1>8, <1>9, <2>1 DEF SocketTyped, CallRecs, Waits
  <2>2. CASE call[c].left # 1
    BY <1>4, <1>10, <2>2 DEF over, SocketTyped, CallRecs
  <2> QED
    BY <2>1, <2>2
<1>13. Alone(c)
  BY <1>2, <1>4, <1>11 DEF Alone
<1>14. /\ data' \in [Fds -> BOOLEAN] /\ room' \in [Fds -> BOOLEAN]
       /\ \A g \in Fds \ {f} : data'[g] = data[g] /\ room'[g] = room[g]
  <2>1. data \in [Fds -> BOOLEAN] /\ room \in [Fds -> BOOLEAN]
    BY <1>4 DEF SocketTyped
  <2>2. CASE y = "r"
    <3>1. room' = room
      BY <1>2, <2>2
    <3>2. PICK more \in BOOLEAN : data' = [data EXCEPT ![f] = more]
      BY <1>2, <2>2
    <3> QED
      BY <2>1, <3>1, <3>2
  <2>3. CASE y # "r"
    <3>1. data' = data
      BY <1>2, <2>3
    <3>2. PICK more \in BOOLEAN : room' = [room EXCEPT ![f] = more]
      BY <1>2, <2>3
    <3> QED
      BY <2>1, <3>1, <3>2
  <2> QED
    BY <2>2, <2>3
<1>15. /\ entry' \in [Fds -> Entries] /\ ready' \subseteq Fds
       /\ missing' \in [Cos -> {"no", "refused", "foreign", "leftover", "removed"}]
       /\ missing'[c] = missing[c]
       /\ \A g \in Fds : /\ entry'[g].r = 0 \/ entry'[g].w = 0
                         /\ entry[g] = None => entry'[g] = None
                         /\ entry'[g].w \in {0, entry[g].w}
       /\ \A d \in Cos \ {c}, g \in Fds, x \in Dirs :
             Waits(d) /\ g = call[d].fd /\ x = Row(d).dir => Kept(d, g, x)
  <2>1. CASE over
    BY <1>2, <1>3, <2>1, Removed, RemovedLinks
  <2>2. CASE ~over
    <3>1. \A g \in Fds : Linked(g)
      BY DEF SocketInv
    <3> QED
      BY <1>2, <1>4, <2>2, <3>1, NoneRemoved DEF SocketTyped, Linked
  <2> QED
    BY <2>1, <2>2
<1>16. SocketTyped'
  <2>1. answer' \in [Cos -> {"none", "ok", "error", "timeout"}]
    BY <1>2, <1>4 DEF SocketTyped
  <2> QED
    BY <1>2, <1>4, <1>11, <1>14, <1>15, <2>1 DEF SocketTyped
<1>17. ASSUME NEW g \in Fds
       PROVE  Linked(g)'
  <2>1. Linked(g)
    BY DEF SocketInv
  <2> QED
    BY <1>2, <1>7, <1>14, <1>15, <2>1 DEF Linked
<1>18. ASSUME NEW g \in Fds, entry'[g].w = c
       PROVE  Owns(c, g)'
  <2>1. entry[g].w = c /\ c # 0
    BY <1>15, <1>18, SocketAssumption
  <2>2. Owns(c, g)
    BY <2>1 DEF SocketInv, Writing
  <2>3. ~over
    <3>1. SUFFICES ASSUME over
                   PROVE  FALSE
      OBVIOUS
    <3>2. g = f /\ what = "w"
      BY <1>1, <1>3, <2>1, <2>2, EndingIs DEF Owns
    <3>3. entry'[f].w = 0
      BY <1>2, <1>3, <3>1, <3>2, Removed DEF Dirs
    <3> QED
      BY <1>18, <2>1, <3>2, <3>3
  <2>4. call[c].left # 1
    BY <2>3 DEF over
  <2>5. Waits(c)' /\ Row(c)' = Row(c)
    BY <1>12, <2>4 DEF Waits, Row
  <2> QED
    BY <1>12, <2>2, <2>3, <2>4, <2>5 DEF Owns
<1>19. \A d \in Cos : Calling(d)'
  <2>1. \A d \in Cos : Waits(d) => link'[call[d].fd] # "new"
    BY <1>2 DEF SocketInv, Calling
  <2>2. running' = c /\ Calling(c)
    BY <1>2 DEF SocketInv
  <2> QED
    BY <1>12, <1>13, <2>1, <2>2, CallingKept DEF Calling
<1>20. ASSUME NEW d \in Cos \ {c}, NEW g \in Fds, NEW x \in Dirs,
              Waits(d), g = call[d].fd, x = Row(d).dir
       PROVE  Unmoved(d, g, x)
  <2>1. CASE g # f
    BY <1>2, <1>14, <2>1 DEF Unmoved, Can, Failed
  <2>2. CASE g = f
    <3>1. x # y
      BY <1>1, <1>20, <2>2 DEF SocketInv, Calling
    <3> QED
      BY <1>2, <2>2, <3>1 DEF Unmoved, Can, Failed, Dirs
  <2> QED
    BY <2>1, <2>2
<1>21. Holding(c)' /\ Told(c)' /\ Timing(c)' /\ Reporting(c)'
  <2>1. Holding(c) /\ Timing(c) /\ Reporting(c) /\ Calling(c)
    BY DEF SocketInv
  <2>2. CASE call[c].left = 1
    <3>1. over
      BY <2>2 DEF over
    <3>2. Timing(c)'
      BY <1>2, <1>11, <1>12, <2>1, <2>2, <3>1 DEF Timing
    <3> QED
      BY <1>12, <2>2, <3>2 DEF Holding, Told, Reporting
  <2>3. CASE call[c].left # 1
    <3>1. Waits(c)' /\ Row(c)' = Row(c)
      BY <1>12, <2>3 DEF Waits, Row
    <3>2. Holding(c)'
      BY <1>1, <1>2, <1>6, <1>11, <1>12, <1>15, <2>1, <2>3, <3>1 DEF Holding
    <3>3. Told(c)'
      BY <1>11 DEF Told
    <3>4. Timing(c)'
      <4>1. call'[c].op # "sleep"
        BY <1>12, <2>3, WaiterIs
      <4> QED
        BY <1>2, <1>11, <1>12, <2>1, <2>3, <3>1, <4>1 DEF Timing
    <3>5. Reporting(c)'
      <4>1. IsTrue(c)'
        BY <1>1, <1>2, <1>6, <1>7, <1>12, <2>3 DEF IsTrue
      <4> QED
        BY <4>1 DEF Reporting
    <3> QED
      BY <3>2, <3>3, <3>4, <3>5
  <2> QED
    BY <2>2, <2>3
<1> QED
  BY <1>13, <1>15, <1>16, <1>17, <1>18, <1>19, <1>20, <1>21, OwnStep

\* add_ev_read and add_ev_write.
LEMMA Added ==
  ASSUME SocketInv, NEW c \in Cos, NEW f \in Fds, NEW y \in Dirs, link[f] # "new", Add(f, y, c)
  PROVE  /\ entry' \in [Fds -> Entries] /\ ready' \subseteq Fds /\ ready \subseteq ready'
         /\ \A g \in Fds : Registered(g) \/ g # f => entry'[g] = entry[g]
         /\ ~Registered(f) => /\ entry'[f][y] = c /\ entry'[f][Other(y)] = 0
                              /\ Can(f, y) => f \in ready'
         /\ \A g \in Fds : /\ entry'[g].r = 0 \/ entry'[g].w = 0
                           /\ link[g] = "new" => entry'[g] = None
<1>1. /\ entry \in [Fds -> Entries] /\ ready \subseteq Fds /\ \A g \in Fds : Linked(g)
  BY DEF SocketInv, SocketTyped
<1>2. CASE Registered(f)
  <2>1. entry' = entry /\ ready' = ready
    BY <1>2 DEF Add, epollVars
  <2> QED
    BY <1>1, <1>2, <2>1 DEF Linked
<1>3. CASE ~Registered(f)
  <2>1. /\ entry' = [entry EXCEPT ![f][y] = c]
        /\ ready' = ready \union (IF Can(f, y) THEN {f} ELSE {})
    BY <1>3 DEF Add
  <2>2. /\ entry[f] \in Entries /\ entry[f].r = 0 /\ entry[f].w = 0
    BY <1>1, <1>3, EntryIs DEF Registered
  <2>3. /\ entry'[f] \in Entries /\ entry'[f][y] = c /\ entry'[f][Other(y)] = 0
        /\ \A g \in Fds : g # f => entry'[g] = entry[g]
        /\ entry' = [entry EXCEPT ![f] = [entry[f] EXCEPT ![y] = c]]
    <3>1. CASE y = "r"
      BY <1>1, <2>1, <2>2, <3>1 DEF Entries, Other
    <3>2. CASE y = "w"
      BY <1>1, <2>1, <2>2, <3>2 DEF Entries, Other
    <3> QED
      BY <3>1, <3>2 DEF Dirs
  <2>4. entry' \in [Fds -> Entries]
    BY <1>1, <2>3
  <2>5. entry'[f].r = 0 \/ entry'[f].w = 0
    BY <2>3 DEF Dirs, Other
  <2>6. /\ ready' \subseteq Fds /\ ready \subseteq ready'
        /\ Can(f, y) => f \in ready'
    BY <1>1, <2>1
  <2> QED
    BY <1>1, <1>3, <2>3, <2>4, <2>5, <2>6 DEF Linked
<1> QED
  BY <1>2, <1>3

\* Whom an event of a descriptor is for, as it is registered for one direction.
LEMMA UdIs ==
  ASSUME SocketInv, NEW f \in Fds, NEW y \in Dirs, entry[f][y] # 0
  PROVE  Ud(entry[f]) = entry[f][y] /\ entry[f][Other(y)] = 0
<1>1. entry[f].r = 0 \/ entry[f].w = 0
  BY DEF SocketInv, Linked
<1> QED
  BY <1>1 DEF Ud, Dirs, Other

\* yield(), after the registration if there is one.
LEMMA ParkStep ==
  ASSUME SocketInv, NEW c \in Cos, running = c, Waits(c), ~call[c].parked, ~Looks(c),
         Row(c).trusts => why[c] = "begin",
         ~Row(c).trusts => ~Can(call[c].fd, Row(c).dir),
         Park(c)
  PROVE  SocketInv'
<1>1. PICK f \in Fds, y \in Dirs : f = call[c].fd /\ y = Row(c).dir
  BY WaiterIs
<1>2. /\ call' = [call EXCEPT ![c].has = TRUE, ![c].parked = TRUE]
      /\ running' = 0 /\ why' = [why EXCEPT ![c] = "begin"]
      /\ Registers(c) => /\ Add(f, y, c) /\ missing' = [missing EXCEPT ![c] = Obstacle(f, y, c)]
                         /\ Row(c).timed => timers' = [timers EXCEPT ![c] = @ \union {"own"}]
                         /\ ~Row(c).timed => timers' = timers
      /\ ~Registers(c) => UNCHANGED <<entry, ready, missing, timers>>
      /\ UNCHANGED <<program, strayed, data, room, link, batch, answer>>
  BY <1>1 DEF Park, Fresh, epollVars, osVars
<1>3. SocketTyped /\ Calling(c) /\ Holding(c) /\ Timing(c) /\ Reporting(c) /\ c # 0
  BY SocketAssumption DEF SocketInv
<1>4. IsRow(Row(c), call[c].op \in Connects \union Polls, call[c].op \in Polls) /\ call[c].op \in Calls
      /\ call[c].op # "sleep"
  BY WaiterIs DEF Waits
<1>5. /\ call' \in [Cos -> CallRecs] /\ \A d \in Cos \ {c} : call'[d] = call[d]
      /\ call'[c].op = call[c].op /\ call'[c].fd = f /\ call'[c].has /\ call'[c].parked
      /\ call'[c].looks = call[c].looks /\ ~call[c].looks
  <2>1. call[c] \in CallRecs /\ call \in [Cos -> CallRecs] /\ ~call[c].looks
    BY <1>3 DEF SocketTyped, CallRecs, Looks
  <2>2. call' = [call EXCEPT ![c] = [[call[c] EXCEPT !.has = TRUE] EXCEPT !.parked = TRUE]]
    BY <1>2, <2>1
  <2>3. [[call[c] EXCEPT !.has = TRUE] EXCEPT !.parked = TRUE] \in CallRecs
    BY <2>1 DEF CallRecs
  <2> QED
    BY <1>1, <2>1, <2>2, <2>3 DEF CallRecs
<1>6. Waits(c)' /\ Row(c)' = Row(c)
  BY <1>4, <1>5 DEF Waits, Row
<1>7. Obstacle(f, y, c) \in {"no", "refused", "foreign", "leftover"}
  BY DEF Obstacle
<1>8. /\ missing' \in [Cos -> {"no", "refused", "foreign", "leftover", "removed"}]
      /\ \A d \in Cos \ {c} : missing'[d] = missing[d]
      /\ Registers(c) => missing'[c] = Obstacle(f, y, c)
      /\ ~Registers(c) => missing'[c] = missing[c]
      /\ timers' \in [Cos -> SUBSET {"own", "old"}]
      /\ \A d \in Cos \ {c} : timers'[d] = timers[d] /\ why'[d] = why[d]
      /\ why'[c] = "begin" /\ why' \in [Cos -> {"begin", "event", "stray", "time", "old"}]
      /\ "old" \in timers'[c] => "old" \in timers[c]
      /\ "own" \in timers'[c] => "own" \in timers[c] \/ Row(c).timed
  <2>1. CASE ~Registers(c)
    BY <1>2, <1>3, <2>1 DEF SocketTyped
  <2>2. CASE Registers(c) /\ Row(c).timed
    <3>1. /\ timers' = [timers EXCEPT ![c] = @ \union {"own"}]
          /\ missing' = [missing EXCEPT ![c] = Obstacle(f, y, c)]
      BY <1>2, <2>2
    <3> QED
      BY <1>2, <1>3, <1>7, <2>2, <3>1 DEF SocketTyped
  <2>3. CASE Registers(c) /\ ~Row(c).timed
    <3>1. timers' = timers /\ missing' = [missing EXCEPT ![c] = Obstacle(f, y, c)]
      BY <1>2, <2>3
    <3> QED
      BY <1>2, <1>3, <1>7, <2>3, <3>1 DEF SocketTyped
  <2> QED
    BY <2>1, <2>2, <2>3
<1>9. Alone(c)
  BY <1>2, <1>5, <1>8 DEF Alone
<1>10. /\ entry' \in [Fds -> Entries] /\ ready' \subseteq Fds /\ ready \subseteq ready'
       /\ \A g \in Fds : Registered(g) \/ g # f \/ ~Registers(c) => entry'[g] = entry[g]
       /\ ~Registered(f) /\ Registers(c) => /\ entry'[f][y] = c /\ entry'[f][Other(y)] = 0
                                            /\ Can(f, y) => f \in ready'
       /\ \A g \in Fds : Linked(g)'
  <2>1. CASE Registers(c)
    BY <1>1, <1>2, <1>3, <2>1, Added DEF Calling, SocketInv, Linked
  <2>2. CASE ~Registers(c)
    BY <1>2, <1>3, <2>2 DEF SocketTyped, SocketInv, Linked
  <2> QED
    BY <2>1, <2>2
<1>11. SocketTyped'
  BY <1>2, <1>3, <1>5, <1>8, <1>10 DEF SocketTyped
<1>12. ASSUME NEW g \in Fds
       PROVE  entry'[g].w \in {0, entry[g].w, c} /\ (entry'[g].w = c => Owns(c, g)')
  <2>1. CASE entry'[g] = entry[g]
    <3>1. ASSUME entry[g].w = c
          PROVE  Owns(c, g)
      BY <1>3, <3>1 DEF SocketInv, Writing
    <3> QED
      BY <1>1, <1>5, <1>6, <2>1, <3>1 DEF Owns
  <2>2. CASE entry'[g] # entry[g]
    <3>1. g = f /\ ~Registered(f) /\ Registers(c)
      BY <1>10, <2>2
    <3>2. entry'[f][y] = c /\ entry'[f][Other(y)] = 0
      BY <1>10, <3>1
    <3>3. y = "r" => entry'[f].w = 0
      BY <3>2 DEF Other
    <3>4. y = "w" => entry'[f].w = c
      BY <3>2
    <3>5. y = "w" => Owns(c, f)'
      BY <1>1, <1>5, <1>6 DEF Owns
    <3> QED
      BY <1>3, <3>1, <3>3, <3>4, <3>5 DEF Dirs
  <2> QED
    BY <2>1, <2>2
<1>13. \A d \in Cos : Calling(d)'
  <2>1. \A d \in Cos : Waits(d) => link'[call[d].fd] # "new"
    BY <1>2 DEF SocketInv, Calling
  <2> QED
    BY <1>1, <1>5, <1>9, <2>1, CallingKept
<1>14. ASSUME NEW d \in Cos \ {c}, NEW g \in Fds, NEW x \in Dirs,
              Waits(d), g = call[d].fd, x = Row(d).dir
       PROVE  Unmoved(d, g, x) /\ Kept(d, g, x)
  <2>1. Unmoved(d, g, x)
    BY <1>2 DEF Unmoved, Can, Failed
  <2>2. call[d].parked /\ Holding(d) /\ d # 0
    BY <1>14, SocketAssumption DEF SocketInv, Calling
  <2>3. /\ missing[d] = "no" => entry[g][x] = d
        /\ missing[d] # "refused" => entry[g][Other(x)] # d
    BY <1>14, <2>2 DEF Holding
  <2>4. missing[d] = "no" => Registered(g)
    BY <2>2, <2>3 DEF Registered, None, Dirs
  <2>5. Other(x) \in Dirs
    BY DEF Other, Dirs
  <2>6. entry'[g][Other(x)] = d => entry[g][Other(x)] = d
    <3>1. SUFFICES ASSUME entry'[g] # entry[g]
                   PROVE  entry'[g][Other(x)] # d
      OBVIOUS
    <3>2. g = f /\ entry'[f][y] = c /\ entry'[f][Other(y)] = 0
      BY <1>10, <3>1
    <3> QED
      BY <2>2, <2>5, <3>2 DEF Dirs, Other
  <2>7. missing'[d] = missing[d]
    BY <1>8
  <2> QED
    BY <1>10, <2>1, <2>3, <2>4, <2>6, <2>7 DEF Kept
<1>15. Registers(c) /\ Registered(f) /\ missing'[c] # "refused" =>
          entry[f][y] # 0 /\ entry[f][Other(y)] = 0
  BY <1>8, UdIs DEF Obstacle
<1>16. Holding(c)'
  <2>1. missing'[c] = "no" => entry'[f][y] = c
    <3>1. CASE ~Registers(c)
      BY <1>1, <1>3, <1>4, <1>8, <1>10, <3>1 DEF Registers, Holding, IsRow
    <3>2. CASE Registers(c) /\ ~Registered(f)
      BY <1>10, <3>2
    <3>3. CASE Registers(c) /\ Registered(f)
      <4>1. missing'[c] = "no" => Ud(entry[f]) = c /\ entry[f][y] # 0
        BY <1>8, <3>3 DEF Obstacle
      <4> QED
        BY <1>10, <3>3, <4>1, UdIs
    <3> QED
      BY <3>1, <3>2, <3>3
  <2>2. call[c].op \in Polls => missing'[c] # "refused"
    <3>1. call[c].op \in Polls => Registers(c) /\ why[c] = "begin"
      BY <1>4 DEF IsRow, Registers
    <3> QED
      BY <1>1, <1>8, <3>1 DEF Looks
  <2>3. missing'[c] # "refused" => entry'[f][Other(y)] # c
    <3>1. CASE ~Registers(c)
      BY <1>1, <1>3, <1>4, <1>8, <1>10, <3>1 DEF Registers, Holding, IsRow
    <3>2. CASE Registers(c) /\ ~Registered(f)
      BY <1>3, <1>10, <3>2
    <3>3. CASE Registers(c) /\ Registered(f)
      BY <1>3, <1>10, <1>15, <3>3
    <3> QED
      BY <3>1, <3>2, <3>3
  <2> QED
    BY <1>1, <1>5, <1>6, <2>1, <2>2, <2>3 DEF Holding
<1>17. Told(c)'
  <2>1. Can(f, y)' <=> Can(f, y)
    BY <1>2 DEF Can, Failed
  <2>2. SUFFICES ASSUME missing'[c] = "no", Can(f, y)
                 PROVE  f \in ready'
    BY <1>1, <1>5, <1>6, <2>1 DEF Told, Can, Failed
  <2>3. Row(c).trusts /\ why[c] = "begin"
    BY <1>1, <2>2
  <2>4. call[c].op \in Connects \union Polls
    BY <1>4, <2>3 DEF IsRow
  <2>5. Registers(c) /\ ~Registered(f)
    <3>1. CASE call[c].op \in Polls
      <4>1. Registers(c)
        BY <1>4, <3>1 DEF IsRow, Registers
      <4> QED
        BY <1>8, <2>2, <3>1, <4>1 DEF Obstacle
    <3>2. CASE call[c].op \in Connects
      <4>1. entry[f] = None
        BY <1>1, <1>3, <2>3, <3>2 DEF Holding
      <4>2. entry[f][y] = 0
        BY <4>1 DEF None, Dirs
      <4>3. Registers(c)
        BY <1>1, <1>3, <1>4, <1>8, <2>2, <4>2 DEF Registers, Holding, IsRow
      <4> QED
        BY <4>1, <4>3 DEF Registered
    <3> QED
      BY <2>4, <3>1, <3>2
  <2> QED
    BY <1>10, <2>2, <2>5
<1>18. Timing(c)'
  BY <1>2, <1>3, <1>5, <1>6, <1>8, <1>4 DEF Timing
<1>19. Reporting(c)'
  <2>1. IsTrue(c)' <=> IsTrue(c)
    BY <1>1, <1>2, <1>5, <1>6 DEF IsTrue, Can, Failed
  <2> QED
    BY <1>1, <1>2, <1>3, <1>5, <2>1 DEF Reporting
<1> QED
  BY <1>9, <1>10, <1>11, <1>12, <1>13, <1>14, <1>16, <1>17, <1>18, <1>19, OwnStep

\* A step of a coroutine that registers and removes nothing.
LEMMA QuietStep ==
  ASSUME SocketInv, NEW c \in Cos, Alone(c), SocketTyped',
         UNCHANGED <<entry, ready, data, room, link>>,
         \A d \in Cos \ {c} : missing'[d] = missing[d],
         \A f \in Fds : entry[f].w = c => Owns(c, f)',
         \A d \in Cos : Calling(d)',
         Holding(c)', Told(c)', Timing(c)', Reporting(c)'
  PROVE  SocketInv'
<1>1. ASSUME NEW d \in Cos \ {c}, NEW g \in Fds, NEW x \in Dirs,
             Waits(d), g = call[d].fd, x = Row(d).dir
      PROVE  Unmoved(d, g, x) /\ Kept(d, g, x)
  <2>1. call[d].parked /\ Holding(d)
    BY <1>1 DEF SocketInv, Calling, Alone
  <2> QED
    BY <1>1, <2>1 DEF Unmoved, Can, Failed, Holding, Kept
<1>2. \A f \in Fds : Linked(f)'
  BY DEF SocketInv, Linked
<1> QED
  BY <1>1, <1>2, OwnStep

LEMMA WriterIs ==
  ASSUME SocketInv, NEW c \in Cos, NEW f \in Fds, entry[f].w = c
  PROVE  Owns(c, f)
BY SocketAssumption DEF SocketInv, Writing

\* It sleeps before it looks again.
LEMMA LookStep ==
  ASSUME SocketInv, NEW c \in Cos, running = c, Waits(c), ~call[c].parked, Looks(c), Look(c)
  PROVE  SocketInv'
<1>1. CASE Can(call[c].fd, Row(c).dir)
  BY <1>1, ReturnStep DEF Look
<1>2. CASE ~Can(call[c].fd, Row(c).dir)
  <2>1. /\ call' = [call EXCEPT ![c].looks = TRUE, ![c].parked = TRUE]
        /\ timers' = [timers EXCEPT ![c] = @ \union {"own"}]
        /\ missing' = [missing EXCEPT ![c] = "refused"]
        /\ running' = 0 /\ why' = [why EXCEPT ![c] = "begin"]
        /\ UNCHANGED <<program, strayed, entry, ready, data, room, link, batch, answer>>
    BY <1>2 DEF Look, Fresh, epollVars, osVars
  <2>2. SocketTyped /\ Calling(c) /\ Holding(c) /\ Timing(c) /\ Reporting(c) /\ c # 0
    BY SocketAssumption DEF SocketInv
  <2>3. call[c].op \in Polls /\ call[c].op \in Calls /\ call[c].op # "sleep" /\ Row(c).wake # "keep"
    BY <2>2, WaiterIs DEF Looks, Calling, Waits, IsRow
  <2>4. /\ call' \in [Cos -> CallRecs] /\ \A d \in Cos \ {c} : call'[d] = call[d]
        /\ call'[c].op = call[c].op /\ call'[c].fd = call[c].fd /\ call'[c].looks /\ call'[c].parked
    <3>1. call[c] \in CallRecs /\ call \in [Cos -> CallRecs]
      BY <2>2 DEF SocketTyped
    <3>2. call' = [call EXCEPT ![c] = [[call[c] EXCEPT !.looks = TRUE] EXCEPT !.parked = TRUE]]
      BY <2>1, <3>1
    <3>3. [[call[c] EXCEPT !.looks = TRUE] EXCEPT !.parked = TRUE] \in CallRecs
      BY <3>1 DEF CallRecs
    <3> QED
      BY <3>1, <3>2, <3>3 DEF CallRecs
  <2>5. SocketTyped'
    BY <2>1, <2>2, <2>4 DEF SocketTyped
  <2>6. Alone(c) /\ missing'[c] = "refused" /\ \A d \in Cos \ {c} : missing'[d] = missing[d]
    BY <2>1, <2>2, <2>4 DEF Alone, SocketTyped
  <2>7. \A f \in Fds : entry[f].w # c
    BY <2>3, WriterIs DEF Owns
  <2>8. \A d \in Cos : Calling(d)'
    <3>1. \A d \in Cos : Waits(d) => link'[call[d].fd] # "new"
      BY <2>1 DEF SocketInv, Calling
    <3> QED
      BY <2>3, <2>4, <2>6, <3>1, CallingKept
  <2>9. Waits(c)' /\ Row(c)' = Row(c)
    BY <2>3, <2>4 DEF Waits, Row
  <2>10. Holding(c)' /\ Told(c)' /\ Reporting(c)'
    BY <2>4, <2>6, <2>9 DEF Holding, Told, Reporting
  <2>11. Timing(c)'
    BY <2>1, <2>2, <2>4, <2>9 DEF Timing, SocketTyped
  <2> QED
    BY <2>1, <2>5, <2>6, <2>7, <2>8, <2>10, <2>11, QuietStep
<1> QED
  BY <1>1, <1>2

\* What is left of the timers of a call that its timer may have resumed.
LEMMA StaleIs ==
  ASSUME SocketInv, NEW c \in Cos, running = c,
         \/ call[c].op = "sleep"
         \/ Waits(c) /\ call[c].parked /\ (call[c].looks \/ why[c] \in {"time", "old"})
  PROVE  /\ Stale(c) \subseteq {"old"}
         /\ "old" \in Stale(c) \/ why[c] \in {"old", "stray"} => c \in strayed
<1>1. Timing(c) /\ timers[c] \subseteq {"own", "old"}
  BY DEF SocketInv, SocketTyped
<1>2. Stale(c) \subseteq {"old"}
  BY <1>1 DEF Stale
<1>3. "old" \in Stale(c) => "own" \in timers[c] \/ "old" \in timers[c]
  BY DEF Stale
<1>4. why[c] = "time" => "own" \notin timers[c]
  BY <1>1 DEF Timing
<1>5. why[c] \in {"time", "old", "stray"}
  BY <1>1 DEF Timing
<1> QED
  BY <1>1, <1>2, <1>3, <1>4, <1>5 DEF Timing

\* A call that is over: the coroutine does not wait for anything.
LEMMA IdleIs ==
  ASSUME SocketInv, NEW c \in Cos, call' = [call EXCEPT ![c] = Idle]
  PROVE  /\ call' \in [Cos -> CallRecs] /\ \A d \in Cos \ {c} : call'[d] = call[d]
         /\ call'[c].op = "idle" /\ ~call'[c].looks /\ ~call'[c].parked /\ ~Waits(c)'
         /\ Holding(c)' /\ Told(c)' /\ Reporting(c)'
<1>1. Idle \in CallRecs /\ Idle.op = "idle" /\ ~Idle.looks /\ ~Idle.parked
  BY DEF Idle, CallRecs
<1>2. call \in [Cos -> CallRecs]
  BY DEF SocketInv, SocketTyped
<1>3. /\ call' \in [Cos -> CallRecs] /\ call'[c] = Idle
      /\ \A d \in Cos \ {c} : call'[d] = call[d]
  BY <1>1, <1>2
<1>4. call'[c].op \notin Calls
  BY <1>1, <1>3, RowsAre
<1> QED
  BY <1>1, <1>3, <1>4 DEF Waits, Holding, Told, Reporting

\* poll() is back from its sleep.
LEMMA AwakeStep ==
  ASSUME SocketInv, NEW c \in Cos, running = c, Waits(c), call[c].parked, call[c].looks, Awake(c),
         UNCHANGED <<program, strayed, osVars, running, batch, why>>
  PROVE  SocketInv'
<1>1. /\ timers' = [timers EXCEPT ![c] = Stale(c)]
      /\ UNCHANGED <<program, strayed, entry, ready, data, room, link, running, batch, why, missing>>
  BY DEF Awake, epollVars, osVars
<1>2. SocketTyped /\ Calling(c) /\ Holding(c) /\ Timing(c) /\ c # 0
  BY SocketAssumption DEF SocketInv
<1>3. /\ Stale(c) \subseteq {"old"}
      /\ "old" \in Stale(c) \/ why[c] \in {"old", "stray"} => c \in strayed
  BY StaleIs
<1>4. /\ timers' \in [Cos -> SUBSET {"own", "old"}] /\ timers'[c] = Stale(c)
      /\ \A d \in Cos \ {c} : timers'[d] = timers[d]
  BY <1>1, <1>2, <1>3 DEF SocketTyped
<1>5. \A f \in Fds : entry[f].w # c
  BY WriterIs DEF Owns
<1>6. \A d \in Cos : Waits(d) => link'[call[d].fd] # "new"
  BY <1>1 DEF SocketInv, Calling
<1>7. CASE call' = [call EXCEPT ![c] = Idle] /\ answer' = [answer EXCEPT ![c] = "timeout"]
  <2>1. /\ call' \in [Cos -> CallRecs] /\ \A d \in Cos \ {c} : call'[d] = call[d]
        /\ call'[c].op = "idle" /\ ~call'[c].looks /\ ~call'[c].parked /\ ~Waits(c)'
        /\ Holding(c)' /\ Told(c)' /\ Reporting(c)'
    BY <1>7, IdleIs
  <2>2. SocketTyped'
    BY <1>1, <1>2, <1>4, <1>7, <2>1 DEF SocketTyped
  <2>3. Alone(c)
    BY <1>1, <1>4, <2>1 DEF Alone
  <2>4. \A d \in Cos : Calling(d)'
    BY <1>6, <2>1, <2>3, CallingKept
  <2>5. Timing(c)'
    BY <1>1, <1>3, <1>4, <2>1 DEF Timing
  <2> QED
    BY <1>1, <1>5, <2>1, <2>2, <2>3, <2>4, <2>5, QuietStep
<1>8. CASE /\ call' = [call EXCEPT ![c].parked = FALSE,
                                   ![c].left = IF Row(c).timed THEN @ - 1 ELSE @]
           /\ answer' = answer
  <2>1. call[c].op \in Polls /\ call[c].op \in Calls /\ call[c].op # "sleep" /\ Row(c).adds = "every"
        /\ call[c].op \notin Connects
    BY <1>2, WaiterIs DEF Calling, Waits, IsRow, Polls, Connects
  <2>2. /\ call' \in [Cos -> CallRecs] /\ \A d \in Cos \ {c} : call'[d] = call[d]
        /\ call'[c].op = call[c].op /\ call'[c].fd = call[c].fd /\ call'[c].looks
        /\ ~call'[c].parked
    <3>1. call[c] \in CallRecs /\ call \in [Cos -> CallRecs]
      BY <1>2 DEF SocketTyped
    <3>2. PICK n \in Int : n = IF Row(c).timed THEN call[c].left - 1 ELSE call[c].left
      <4>1. call[c].left \in Int /\ call[c].left - 1 \in Int
        BY <3>1 DEF CallRecs
      <4>2. CASE Row(c).timed
        BY <4>1, <4>2
      <4>3. CASE ~Row(c).timed
        BY <4>1, <4>3
      <4> QED
        BY <4>2, <4>3
    <3>3. call' = [call EXCEPT ![c] = [[call[c] EXCEPT !.parked = FALSE] EXCEPT !.left = n]]
      BY <1>8, <3>1, <3>2
    <3>4. [[call[c] EXCEPT !.parked = FALSE] EXCEPT !.left = n] \in CallRecs
      BY <3>1, <3>2 DEF CallRecs
    <3> QED
      BY <3>1, <3>3, <3>4 DEF CallRecs
  <2>3. SocketTyped'
    BY <1>1, <1>2, <1>4, <1>8, <2>2 DEF SocketTyped
  <2>4. Alone(c)
    BY <1>1, <1>4, <2>2 DEF Alone
  <2>5. \A d \in Cos : Calling(d)'
    BY <1>1, <1>6, <2>1, <2>2, <2>4, CallingKept
  <2>6. Waits(c)' /\ Row(c)' = Row(c)
    BY <2>1, <2>2 DEF Waits, Row
  <2>7. Holding(c)' /\ Told(c)' /\ Reporting(c)'
    BY <2>1, <2>2, <2>6 DEF Holding, Told, Reporting
  <2>8. Timing(c)'
    BY <1>1, <1>3, <1>4, <2>1, <2>2, <2>6 DEF Timing
  <2> QED
    BY <1>1, <1>5, <2>3, <2>4, <2>5, <2>7, <2>8, QuietStep
<1> QED
  BY <1>7, <1>8 DEF Awake

\* A call is back from yield(), by an event or by its time.
LEMMA BackStep ==
  ASSUME SocketInv, NEW c \in Cos, Back(c)
  PROVE  SocketInv'
<1>1. running = c /\ Waits(c) /\ call[c].parked
  BY DEF Back
<1>2. PICK f \in Fds, y \in Dirs : f = call[c].fd /\ y = Row(c).dir
  BY <1>1, WaiterIs
<1>3. SocketTyped /\ Calling(c) /\ Holding(c) /\ Timing(c) /\ Reporting(c) /\ c # 0
  BY SocketAssumption DEF SocketInv
<1>4. IsRow(Row(c), call[c].op \in Connects \union Polls, call[c].op \in Polls) /\ call[c].op \in Calls
      /\ call[c].op # "sleep"
  BY <1>1, WaiterIs DEF Waits
<1>5. UNCHANGED <<program, strayed, data, room, link, running, batch, why>>
  BY DEF Back, osVars
<1>6. \A d \in Cos : Waits(d) => link'[call[d].fd] # "new"
  BY <1>5 DEF SocketInv, Calling
<1>7. \A d \in Cos, g \in Fds, x \in Dirs : Unmoved(d, g, x)
  BY <1>5 DEF Unmoved, Can, Failed
<1>8. CASE call[c].looks
  BY <1>1, <1>8, AwakeStep DEF Back
<1>9. CASE ~call[c].looks /\ Row(c).timed /\ why[c] \in {"time", "old"}
  <2>1. PICK what \in {"keep", "event", "r", "w"} :
           what = IF Row(c).wake # "keep" THEN Row(c).wake ELSE Ending(c, "timeout")
    BY <1>1, <1>4, EndingIs DEF IsRow
  <2>2. /\ answer' = [answer EXCEPT ![c] = "timeout"]
        /\ call' = [call EXCEPT ![c] = Idle]
        /\ timers' = [timers EXCEPT ![c] = Stale(c)]
        /\ Del(f, what) /\ Deprive(c, f, what)
    BY <1>2, <1>9, <2>1 DEF Back
  <2>3. /\ Stale(c) \subseteq {"old"}
        /\ "old" \in Stale(c) \/ why[c] \in {"old", "stray"} => c \in strayed
    BY <1>1, <1>9, StaleIs
  <2>4. /\ timers' \in [Cos -> SUBSET {"own", "old"}] /\ timers'[c] = Stale(c)
        /\ \A d \in Cos \ {c} : timers'[d] = timers[d]
    BY <1>3, <2>2, <2>3 DEF SocketTyped
  <2>5. /\ call' \in [Cos -> CallRecs] /\ \A d \in Cos \ {c} : call'[d] = call[d]
        /\ call'[c].op = "idle" /\ ~call'[c].looks /\ ~call'[c].parked /\ ~Waits(c)'
        /\ Holding(c)' /\ Told(c)' /\ Reporting(c)'
    BY <2>2, IdleIs
  <2>6. SocketTyped'
    <3>1. /\ entry' \in [Fds -> Entries] /\ ready' \subseteq Fds
          /\ missing' \in [Cos -> {"no", "refused", "foreign", "leftover", "removed"}]
      BY <1>1, <2>2, Removed
    <3> QED
      BY <1>3, <1>5, <2>2, <2>4, <2>5, <3>1 DEF SocketTyped
  <2>7. Alone(c)
    BY <1>1, <1>5, <2>4, <2>5 DEF Alone
  <2>8. \A d \in Cos : Calling(d)'
    BY <1>6, <2>5, <2>7, CallingKept
  <2>9. Timing(c)'
    BY <1>5, <2>3, <2>4, <2>5 DEF Timing
  <2>10. ASSUME NEW g \in Fds
         PROVE  Linked(g)' /\ entry'[g].w \in {0, entry[g].w, c} /\ entry'[g].w # c
    <3>1. /\ entry'[g].r = 0 \/ entry'[g].w = 0
          /\ entry[g] = None => entry'[g] = None
          /\ entry'[g].w \in {0, entry[g].w}
      BY <1>1, <2>2, RemovedLinks
    <3>2. CASE entry[g].w = c
      <4>1. Owns(c, g)
        BY <3>2, WriterIs
      <4>2. g = f /\ what \in {"w", "event"}
        BY <1>1, <1>2, <1>4, <2>1, <3>2, <4>1, EndingIs DEF Owns, IsRow
      <4>3. entry'[f].w = 0
        BY <1>1, <2>2, <4>2, Removed DEF Dirs
      <4> QED
        BY <1>3, <1>5, <3>1, <4>2, <4>3 DEF Linked, SocketInv
    <3>3. CASE entry[g].w # c
      BY <1>3, <1>5, <3>1, <3>3 DEF Linked, SocketInv
    <3> QED
      BY <3>2, <3>3
  <2>11. \A d \in Cos \ {c}, g \in Fds, x \in Dirs :
            Waits(d) /\ g = call[d].fd /\ x = Row(d).dir => Unmoved(d, g, x) /\ Kept(d, g, x)
    BY <1>1, <1>7, <2>2, Removed
  <2> QED
    BY <2>5, <2>6, <2>7, <2>8, <2>9, <2>10, <2>11, OwnStep
<1>10. CASE ~call[c].looks /\ ~(Row(c).timed /\ why[c] \in {"time", "old"})
  <2>1. PICK what \in {"keep", "event", "r", "w"} : what = Row(c).wake
    BY <1>4 DEF IsRow
  <2>2. /\ call' = [call EXCEPT ![c].parked = FALSE]
        /\ UNCHANGED <<timers, answer>>
        /\ Del(f, what) /\ Deprive(c, f, what)
    BY <1>2, <1>10, <2>1 DEF Back
  <2>3. /\ call' \in [Cos -> CallRecs] /\ \A d \in Cos \ {c} : call'[d] = call[d]
        /\ call'[c].op = call[c].op /\ call'[c].fd = f /\ call'[c].has = call[c].has
        /\ ~call'[c].parked /\ ~call'[c].looks
    <3>1. call[c] \in CallRecs /\ call \in [Cos -> CallRecs]
      BY <1>3 DEF SocketTyped
    <3>2. [call[c] EXCEPT !.parked = FALSE] \in CallRecs
      BY <3>1 DEF CallRecs
    <3> QED
      BY <1>2, <1>10, <2>2, <3>1, <3>2 DEF CallRecs
  <2>4. /\ entry' \in [Fds -> Entries] /\ ready' \subseteq Fds
        /\ missing' \in [Cos -> {"no", "refused", "foreign", "leftover", "removed"}]
        /\ missing'[c] = missing[c]
        /\ \A x \in Dirs : entry'[f][x] = IF what = "event" \/ what = x THEN 0 ELSE entry[f][x]
        /\ \A g \in Fds : g # f => entry'[g] = entry[g]
        /\ \A d \in Cos \ {c}, g \in Fds, x \in Dirs :
              Waits(d) /\ g = call[d].fd /\ x = Row(d).dir => Kept(d, g, x)
    BY <1>1, <2>2, Removed
  <2>5. SocketTyped'
    BY <1>3, <1>5, <2>2, <2>3, <2>4 DEF SocketTyped
  <2>6. Alone(c)
    BY <1>1, <1>5, <2>2, <2>3 DEF Alone
  <2>7. Waits(c)' /\ Row(c)' = Row(c)
    BY <1>4, <2>3 DEF Waits, Row
  <2>8. \A d \in Cos : Calling(d)'
    BY <1>1, <1>2, <1>5, <1>6, <2>3, <2>6, CallingKept
  <2>9. ASSUME NEW g \in Fds
        PROVE  Linked(g)' /\ entry'[g].w \in {0, entry[g].w, c} /\ (entry'[g].w = c => Owns(c, g)')
    <3>1. /\ entry'[g].r = 0 \/ entry'[g].w = 0
          /\ entry[g] = None => entry'[g] = None
          /\ entry'[g].w \in {0, entry[g].w}
      BY <1>1, <2>2, RemovedLinks
    <3>2. Linked(g)'
      BY <1>5, <3>1 DEF Linked, SocketInv
    <3>3. ASSUME entry'[g].w = c
          PROVE  Owns(c, g)'
      <4>1. Owns(c, g)
        BY <1>3, <3>1, <3>3, WriterIs
      <4>2. g = f /\ y = "w"
        BY <1>2, <4>1 DEF Owns
      <4>3. what = "keep"
        BY <1>3, <1>4, <2>1, <2>4, <3>3, <4>2 DEF IsRow
      <4> QED
        BY <2>1, <2>3, <2>7, <4>1, <4>2, <4>3 DEF Owns
    <3> QED
      BY <3>1, <3>2, <3>3
  <2>10. Holding(c)'
    <3>1. Row(c).adds = "first" => entry'[f][y] = entry[f][y] /\ entry'[f][Other(y)] = entry[f][Other(y)]
      <4>1. Row(c).adds = "first" => what = "keep"
        BY <1>4, <2>1 DEF IsRow
      <4>2. Other(y) \in Dirs
        BY DEF Other, Dirs
      <4> QED
        BY <2>4, <4>1, <4>2 DEF Dirs
    <3>2. why'[c] # "begin"
      BY <1>1, <1>3, <1>5 DEF Timing
    <3> QED
      BY <1>1, <1>2, <1>3, <1>10, <2>3, <2>4, <2>7, <3>1, <3>2 DEF Holding
  <2>11. Told(c)'
    BY <2>3 DEF Told
  <2>12. Timing(c)'
    BY <1>1, <1>3, <1>4, <1>5, <1>10, <2>2, <2>3, <2>7 DEF Timing
  <2>13. Reporting(c)'
    <3>1. IsTrue(c)' <=> IsTrue(c)
      BY <1>2, <1>5, <2>3, <2>7 DEF IsTrue, Can, Failed
    <3> QED
      BY <1>1, <1>2, <1>3, <1>5, <1>10, <2>3, <3>1 DEF Reporting
  <2> QED
    BY <1>7, <2>4, <2>5, <2>6, <2>8, <2>9, <2>10, <2>11, <2>12, <2>13, OwnStep
<1> QED
  BY <1>8, <1>9, <1>10

\* co::sleep.
LEMMA SleepStep ==
  ASSUME SocketInv, NEW c \in Cos, Sleep(c)
  PROVE  SocketInv'
<1>1. /\ running = c /\ call[c] = Idle /\ call' = [call EXCEPT ![c] = Parked("sleep")]
      /\ timers' = [timers EXCEPT ![c] = @ \union {"own"}] /\ running' = 0
      /\ missing' = [missing EXCEPT ![c] = "no"] /\ answer' = [answer EXCEPT ![c] = "none"]
      /\ UNCHANGED <<program, strayed, entry, ready, data, room, link, batch, why>>
  BY DEF Sleep, epollVars, osVars
<1>2. SocketTyped /\ Timing(c) /\ c # 0
  BY SocketAssumption DEF SocketInv
<1>3. Idle.op \notin Calls /\ "sleep" \notin Calls
  BY RowsAre DEF Idle
<1>4. Parked("sleep") \in CallRecs /\ Parked("sleep").op = "sleep" /\ ~Parked("sleep").looks
  <2>1. Idle \in CallRecs /\ ~Idle.looks
    BY DEF Idle, CallRecs
  <2>2. Parked("sleep") = [[Idle EXCEPT !.op = "sleep"] EXCEPT !.parked = TRUE]
    BY <2>1 DEF Parked, CallRecs
  <2> QED
    BY <2>1, <2>2 DEF CallRecs
<1>5. /\ call' \in [Cos -> CallRecs] /\ call'[c] = Parked("sleep")
      /\ \A d \in Cos \ {c} : call'[d] = call[d]
  BY <1>1, <1>2, <1>4 DEF SocketTyped
<1>6. ~Waits(c) /\ ~Waits(c)'
  BY <1>1, <1>3, <1>4, <1>5 DEF Waits
<1>7. SocketTyped'
  BY <1>1, <1>2, <1>5 DEF SocketTyped
<1>8. Alone(c) /\ \A d \in Cos \ {c} : missing'[d] = missing[d]
  BY <1>1, <1>2, <1>5 DEF Alone, SocketTyped
<1>9. \A f \in Fds : entry[f].w # c
  BY <1>6, WriterIs DEF Owns
<1>10. \A d \in Cos : Calling(d)'
  <2>1. \A d \in Cos : Waits(d) => link'[call[d].fd] # "new"
    BY <1>1 DEF SocketInv, Calling
  <2> QED
    BY <1>6, <1>8, <2>1, CallingKept
<1>11. Holding(c)' /\ Told(c)' /\ Reporting(c)'
  BY <1>6 DEF Holding, Told, Reporting
<1>12. Timing(c)'
  BY <1>1, <1>2, <1>4, <1>5 DEF Timing, SocketTyped
<1> QED
  BY <1>1, <1>7, <1>8, <1>9, <1>10, <1>11, <1>12, QuietStep

LEMMA EndSleepStep ==
  ASSUME SocketInv, NEW c \in Cos, EndSleep(c)
  PROVE  SocketInv'
<1>1. /\ running = c /\ call[c].op = "sleep" /\ call' = [call EXCEPT ![c] = Idle]
      /\ timers' = [timers EXCEPT ![c] = Stale(c)] /\ why' = [why EXCEPT ![c] = "begin"]
      /\ UNCHANGED <<program, strayed, entry, ready, data, room, link, running, batch, missing, answer>>
  BY DEF EndSleep, Fresh, epollVars, osVars
<1>2. SocketTyped
  BY DEF SocketInv
<1>3. /\ Stale(c) \subseteq {"old"}
      /\ "old" \in Stale(c) => c \in strayed
  BY <1>1, StaleIs
<1>4. ~Waits(c)
  BY <1>1, RowsAre DEF Waits
<1>5. /\ call' \in [Cos -> CallRecs] /\ \A d \in Cos \ {c} : call'[d] = call[d]
      /\ call'[c].op = "idle" /\ ~call'[c].looks /\ ~call'[c].parked /\ ~Waits(c)'
      /\ Holding(c)' /\ Told(c)' /\ Reporting(c)'
  BY <1>1, IdleIs
<1>6. /\ timers' \in [Cos -> SUBSET {"own", "old"}] /\ timers'[c] = Stale(c) /\ why'[c] = "begin"
      /\ \A d \in Cos \ {c} : timers'[d] = timers[d] /\ why'[d] = why[d]
  BY <1>1, <1>2, <1>3 DEF SocketTyped
<1>7. SocketTyped'
  BY <1>1, <1>2, <1>5, <1>6 DEF SocketTyped
<1>8. Alone(c)
  BY <1>1, <1>5, <1>6 DEF Alone
<1>9. \A f \in Fds : entry[f].w # c
  BY <1>4, WriterIs DEF Owns
<1>10. \A d \in Cos : Calling(d)'
  <2>1. \A d \in Cos : Waits(d) => link'[call[d].fd] # "new"
    BY <1>1 DEF SocketInv, Calling
  <2> QED
    BY <1>5, <1>8, <2>1, CallingKept
<1>11. Timing(c)'
  BY <1>1, <1>3, <1>5, <1>6 DEF Timing
<1> QED
  BY <1>1, <1>5, <1>7, <1>8, <1>9, <1>10, <1>11, QuietStep

---------------------------------------------------------------------------
(* Between two calls.                                                      *)

\* A coroutine that is between two calls.
LEMMA BetweenIs ==
  ASSUME SocketInv, NEW c \in Cos, running = c, call[c] = Idle
  PROVE  /\ ~Waits(c) /\ \A f \in Fds : entry[f].w # c
         /\ c # 0 /\ "own" \notin timers[c]
         /\ "old" \in timers[c] \/ why[c] \in {"old", "stray"} => c \in strayed
<1>1. Timing(c) /\ Idle.op = "idle"
  BY DEF SocketInv, Idle
<1>2. ~Waits(c)
  BY <1>1, RowsAre DEF Waits
<1>3. \A f \in Fds : entry[f].w # c
  BY <1>2, WriterIs DEF Owns
<1> QED
  BY <1>1, <1>2, <1>3, SocketAssumption DEF Timing

\* co::close and co::shutdown remove what others have registered.
LEMMA CutStep ==
  ASSUME SocketInv, NEW c \in Cos, running = c, call[c] = Idle, NEW f \in Fds,
         NEW what \in {"keep", "event", "r", "w"}, Del(f, what), Deprive(c, f, what),
         UNCHANGED <<program, strayed, running, batch, call, timers, why, answer>>,
         link' \in [Fds -> {"new", "going", "up", "refused", "closed"}],
         data' \in [Fds -> BOOLEAN], room' \in [Fds -> BOOLEAN],
         \A d \in Cos : Waits(d) => link'[call[d].fd] # "new",
         \A g \in Fds : link'[g] = "new" => entry'[g] = None,
         \A g \in Fds : link'[g] \in {"new", "going"} => ~data'[g] /\ ~room'[g],
         \A d \in Cos \ {c}, g \in Fds, x \in Dirs :
            Waits(d) /\ g = call[d].fd /\ x = Row(d).dir => Unmoved(d, g, x)
  PROVE  SocketInv'
<1>1. /\ ~Waits(c) /\ \A g \in Fds : entry[g].w # c
      /\ c # 0 /\ "own" \notin timers[c]
      /\ "old" \in timers[c] \/ why[c] \in {"old", "stray"} => c \in strayed
  BY BetweenIs
<1>2. Alone(c)
  BY DEF Alone
<1>3. SocketTyped'
  <2>1. /\ entry' \in [Fds -> Entries] /\ ready' \subseteq Fds
        /\ missing' \in [Cos -> {"no", "refused", "foreign", "leftover", "removed"}]
    BY Removed
  <2> QED
    BY <2>1 DEF SocketInv, SocketTyped
<1>4. ~Waits(c)'
  BY <1>1 DEF Waits
<1>5. \A d \in Cos : Calling(d)'
  BY <1>2, <1>4, CallingKept
<1>6. ASSUME NEW g \in Fds
      PROVE  Linked(g)' /\ entry'[g].w \in {0, entry[g].w, c} /\ entry'[g].w # c
  <2>1. /\ entry'[g].r = 0 \/ entry'[g].w = 0
        /\ entry'[g].w \in {0, entry[g].w}
    BY RemovedLinks
  <2> QED
    BY <1>1, <2>1 DEF Linked
<1>7. \A d \in Cos \ {c}, g \in Fds, x \in Dirs :
         Waits(d) /\ g = call[d].fd /\ x = Row(d).dir => Unmoved(d, g, x) /\ Kept(d, g, x)
  BY Removed
<1>8. Holding(c)' /\ Told(c)' /\ Reporting(c)'
  BY <1>4 DEF Holding, Told, Reporting
<1>9. Timing(c)'
  <2>1. call[c].op # "sleep" /\ ~call[c].looks
    BY DEF Idle
  <2> QED
    BY <1>1, <1>4, <2>1 DEF Timing
<1> QED
  BY <1>2, <1>3, <1>5, <1>6, <1>7, <1>8, <1>9, OwnStep

LEMMA CloseStep ==
  ASSUME SocketInv, NEW c \in Cos, NEW f \in program.fds, Close(c, f)
  PROVE  SocketInv'
<1>1. f \in Fds /\ SocketTyped
  BY DEF SocketInv, SocketTyped
<1>2. /\ running = c /\ call[c] = Idle /\ Free(f, "r") /\ Free(f, "w")
      /\ Del(f, "event") /\ Deprive(c, f, "event")
      /\ link' = [link EXCEPT ![f] = "new"]
      /\ data' = [data EXCEPT ![f] = FALSE] /\ room' = [room EXCEPT ![f] = FALSE]
      /\ UNCHANGED <<program, strayed, running, batch, call, timers, why, answer>>
  BY DEF Close
<1>3. \A d \in Cos : Waits(d) => call[d].fd # f
  BY <1>2, WaiterIs DEF Free, Dirs
<1>4. /\ link' \in [Fds -> {"new", "going", "up", "refused", "closed"}]
      /\ data' \in [Fds -> BOOLEAN] /\ room' \in [Fds -> BOOLEAN]
      /\ link'[f] = "new" /\ ~data'[f] /\ ~room'[f]
      /\ \A g \in Fds \ {f} : link'[g] = link[g] /\ data'[g] = data[g] /\ room'[g] = room[g]
  BY <1>1, <1>2 DEF SocketTyped
<1>5. \A d \in Cos : Waits(d) => link'[call[d].fd] # "new"
  BY <1>3, <1>4 DEF SocketInv, Calling
<1>6. ASSUME NEW g \in Fds
      PROVE  /\ link'[g] = "new" => entry'[g] = None
             /\ link'[g] \in {"new", "going"} => ~data'[g] /\ ~room'[g]
  <2>1. CASE g = f
    <3>1. entry'[f].r = 0 /\ entry'[f].w = 0 /\ entry'[f] \in Entries
      BY <1>1, <1>2, Removed DEF Dirs
    <3> QED
      BY <1>4, <2>1, <3>1, EntryIs
  <2>2. CASE g # f
    BY <1>1, <1>2, <1>4, <2>2, RemovedLinks DEF SocketInv, Linked
  <2> QED
    BY <2>1, <2>2
<1>7. \A d \in Cos \ {c}, g \in Fds, x \in Dirs :
         Waits(d) /\ g = call[d].fd /\ x = Row(d).dir => Unmoved(d, g, x)
  BY <1>3, <1>4 DEF Unmoved, Can, Failed
<1> QED
  BY <1>1, <1>2, <1>4, <1>5, <1>6, <1>7, CutStep

LEMMA ShutdownStep ==
  ASSUME SocketInv, NEW c \in Cos, NEW f \in program.fds, Shutdown(c, f)
  PROVE  SocketInv'
<1>1. f \in Fds /\ SocketTyped
  BY DEF SocketInv, SocketTyped
<1>2. PICK what \in {"r", "w", "event"} :
         /\ Del(f, what) /\ Deprive(c, f, what)
         /\ link' = IF what = "event" THEN [link EXCEPT ![f] = "closed"] ELSE link
         /\ data' = IF what = "r" THEN [data EXCEPT ![f] = TRUE] ELSE data
  BY DEF Shutdown
<1>3. /\ running = c /\ call[c] = Idle /\ link[f] = "up" /\ room' = room
      /\ UNCHANGED <<program, strayed, running, batch, call, timers, why, answer>>
  BY DEF Shutdown
<1>4. /\ link' \in [Fds -> {"new", "going", "up", "refused", "closed"}]
      /\ data' \in [Fds -> BOOLEAN] /\ room' \in [Fds -> BOOLEAN]
      /\ link'[f] \in {"up", "closed"} /\ (link'[f] = "closed" => what = "event")
      /\ (data[f] => data'[f]) /\ (data'[f] => data[f] \/ what = "r")
      /\ \A g \in Fds \ {f} : link'[g] = link[g] /\ data'[g] = data[g]
  <2>1. CASE what = "event"
    BY <1>1, <1>2, <1>3, <2>1 DEF SocketTyped
  <2>2. CASE what = "r"
    BY <1>1, <1>2, <1>3, <2>2 DEF SocketTyped
  <2>3. CASE what = "w"
    BY <1>1, <1>2, <1>3, <2>3 DEF SocketTyped
  <2> QED
    BY <2>1, <2>2, <2>3
<1>5. /\ \A d \in Cos : Waits(d) => link'[call[d].fd] # "new"
      /\ \A g \in Fds : /\ link'[g] = "new" => entry'[g] = None
                        /\ link'[g] \in {"new", "going"} => ~data'[g] /\ ~room'[g]
  <2>1. \A g \in Fds : link'[g] \in {"new", "going"} => g # f /\ link'[g] = link[g]
    BY <1>4
  <2> QED
    BY <1>1, <1>2, <1>3, <1>4, <2>1, RemovedLinks DEF SocketInv, Calling, Linked
<1>6. ASSUME NEW d \in Cos \ {c}, NEW g \in Fds, NEW x \in Dirs,
             Waits(d), g = call[d].fd, x = Row(d).dir
      PROVE  Unmoved(d, g, x)
  <2>1. CASE g # f
    BY <1>3, <1>4, <2>1 DEF Unmoved, Can, Failed
  <2>2. CASE g = f
    <3>1. Can(g, x) => Can(g, x)'
      BY <1>3, <1>4, <2>2 DEF Can, Failed
    <3>2. Can(g, x)' /\ ~Can(g, x) => what = "event" \/ what = x
      BY <1>3, <1>4, <2>2 DEF Can, Failed
    <3>3. ASSUME missing'[d] = "no", what = "event" \/ what = x
          PROVE  FALSE
      <4>1. Kept(d, g, x) /\ entry'[g][x] = 0
        <5>1. what \in {"keep", "event", "r", "w"}
          OBVIOUS
        <5>2. /\ \A z \in Dirs : entry'[f][z] = IF what = "event" \/ what = z THEN 0 ELSE entry[f][z]
              /\ Kept(d, g, x)
          BY <1>1, <1>2, <1>3, <1>6, <5>1, Removed
        <5> QED
          BY <2>2, <3>3, <5>2
      <4>2. entry[g][x] = 0 /\ missing[d] = "no"
        BY <3>3, <4>1 DEF Kept
      <4>3. call[d].parked /\ Holding(d) /\ d # 0
        BY <1>3, <1>6, SocketAssumption DEF SocketInv, Calling
      <4> QED
        BY <1>6, <4>2, <4>3 DEF Holding
    <3> QED
      BY <1>3, <1>4, <2>2, <3>1, <3>2, <3>3 DEF Unmoved
  <2> QED
    BY <2>1, <2>2
<1> QED
  BY <1>1, <1>2, <1>3, <1>4, <1>5, <1>6, CutStep

\* A call begins.
LEMMA BeginStep ==
  ASSUME SocketInv, NEW c \in Cos, NEW f \in program.fds, NEW op \in Calls, Begin(c, op, f)
  PROVE  SocketInv'
<1>1. f \in Fds /\ SocketTyped
  BY DEF SocketInv, SocketTyped
<1> DEFINE new == [op |-> op, fd |-> f, left |-> IF Rows[op].all THEN N ELSE 1,
                   has |-> FALSE, parked |-> FALSE, looks |-> FALSE]
<1>2. /\ running = c /\ call[c] = Idle /\ Free(f, Rows[op].dir)
      /\ (op \in Connects) <=> (link[f] = "new")
      /\ call' = [call EXCEPT ![c] = new]
      /\ why' = [why EXCEPT ![c] = "begin"]
      /\ missing' = [missing EXCEPT ![c] = "no"] /\ answer' = [answer EXCEPT ![c] = "none"]
      /\ strayed' = strayed \union {d \in {c} : [fd |-> f, co |-> c] \in batch}
      /\ op \in Connects => link' = [link EXCEPT ![f] = "going"]
      /\ op \notin Connects => link' = link
      /\ UNCHANGED <<program, entry, ready, data, room, running, batch, timers>>
  BY DEF Begin, Fresh, osVars, epollVars
<1>3. new \in CallRecs
  <2>1. PICK n \in Int : n = IF Rows[op].all THEN N ELSE 1
    <3>1. CASE Rows[op].all
      BY <3>1, SocketAssumption
    <3>2. CASE ~Rows[op].all
      BY <3>2
    <3> QED
      BY <3>1, <3>2
  <2> QED
    BY <1>1, <2>1 DEF CallRecs
<1>4. new.op = op /\ new.fd = f /\ ~new.has /\ ~new.parked /\ ~new.looks
  OBVIOUS
<1> HIDE DEF new
<1>5. /\ call' \in [Cos -> CallRecs] /\ \A d \in Cos \ {c} : call'[d] = call[d]
      /\ call'[c].op = op /\ call'[c].fd = f /\ ~call'[c].has /\ ~call'[c].parked /\ ~call'[c].looks
  <2>1. call'[c] = new
    BY <1>1, <1>2 DEF SocketTyped
  <2> QED
    BY <1>1, <1>2, <1>3, <1>4, <2>1 DEF SocketTyped
<1>6. /\ why'[c] = "begin" /\ missing'[c] = "no"
      /\ \A d \in Cos \ {c} : why'[d] = why[d] /\ missing'[d] = missing[d]
      /\ strayed \subseteq strayed' /\ strayed' \subseteq Cos
      /\ c \notin strayed' => [fd |-> f, co |-> c] \notin batch
  BY <1>1, <1>2 DEF SocketTyped
<1>7. /\ link' \in [Fds -> {"new", "going", "up", "refused", "closed"}]
      /\ link'[f] # "new" /\ \A g \in Fds : link'[g] # link[g] => g = f /\ link[g] = "new" /\ link'[g] = "going"
  <2>1. CASE op \in Connects
    BY <1>1, <1>2, <2>1 DEF SocketTyped
  <2>2. CASE op \notin Connects
    BY <1>1, <1>2, <2>2 DEF SocketTyped
  <2> QED
    BY <2>1, <2>2
<1>8. SocketTyped'
  BY <1>1, <1>2, <1>5, <1>6, <1>7 DEF SocketTyped
<1>9. Alone(c)
  BY <1>1, <1>2, <1>5, <1>6 DEF Alone
<1>10. /\ ~Waits(c) /\ \A g \in Fds : entry[g].w # c
       /\ c # 0 /\ "own" \notin timers[c]
       /\ "old" \in timers[c] \/ why[c] \in {"old", "stray"} => c \in strayed
  BY <1>2, BetweenIs
<1>11. ASSUME NEW g \in Fds
       PROVE  Linked(g)'
  <2>1. Linked(g)
    BY DEF SocketInv
  <2> QED
    BY <1>2, <1>7, <2>1 DEF Linked
<1>12. Waits(c)' /\ Row(c)' = Rows[op] /\ op # "sleep"
  BY <1>5, RowsAre DEF Waits, Row
<1>13. \A d \in Cos \ {c} : (Waits(d)' <=> Waits(d)) /\ Row(d)' = Row(d)
  BY <1>5 DEF Waits, Row
<1>14. \A d \in Cos \ {c} : Waits(d) =>
          /\ link'[call[d].fd] # "new"
          /\ call[d].fd = f => Row(d).dir # Rows[op].dir
  BY <1>2, <1>7 DEF SocketInv, Calling, Free
<1>15. ASSUME NEW d \in Cos, Waits(d)'
       PROVE  Calling(d)'
  <2>1. CASE d = c
    <3>1. \A e \in Cos \ {c} : Waits(e)' /\ call'[e].fd = f => Row(e)'.dir # Rows[op].dir
      BY <1>5, <1>13, <1>14
    <3> QED
      BY <1>1, <1>2, <1>5, <1>7, <1>12, <2>1, <3>1 DEF Calling
  <2>2. CASE d # c
    <3>1. Calling(d) /\ Waits(d) /\ running # d
      BY <1>2, <1>13, <1>15, <2>2 DEF SocketInv
    <3>2. \A e \in Cos \ {d} : Waits(e)' /\ call'[e].fd = call[d].fd => Row(e)'.dir # Row(d).dir
      <4> SUFFICES ASSUME NEW e \in Cos \ {d}, Waits(e)', call'[e].fd = call[d].fd
                   PROVE  Row(e)'.dir # Row(d).dir
        OBVIOUS
      <4>1. CASE e = c
        BY <1>5, <1>12, <1>14, <2>2, <3>1, <4>1
      <4>2. CASE e # c
        BY <1>5, <1>13, <3>1, <4>2 DEF Calling
      <4> QED
        BY <4>1, <4>2
    <3> QED
      BY <1>2, <1>5, <1>13, <1>14, <2>2, <3>1, <3>2 DEF Calling
  <2> QED
    BY <2>1, <2>2
<1>16. ASSUME NEW d \in Cos \ {c}, NEW g \in Fds, NEW x \in Dirs,
              Waits(d), g = call[d].fd, x = Row(d).dir
       PROVE  Unmoved(d, g, x) /\ Kept(d, g, x)
  <2>1. link'[g] = link[g]
    BY <1>7, <1>16 DEF SocketInv, Calling
  <2>2. Kept(d, g, x)
    BY <1>2, <1>6, <1>16, NoneRemoved
  <2> QED
    BY <1>2, <2>1, <2>2 DEF Unmoved, Can, Failed
<1>17. Holding(c)'
  <2>1. op \in Connects => entry'[f] = None
    BY <1>1, <1>2 DEF SocketInv, Linked
  <2> QED
    BY <1>5, <1>6, <2>1 DEF Holding
<1>18. Told(c)' /\ Reporting(c)'
  BY <1>2, <1>5, <1>6 DEF Told, Reporting
<1>19. Timing(c)'
  BY <1>2, <1>5, <1>6, <1>10, <1>12 DEF Timing
<1>20. \A d \in Cos : Calling(d)'
  BY <1>15 DEF Calling
<1> QED
  BY <1>2, <1>8, <1>9, <1>10, <1>11, <1>16, <1>17, <1>18, <1>19, <1>20, OwnStep

\* A coroutine's step.
LEMMA CoroutineStep ==
  ASSUME SocketInv, NEW c \in Cos, Coroutine(c)
  PROVE  SocketInv'
<1>1. CASE Try(c)
  <2>1. running = c /\ Waits(c) /\ ~call[c].parked
    BY <1>1 DEF Try
  <2>2. CASE Looks(c)
    BY <1>1, <2>1, <2>2, LookStep DEF Try
  <2>3. CASE ~Looks(c) /\ Row(c).trusts /\ why[c] = "begin"
    BY <1>1, <2>1, <2>3, ParkStep DEF Try
  <2>4. CASE ~Looks(c) /\ Row(c).trusts /\ why[c] # "begin"
    <3>1. \E a \in {"ok", "error"} : Return(c, a)
      BY <1>1, <2>4 DEF Try
    <3> QED
      BY <2>1, <3>1, ReturnStep
  <2>5. CASE ~Looks(c) /\ ~Row(c).trusts /\ Failed(call[c].fd)
    BY <1>1, <2>1, <2>5, ReturnStep DEF Try
  <2>6. CASE ~Looks(c) /\ ~Row(c).trusts /\ ~Failed(call[c].fd) /\ Can(call[c].fd, Row(c).dir)
    BY <1>1, <2>1, <2>6, ProgressStep DEF Try
  <2>7. CASE ~Looks(c) /\ ~Row(c).trusts /\ ~Failed(call[c].fd) /\ ~Can(call[c].fd, Row(c).dir)
    BY <1>1, <2>1, <2>7, ParkStep DEF Try
  <2> QED
    BY <2>2, <2>3, <2>4, <2>5, <2>6, <2>7
<1>2. CASE Back(c)
  BY <1>2, BackStep
<1>3. CASE Sleep(c) \/ EndSleep(c)
  BY <1>3, SleepStep, EndSleepStep
<1>4. CASE \E f \in program.fds : Close(c, f) \/ Shutdown(c, f) \/ \E op \in Calls : Begin(c, op, f)
  BY <1>4, CloseStep, ShutdownStep, BeginStep
<1> QED
  BY <1>1, <1>2, <1>3, <1>4 DEF Coroutine

---------------------------------------------------------------------------
(* The loop and the kernel.                                                *)

\* While the loop runs, every call is parked.
LEMMA AllParked ==
  ASSUME SocketInv, running = 0, NEW c \in Cos, Waits(c)
  PROVE  call[c].parked /\ c # 0
BY SocketAssumption DEF SocketInv, Calling

\* An entry that a call believes in leads events to it.
LEMMA ToldIs ==
  ASSUME SocketInv, NEW c \in Cos, Waits(c), call[c].parked, missing[c] = "no"
  PROVE  LET f == call[c].fd IN
         entry[f][Row(c).dir] = c /\ Registered(f) /\ Event(f) = [fd |-> f, co |-> c]
<1>1. PICK f \in Fds, x \in Dirs : f = call[c].fd /\ x = Row(c).dir
  BY WaiterIs
<1>2. entry[f][x] = c /\ c # 0
  BY <1>1, SocketAssumption DEF SocketInv, Holding
<1>3. Ud(entry[f]) = c
  BY <1>2, UdIs
<1>4. Registered(f)
  BY <1>2 DEF Registered, None, Dirs
<1> QED
  BY <1>1, <1>2, <1>3, <1>4 DEF Event

\* Epoll::wait.
LEMMA WaitStep ==
  ASSUME SocketInv, Poll
  PROVE  SocketInv'
<1>1. /\ running = 0 /\ batch = {} /\ ready' = {}
      /\ batch' = {Event(f) : f \in {g \in ready : Reported(g)}}
      /\ UNCHANGED <<program, strayed, entry, data, room, link, running, call, timers, why, missing, answer>>
  BY DEF Poll, osVars
<1>2. SocketTyped
  BY DEF SocketInv
<1>3. \A c \in Cos : (Waits(c)' <=> Waits(c)) /\ Row(c)' = Row(c)
  BY <1>1 DEF Waits, Row
<1>4. batch' \subseteq [fd : Fds, co : Cos]
  <2> SUFFICES ASSUME NEW f \in ready, Reported(f)
               PROVE  Event(f) \in [fd : Fds, co : Cos]
    BY <1>1
  <2>1. f \in Fds /\ entry[f] \in Entries /\ entry[f] # None
    BY <1>2 DEF SocketTyped, Reported, Registered
  <2>2. entry[f].r # 0 \/ entry[f].w # 0
    BY <2>1, EntryIs
  <2>3. Ud(entry[f]) \in Cos
    BY <2>1, <2>2 DEF Ud, Entries
  <2> QED
    BY <2>1, <2>3 DEF Event
<1>5. SocketTyped'
  BY <1>1, <1>2, <1>4 DEF SocketTyped
<1>6. \A f \in Fds : Linked(f)' /\ Writing(f)'
  BY <1>1 DEF SocketInv, Linked, Writing, Owns, Waits, Row
<1>7. ASSUME NEW c \in Cos
      PROVE  Calling(c)' /\ Holding(c)' /\ Timing(c)'
  BY <1>1, <1>3 DEF SocketInv, Calling, Holding, Timing
<1>8. ASSUME NEW c \in Cos
      PROVE  Told(c)'
  <2>1. SUFFICES ASSUME Waits(c), call[c].parked, missing[c] = "no", Can(call[c].fd, Row(c).dir)
                 PROVE  Event(call[c].fd) \in batch'
    BY <1>1, <1>3 DEF Told, Can, Failed, Event
  <2>2. running # c /\ Told(c)
    BY <1>1, SocketAssumption DEF SocketInv
  <2>3. call[c].fd \in ready
    BY <1>1, <2>1, <2>2 DEF Told
  <2>4. PICK f \in Fds, x \in Dirs : f = call[c].fd /\ x = Row(c).dir
    BY <2>1, WaiterIs
  <2>5. Registered(f) /\ entry[f][x] # 0
    BY <2>1, <2>4, ToldIs, SocketAssumption
  <2>6. Reported(f)
    BY <2>1, <2>4, <2>5 DEF Reported, Dirs
  <2> QED
    BY <1>1, <2>3, <2>4, <2>6
<1>9. ASSUME NEW c \in Cos
      PROVE  Reporting(c)'
  <2>1. SUFFICES ASSUME Waits(c), ~call[c].looks, [fd |-> call[c].fd, co |-> c] \in batch'
                 PROVE  IsTrue(c)
    <3>1. running' # c
      BY <1>1, SocketAssumption
    <3>2. IsTrue(c)' <=> IsTrue(c)
      BY <1>1, <1>3 DEF IsTrue, Can, Failed
    <3> QED
      BY <1>1, <1>3, <3>1, <3>2 DEF Reporting
  <2>2. PICK f \in ready : Reported(f) /\ Event(f) = [fd |-> call[c].fd, co |-> c]
    BY <1>1, <2>1
  <2>3. f \in Fds /\ f = call[c].fd /\ Ud(entry[f]) = c /\ c # 0
    BY <1>2, <2>2, SocketAssumption DEF Event, SocketTyped
  <2>4. PICK x \in Dirs : x = Row(c).dir
    BY <2>1, WaiterIs
  <2>5. Linked(f) /\ Holding(c) /\ call[c].parked
    BY <1>1, <2>1, <2>3, AllParked DEF SocketInv
  <2>6. link[f] \in {"up", "refused", "closed"}
    BY <1>2, <2>2, <2>3, <2>5 DEF Reported, Linked, Failed, Can, SocketTyped
  <2>7. ASSUME call[c].op \in Polls
        PROVE  Can(f, x)
    <3>1. entry[f][Other(x)] # c
      BY <2>1, <2>3, <2>4, <2>5, <2>7 DEF Holding
    <3>2. entry[f][Other(x)] = 0
      BY <2>3, <2>5, <3>1 DEF Ud, Linked, Other, Dirs
    <3>3. CASE Failed(f)
      BY <3>3 DEF Can
    <3>4. CASE ~Failed(f)
      <4>1. PICK d \in Dirs : entry[f][d] # 0 /\ Can(f, d)
        BY <2>2, <3>4 DEF Reported, Dirs
      <4>2. d = x
        BY <3>2, <4>1 DEF Dirs, Other
      <4> QED
        BY <4>1, <4>2
    <3> QED
      BY <3>3, <3>4
  <2> QED
    BY <2>3, <2>4, <2>6, <2>7 DEF IsTrue
<1> QED
  BY <1>5, <1>6, <1>7, <1>8, <1>9 DEF SocketInv

\* The loop resumes a coroutine: what is still to be said of that one.
LEMMA ResumeStep ==
  ASSUME SocketInv, NEW c \in Cos, running = 0, running' = c, batch' \subseteq batch,
         \A e \in batch : e.co # c => e \in batch',
         UNCHANGED <<program, entry, ready, data, room, link, call, missing, answer>>,
         why' \in [Cos -> {"begin", "event", "stray", "time", "old"}],
         timers' \in [Cos -> SUBSET {"own", "old"}],
         \A d \in Cos \ {c} : why'[d] = why[d] /\ timers'[d] = timers[d],
         strayed \subseteq strayed', strayed' \subseteq Cos,
         Timing(c)',
         c \notin strayed' /\ Waits(c) /\ ~call[c].looks /\ why'[c] = "event" => IsTrue(c)
  PROVE  SocketInv'
<1>1. SocketTyped'
  BY DEF SocketInv, SocketTyped
<1>2. \A f \in Fds : Linked(f)' /\ Writing(f)'
  BY DEF SocketInv, Linked, Writing, Owns, Waits, Row
<1>3. \A d \in Cos : (Waits(d)' <=> Waits(d)) /\ Row(d)' = Row(d)
  BY DEF Waits, Row
<1>4. ASSUME NEW d \in Cos
      PROVE  Calling(d)' /\ Holding(d)'
  <2>1. Waits(d) => call[d].parked
    BY AllParked
  <2> QED
    BY <1>3, <2>1 DEF SocketInv, Calling, Holding
<1>5. ASSUME NEW d \in Cos
      PROVE  Told(d)'
  <2>1. SUFFICES ASSUME d # c, Waits(d), call[d].parked, missing[d] = "no",
                        Can(call[d].fd, Row(d).dir)
                 PROVE  Event(call[d].fd) \in batch' \/ call[d].fd \in ready
    BY <1>3 DEF Told, Can, Failed, Event
  <2>2. Event(call[d].fd) \in batch \/ call[d].fd \in ready
    BY <2>1, SocketAssumption DEF SocketInv, Told
  <2>3. Event(call[d].fd).co = d
    <3>1. Event(call[d].fd) = [fd |-> call[d].fd, co |-> d]
      BY <2>1, ToldIs
    <3> QED
      BY <3>1
  <2> QED
    BY <2>1, <2>2, <2>3
<1>6. ASSUME NEW d \in Cos \ {c}
      PROVE  Timing(d)'
  BY <1>3 DEF SocketInv, Timing
<1>7. ASSUME NEW d \in Cos
      PROVE  Reporting(d)'
  <2>1. IsTrue(d)' <=> IsTrue(d)
    BY <1>3 DEF IsTrue, Can, Failed
  <2>2. Reporting(d)
    BY DEF SocketInv
  <2>3. CASE d = c
    BY <1>3, <2>1, <2>2, <2>3 DEF Reporting
  <2>4. CASE d # c
    BY <1>3, <2>1, <2>2, <2>4 DEF Reporting
  <2> QED
    BY <2>3, <2>4
<1> QED
  BY <1>1, <1>2, <1>4, <1>5, <1>6, <1>7 DEF SocketInv

LEMMA DeliverStep ==
  ASSUME SocketInv, NEW f \in Fds, NEW c \in Cos, Deliver([fd |-> f, co |-> c])
  PROVE  SocketInv'
<1> DEFINE e == [fd |-> f, co |-> c]
<1>1. /\ running = 0 /\ e \in batch /\ batch' = batch \ {e} /\ running' = c
      /\ IF IsFor(e, c)
         THEN why' = [why EXCEPT ![c] = "event"] /\ strayed' = strayed
         ELSE why' = [why EXCEPT ![c] = "stray"] /\ strayed' = strayed \union {c}
      /\ UNCHANGED <<program, entry, ready, data, room, link, call, timers, missing, answer>>
  BY DEF Deliver, epollVars, osVars
<1>2. e.co = c /\ e.fd = f
  OBVIOUS
<1>3. SocketTyped /\ Timing(c) /\ Reporting(c)
  BY DEF SocketInv
<1>4. /\ why' \in [Cos -> {"begin", "event", "stray", "time", "old"}]
      /\ \A d \in Cos \ {c} : why'[d] = why[d]
      /\ strayed \subseteq strayed' /\ strayed' \subseteq Cos
      /\ IsFor(e, c) => why'[c] = "event"
      /\ ~IsFor(e, c) => why'[c] = "stray" /\ c \in strayed'
  BY <1>1, <1>3 DEF SocketTyped
<1>5. timers' \in [Cos -> SUBSET {"own", "old"}] /\ \A d \in Cos : timers'[d] = timers[d]
  BY <1>1, <1>3 DEF SocketTyped
<1>6. Timing(c)'
  <2>1. (Waits(c)' <=> Waits(c)) /\ Row(c)' = Row(c)
    BY <1>1 DEF Waits, Row
  <2>2. CASE IsFor(e, c)
    <3>1. Waits(c) /\ ~call[c].looks /\ call[c].op # "sleep" /\ why'[c] = "event"
      BY <1>4, <2>2, WaiterIs DEF IsFor
    <3> QED
      BY <1>1, <1>3, <1>4, <2>1, <3>1 DEF Timing
  <2>3. CASE ~IsFor(e, c)
    BY <1>1, <1>3, <1>4, <2>1, <2>3 DEF Timing
  <2> QED
    BY <2>2, <2>3
<1>7. c \notin strayed' /\ Waits(c) /\ ~call[c].looks /\ why'[c] = "event" => IsTrue(c)
  BY <1>1, <1>2, <1>3, <1>4 DEF IsFor, Reporting
<1>8. \A d \in batch : d.co # c => d \in batch'
  BY <1>1, <1>2
<1> QED
  BY <1>1, <1>4, <1>5, <1>6, <1>7, <1>8, ResumeStep

LEMMA TimeOutStep ==
  ASSUME SocketInv, NEW c \in Cos, TimeOut(c)
  PROVE  SocketInv'
<1>1. PICK t \in timers[c] :
         /\ timers' = [timers EXCEPT ![c] = @ \ {t}]
         /\ why' = [why EXCEPT ![c] = IF t = "own" THEN "time" ELSE "old"]
  BY DEF TimeOut
<1>2. /\ running = 0 /\ batch = {} /\ running' = c /\ batch' = batch /\ strayed' = strayed
      /\ UNCHANGED <<program, entry, ready, data, room, link, call, missing, answer>>
  BY DEF TimeOut, epollVars, osVars
<1>3. SocketTyped /\ Timing(c) /\ t \in {"own", "old"}
  BY DEF SocketInv, SocketTyped
<1>4. /\ timers' \in [Cos -> SUBSET {"own", "old"}] /\ timers'[c] = timers[c] \ {t}
      /\ why' \in [Cos -> {"begin", "event", "stray", "time", "old"}]
      /\ t = "own" => why'[c] = "time"
      /\ t # "own" => why'[c] = "old"
      /\ \A d \in Cos \ {c} : why'[d] = why[d] /\ timers'[d] = timers[d]
  BY <1>1, <1>3 DEF SocketTyped
<1>5. (Waits(c)' <=> Waits(c)) /\ Row(c)' = Row(c)
  BY <1>2 DEF Waits, Row
<1>6. Waits(c) => call[c].parked /\ call[c].op # "sleep"
  BY <1>2, AllParked, WaiterIs
<1>7. Timing(c)'
  BY <1>1, <1>2, <1>3, <1>4, <1>5, <1>6 DEF Timing
<1> QED
  BY <1>2, <1>3, <1>4, <1>7, ResumeStep DEF SocketTyped

\* What the kernel does is new for nobody but those that it puts on its list.
LEMMA KernelIs ==
  ASSUME SocketInv, NEW f \in Fds, Kernel(f)
  PROVE  /\ UNCHANGED <<program, strayed, running, batch, call, timers, why, missing, answer, entry>>
         /\ ready \subseteq ready' /\ SocketTyped'
         /\ \A g \in Fds :
               /\ link'[g] = "new" <=> link[g] = "new"
               /\ link'[g] \in {"new", "going"} => ~data'[g] /\ ~room'[g]
               /\ link[g] \in {"up", "refused", "closed"} => link'[g] \in {"up", "refused", "closed"}
               /\ \A x \in Dirs : /\ Can(g, x) => Can(g, x)'
                                  /\ Can(g, x)' /\ ~Can(g, x) /\ entry[g][x] # 0 => g \in ready'
<1>1. /\ UNCHANGED <<program, strayed, running, batch, call, timers, why, missing, answer, entry>>
      /\ Arrive(f) \/ PeerReads(f) \/ Established(f) \/ Breaks(f)
  BY DEF Kernel, Arrive, PeerReads, Established, Breaks
<1>2. SocketTyped /\ \A g \in Fds : Linked(g)
  BY DEF SocketInv
<1>3. CASE Arrive(f)
  <2>1. /\ link[f] = "up" /\ data' = [data EXCEPT ![f] = TRUE]
        /\ ready' = ready \union (IF entry[f].r # 0 THEN {f} ELSE {})
        /\ UNCHANGED <<room, link>>
    BY <1>3 DEF Arrive, Fires
  <2>2. ready \subseteq ready' /\ ready' \subseteq Fds /\ (entry[f].r # 0 => f \in ready')
    BY <1>2, <2>1 DEF SocketTyped
  <2>3. data' \in [Fds -> BOOLEAN] /\ data'[f] /\ \A g \in Fds \ {f} : data'[g] = data[g]
    BY <1>2, <2>1 DEF SocketTyped
  <2> QED
    BY <1>1, <1>2, <2>1, <2>2, <2>3 DEF SocketTyped, Linked, Can, Failed, Dirs
<1>4. CASE PeerReads(f)
  <2>1. /\ link[f] = "up" /\ room' = [room EXCEPT ![f] = TRUE]
        /\ ready' = ready \union (IF entry[f].w # 0 THEN {f} ELSE {})
        /\ UNCHANGED <<data, link>>
    BY <1>4 DEF PeerReads, Fires
  <2>2. ready \subseteq ready' /\ ready' \subseteq Fds /\ (entry[f].w # 0 => f \in ready')
    BY <1>2, <2>1 DEF SocketTyped
  <2>3. room' \in [Fds -> BOOLEAN] /\ room'[f] /\ \A g \in Fds \ {f} : room'[g] = room[g]
    BY <1>2, <2>1 DEF SocketTyped
  <2> QED
    BY <1>1, <1>2, <2>1, <2>2, <2>3 DEF SocketTyped, Linked, Can, Failed, Dirs
<1>5. CASE Established(f)
  <2>1. /\ link[f] = "going" /\ room' = [room EXCEPT ![f] = TRUE] /\ link' = [link EXCEPT ![f] = "up"]
        /\ ready' = ready \union (IF entry[f].w # 0 THEN {f} ELSE {})
        /\ UNCHANGED data
    BY <1>5 DEF Established, Fires
  <2>2. ready \subseteq ready' /\ ready' \subseteq Fds /\ (entry[f].w # 0 => f \in ready')
    BY <1>2, <2>1 DEF SocketTyped
  <2>3. /\ room' \in [Fds -> BOOLEAN] /\ room'[f] /\ \A g \in Fds \ {f} : room'[g] = room[g]
        /\ link' \in [Fds -> {"new", "going", "up", "refused", "closed"}] /\ link'[f] = "up"
        /\ \A g \in Fds \ {f} : link'[g] = link[g]
    BY <1>2, <2>1 DEF SocketTyped
  <2> QED
    BY <1>1, <1>2, <2>1, <2>2, <2>3 DEF SocketTyped, Linked, Can, Failed, Dirs
<1>6. CASE Breaks(f)
  <2>1. /\ link[f] \in {"going", "up"}
        /\ \E new \in {"refused", "closed"} : link' = [link EXCEPT ![f] = new]
        /\ ready' = ready \union (IF Registered(f) THEN {f} ELSE {})
        /\ UNCHANGED <<data, room>>
    BY <1>6 DEF Breaks
  <2>2. \A x \in Dirs : entry[f][x] # 0 => Registered(f)
    BY DEF Registered, None, Dirs
  <2>3. ready \subseteq ready' /\ ready' \subseteq Fds /\ (Registered(f) => f \in ready')
    BY <1>2, <2>1 DEF SocketTyped
  <2>4. /\ link' \in [Fds -> {"new", "going", "up", "refused", "closed"}]
        /\ link'[f] \in {"refused", "closed"} /\ \A g \in Fds \ {f} : link'[g] = link[g]
    BY <1>2, <2>1 DEF SocketTyped
  <2>5. SocketTyped'
    BY <1>1, <1>2, <2>1, <2>3, <2>4 DEF SocketTyped
  <2>6. ASSUME NEW g \in Fds, g = f
        PROVE  /\ link'[g] = "new" <=> link[g] = "new"
               /\ link'[g] \in {"new", "going"} => ~data'[g] /\ ~room'[g]
               /\ link[g] \in {"up", "refused", "closed"} => link'[g] \in {"up", "refused", "closed"}
               /\ \A x \in Dirs : /\ Can(g, x) => Can(g, x)'
                                  /\ Can(g, x)' /\ ~Can(g, x) /\ entry[g][x] # 0 => g \in ready'
    BY <2>1, <2>2, <2>3, <2>4, <2>6 DEF Can, Failed
  <2>7. ASSUME NEW g \in Fds, g # f
        PROVE  /\ link'[g] = "new" <=> link[g] = "new"
               /\ link'[g] \in {"new", "going"} => ~data'[g] /\ ~room'[g]
               /\ link[g] \in {"up", "refused", "closed"} => link'[g] \in {"up", "refused", "closed"}
               /\ \A x \in Dirs : /\ Can(g, x) => Can(g, x)'
                                  /\ Can(g, x)' /\ ~Can(g, x) /\ entry[g][x] # 0 => g \in ready'
    BY <1>2, <2>1, <2>4, <2>7 DEF Can, Failed, Linked
  <2> QED
    BY <1>1, <2>3, <2>5, <2>6, <2>7
<1> QED
  BY <1>1, <1>3, <1>4, <1>5, <1>6

LEMMA KernelStep ==
  ASSUME SocketInv, NEW f \in Fds, Kernel(f)
  PROVE  SocketInv'
<1>1. /\ UNCHANGED <<program, strayed, running, batch, call, timers, why, missing, answer, entry>>
      /\ ready \subseteq ready' /\ SocketTyped'
      /\ \A g \in Fds :
            /\ link'[g] = "new" <=> link[g] = "new"
            /\ link'[g] \in {"new", "going"} => ~data'[g] /\ ~room'[g]
            /\ link[g] \in {"up", "refused", "closed"} => link'[g] \in {"up", "refused", "closed"}
            /\ \A x \in Dirs : /\ Can(g, x) => Can(g, x)'
                               /\ Can(g, x)' /\ ~Can(g, x) /\ entry[g][x] # 0 => g \in ready'
  BY KernelIs
<1>2. \A g \in Fds : Linked(g)' /\ Writing(g)'
  BY <1>1 DEF SocketInv, Linked, Writing, Owns, Waits, Row
<1>3. ASSUME NEW c \in Cos
      PROVE  /\ (Waits(c)' <=> Waits(c)) /\ Row(c)' = Row(c)
             /\ Calling(c)' /\ Holding(c)' /\ Timing(c)'
  <2>1. \A d \in Cos : (Waits(d)' <=> Waits(d)) /\ Row(d)' = Row(d)
    BY <1>1 DEF Waits, Row
  <2> QED
    BY <1>1, <2>1 DEF SocketInv, Calling, Holding, Timing
<1>4. ASSUME NEW c \in Cos
      PROVE  Told(c)' /\ Reporting(c)'
  <2>1. CASE ~Waits(c)
    BY <1>3, <2>1 DEF Told, Reporting
  <2>2. CASE Waits(c)
    <3>1. PICK g \in Fds, x \in Dirs : g = call[c].fd /\ x = Row(c).dir
      BY <2>2, WaiterIs
    <3>2. /\ Can(g, x) => Can(g, x)'
          /\ Can(g, x)' /\ ~Can(g, x) /\ entry[g][x] # 0 => g \in ready'
          /\ link[g] \in {"up", "refused", "closed"} => link'[g] \in {"up", "refused", "closed"}
      BY <1>1
    <3>3. Told(c) /\ Reporting(c)
      BY DEF SocketInv
    <3>4. ASSUME call[c].parked, running # c, missing[c] = "no", Can(g, x)'
          PROVE  Event(g) \in batch \/ g \in ready'
      <4>1. entry[g][x] # 0
        BY <2>2, <3>1, <3>4, ToldIs, SocketAssumption
      <4>2. Can(g, x) => Event(g) \in batch \/ g \in ready
        BY <2>2, <3>1, <3>3, <3>4 DEF Told
      <4> QED
        BY <1>1, <3>2, <3>4, <4>1, <4>2
    <3>5. Told(c)'
      BY <1>1, <1>3, <3>1, <3>4 DEF Told, Event, Can, Failed
    <3>6. Can(g, x)' <=> Can(call[c].fd, Row(c).dir)'
      BY <1>1, <1>3, <3>1 DEF Can, Failed
    <3>7. IsTrue(c) => IsTrue(c)'
      BY <1>1, <1>3, <3>1, <3>2, <3>6 DEF IsTrue
    <3>8. Reporting(c)'
      BY <1>1, <1>3, <3>3, <3>7 DEF Reporting
    <3> QED
      BY <3>5, <3>8
  <2> QED
    BY <2>1, <2>2
<1> QED
  BY <1>1, <1>2, <1>3, <1>4 DEF SocketInv

LEMMA SocketStep ==
  ASSUME SocketInv, SocketNext
  PROVE  SocketInv'
<1>1. CASE Loop
  BY <1>1, WaitStep, DeliverStep, TimeOutStep DEF Loop
<1>2. CASE \E c \in Cos : Coroutine(c)
  BY <1>2, CoroutineStep
<1>3. CASE \E f \in program.fds : Kernel(f)
  BY <1>3, KernelStep DEF SocketInv, SocketTyped
<1> QED
  BY <1>1, <1>2, <1>3 DEF SocketNext

LEMMA SocketSame ==
  ASSUME SocketInv, UNCHANGED socketVars
  PROVE  SocketInv'
<1>1. UNCHANGED <<program, entry, ready, data, room, link, running, batch, call, timers, why,
                  strayed, missing, answer>>
  BY DEF socketVars, epollVars, osVars
<1>2. SocketTyped'
  BY <1>1 DEF SocketInv, SocketTyped
<1>3. \A f \in Fds : Linked(f)' /\ Writing(f)'
  BY <1>1 DEF SocketInv, Linked, Writing, Owns, Waits, Row
<1>4. \A c \in Cos : (Waits(c)' <=> Waits(c)) /\ Row(c)' = Row(c)
  BY <1>1 DEF Waits, Row
<1>5. \A c \in Cos : Calling(c)' /\ Holding(c)' /\ Timing(c)'
  BY <1>1, <1>4 DEF SocketInv, Calling, Holding, Timing
<1>6. ASSUME NEW c \in Cos
      PROVE  Told(c)' /\ Reporting(c)'
  <2>1. Told(c) /\ Reporting(c)
    BY DEF SocketInv
  <2>2. Told(c)'
    BY <1>1, <1>4, <2>1 DEF Told, Can, Failed, Event
  <2>3. IsTrue(c)' <=> IsTrue(c)
    BY <1>1, <1>4 DEF IsTrue, Can, Failed
  <2> QED
    BY <1>1, <1>4, <2>1, <2>2, <2>3 DEF Reporting
<1> QED
  BY <1>2, <1>3, <1>5, <1>6 DEF SocketInv

LEMMA SocketStart ==
  ASSUME NEW programs, \A p \in programs : p.fds \subseteq Fds, SocketInit(programs)
  PROVE  SocketInv
<1>1. /\ program.fds \subseteq Fds
      /\ entry = [f \in Fds |-> None] /\ ready = {} /\ data = [f \in Fds |-> FALSE]
      /\ link = [f \in Fds |-> "new"] \/ link = [f \in Fds |-> "up"]
      /\ room = [f \in Fds |-> link[f] = "up"]
      /\ running = 0 /\ batch = {} /\ strayed = {}
      /\ call = [c \in Cos |-> IF c \in program.cos THEN Parked("sleep") ELSE Idle]
      /\ timers = [c \in Cos |-> IF c \in program.cos THEN {"own"} ELSE {}]
      /\ why = [c \in Cos |-> "begin"] /\ missing = [c \in Cos |-> "no"]
      /\ answer = [c \in Cos |-> "none"]
  BY DEF SocketInit
<1>2. None \in Entries /\ None.r = 0 /\ None.w = 0
  BY DEF None, Entries
<1>3. /\ Parked("sleep") \in CallRecs /\ Parked("sleep").op = "sleep"
      /\ Idle \in CallRecs /\ Idle.op = "idle"
  <2>1. Idle \in CallRecs /\ Idle.op = "idle"
    BY DEF Idle, CallRecs
  <2>2. Parked("sleep") = [[Idle EXCEPT !.op = "sleep"] EXCEPT !.parked = TRUE]
    BY <2>1 DEF Parked, CallRecs
  <2> QED
    BY <2>1, <2>2 DEF CallRecs
<1>4. ASSUME NEW c \in Cos
      PROVE  /\ call[c] \in CallRecs /\ ~Waits(c)
             /\ timers[c] \subseteq {"own"} /\ ("own" \in timers[c] => call[c].op = "sleep")
  <2>1. CASE c \in program.cos
    BY <1>1, <1>3, <2>1, RowsAre DEF Waits
  <2>2. CASE c \notin program.cos
    BY <1>1, <1>3, <2>2, RowsAre DEF Waits
  <2> QED
    BY <2>1, <2>2
<1>5. /\ link \in [Fds -> {"new", "going", "up", "refused", "closed"}] /\ room \in [Fds -> BOOLEAN]
      /\ \A f \in Fds : link[f] \in {"new", "going"} => ~room[f]
  BY <1>1
<1>6. call \in [Cos -> CallRecs] /\ timers \in [Cos -> SUBSET {"own", "old"}]
  BY <1>1, <1>4
<1>7. SocketTyped
  BY <1>1, <1>2, <1>5, <1>6 DEF SocketTyped
<1>8. \A f \in Fds : Linked(f) /\ Writing(f)
  BY <1>1, <1>2, <1>5 DEF Linked, Writing
<1>9. ASSUME NEW c \in Cos
      PROVE  Calling(c) /\ Holding(c) /\ Told(c) /\ Timing(c) /\ Reporting(c)
  <2>1. running # c /\ why[c] = "begin" /\ "old" \notin timers[c]
    BY <1>1, <1>4, SocketAssumption
  <2> QED
    BY <1>4, <2>1 DEF Calling, Holding, Told, Timing, Reporting
<1> QED
  BY <1>7, <1>8, <1>9 DEF SocketInv

---------------------------------------------------------------------------
(* What it means.                                                          *)

\* SocketInv says what the run checks.
LEMMA SocketIsRight ==
  ASSUME SocketInv
  PROVE  SocketsAreRight
<1>1. ASSUME NEW c \in Cos, Waits(c), call[c].parked, running # c,
             Can(call[c].fd, Row(c).dir), missing[c] = "no"
      PROVE  LET f == call[c].fd IN
             Event(f) \in batch \/ (f \in ready /\ Event(f).co = c)
  <2>1. PICK f \in Fds : f = call[c].fd
    BY <1>1, WaiterIs
  <2>2. Event(f) = [fd |-> f, co |-> c]
    BY <1>1, <2>1, ToldIs
  <2>3. Event(f) \in batch \/ f \in ready
    BY <1>1, <2>1 DEF SocketInv, Told
  <2>4. Event(f).co = c
    BY <2>2
  <2> QED
    BY <2>1, <2>3, <2>4
<1>2. Notified
  BY <1>1 DEF Notified
<1>3. WritesAreOwn
  <2>1. \A f \in Fds : entry[f].w \in Cos \union {0}
    BY DEF SocketInv, SocketTyped, Entries
  <2> QED
    BY <2>1 DEF WritesAreOwn, SocketInv, Writing, Owns
<1> QED
  BY <1>2, <1>3 DEF SocketsAreRight

\* Why a call that trusts what resumes it is over.
LEMMA ResumedBy ==
  ASSUME SocketInv, NEW c \in Cos, running = c, Waits(c), ~call[c].looks, ~call[c].parked,
         why[c] # "begin", c \notin strayed
  PROVE  IsTrue(c)
<1>1. Timing(c) /\ Reporting(c) /\ why[c] \in {"begin", "event", "stray", "time", "old"}
  BY DEF SocketInv, SocketTyped
<1>2. why[c] = "event"
  BY <1>1 DEF Timing
<1> QED
  BY <1>1, <1>2 DEF Reporting

\* What a call returns.
LEMMA AnswerIs ==
  ASSUME SocketInv, SocketNext, NEW c \in Cos, Waits(c), call'[c] = Idle
  PROVE  LET f == call[c].fd IN
         /\ answer'[c] = "timeout" => why[c] = "time" \/ c \in strayed
         /\ answer'[c] = "ok" /\ call[c].op \in Connects =>
               link[f] \in {"up", "closed"} \/ c \in strayed
         /\ answer'[c] = "ok" /\ call[c].op \in Polls => Can(f, Row(c).dir) \/ c \in strayed
<1>1. PICK f \in Fds, x \in Dirs : f = call[c].fd /\ x = Row(c).dir
  BY WaiterIs
<1>2. SocketTyped /\ Calling(c) /\ Timing(c)
  BY DEF SocketInv
<1>3. /\ IsRow(Row(c), call[c].op \in Connects \union Polls, call[c].op \in Polls)
      /\ call[c].op \in Calls /\ call[c].op # "idle" /\ call[c].op # "sleep" /\ call[c] # Idle
  BY WaiterIs DEF Waits, Idle
<1>4. Connects \intersect Polls = {}
  BY DEF Connects, Polls
<1>5. ~Loop /\ ~\E g \in program.fds : Kernel(g)
  BY <1>3 DEF Loop, Poll, Deliver, TimeOut, Kernel
<1>6. PICK d \in Cos : Coroutine(d)
  BY <1>5 DEF SocketNext
<1>7. /\ ~Sleep(d) /\ ~EndSleep(d)
      /\ ~\E g \in program.fds : Close(d, g) \/ Shutdown(d, g) \/ \E op \in Calls : Begin(d, op, g)
  <2>1. Idle.op = "idle"
    BY DEF Idle
  <2>2. ASSUME call[d].op \in {"idle", "sleep"}, NEW rec, call' = [call EXCEPT ![d] = rec]
        PROVE  FALSE
    BY <1>2, <1>3, <2>2 DEF SocketTyped
  <2>3. ~Sleep(d) /\ ~EndSleep(d)
    BY <2>1, <2>2 DEF Sleep, EndSleep
  <2>4. ~\E g \in program.fds : Close(d, g) \/ Shutdown(d, g)
    BY <1>3 DEF Close, Shutdown
  <2>5. ~\E g \in program.fds, op \in Calls : Begin(d, op, g)
    BY <2>1, <2>2 DEF Begin
  <2> QED
    BY <2>3, <2>4, <2>5
<1>8. Try(d) \/ Back(d)
  BY <1>6, <1>7 DEF Coroutine
<1>9. d = c /\ running = c
  <2>1. running = d
    BY <1>8 DEF Try, Back
  <2>2. ASSUME d # c
        PROVE  call'[c] = call[c]
    <3>1. \A rec : call' = [call EXCEPT ![d] = rec] => call'[c] = call[c]
      BY <1>2, <2>2 DEF SocketTyped
    <3>2. call' = call => call'[c] = call[c]
      OBVIOUS
    <3>3. CASE Back(d)
      <4>1. \E rec : call' = [call EXCEPT ![d] = rec]
        <5>1. CASE call[d].looks
          BY <3>3, <5>1 DEF Back, Awake
        <5>2. CASE ~call[d].looks
          BY <3>3, <5>2 DEF Back
        <5> QED
          BY <5>1, <5>2
      <4> QED
        BY <3>1, <4>1
    <3>4. CASE Try(d)
      <4>1. Look(d) \/ Park(d) \/ Progress(d) \/ \E a \in {"ok", "error"} : Return(d, a)
        BY <3>4 DEF Try
      <4>2. \E rec : call' = [call EXCEPT ![d] = rec]
        BY <4>1 DEF Look, Park, Progress, Return
      <4> QED
        BY <3>1, <4>2
    <3> QED
      BY <1>8, <3>3, <3>4
  <2> QED
    BY <1>3, <2>1, <2>2
<1>10. CASE Back(c)
  <2>1. running = c /\ call[c].parked
    BY <1>10 DEF Back
  <2>2. \A rec : call' = [call EXCEPT ![c] = rec] => rec = Idle
    BY <1>2 DEF SocketTyped
  <2>3. Idle.op = "idle"
    BY DEF Idle
  <2>4. CASE call[c].looks
    <3>1. why[c] = "time" \/ c \in strayed
      BY <1>2, <2>1, <2>4 DEF Timing
    <3>2. answer' = [answer EXCEPT ![c] = "timeout"]
      <4>1. SUFFICES ASSUME call' = [call EXCEPT ![c].parked = FALSE,
                                                 ![c].left = IF Row(c).timed THEN @ - 1 ELSE @]
                     PROVE  FALSE
        BY <1>10, <2>4 DEF Back, Awake
      <4>2. call[c] \in CallRecs /\ call \in [Cos -> CallRecs]
        BY <1>2 DEF SocketTyped
      <4>3. PICK n : call' = [call EXCEPT ![c] = [[call[c] EXCEPT !.parked = FALSE] EXCEPT !.left = n]]
        BY <4>1, <4>2
      <4>4. call'[c].op = call[c].op
        BY <4>2, <4>3 DEF CallRecs
      <4> QED
        BY <1>3, <2>3, <4>4
    <3> QED
      BY <1>2, <3>1, <3>2 DEF SocketTyped
  <2>5. CASE ~call[c].looks /\ Row(c).timed /\ why[c] \in {"time", "old"}
    <3>1. why[c] = "time" \/ c \in strayed
      BY <1>2, <2>5 DEF Timing
    <3>2. answer' = [answer EXCEPT ![c] = "timeout"]
      BY <1>10, <2>5 DEF Back
    <3> QED
      BY <1>2, <3>1, <3>2 DEF SocketTyped
  <2>6. CASE ~call[c].looks /\ ~(Row(c).timed /\ why[c] \in {"time", "old"})
    <3>1. call' = [call EXCEPT ![c].parked = FALSE]
      BY <1>10, <2>6 DEF Back
    <3>2. [call[c] EXCEPT !.parked = FALSE] = Idle
      BY <2>2, <3>1
    <3>3. call[c].op = Idle.op
      BY <1>2, <3>2 DEF SocketTyped, CallRecs
    <3> QED
      BY <1>3, <2>3, <3>3
  <2> QED
    BY <2>4, <2>5, <2>6
<1>11. CASE Try(c)
  <2>1. running = c /\ Waits(c) /\ ~call[c].parked
    BY <1>11 DEF Try
  <2>2. CASE Looks(c)
    <3>1. call[c].op \in Polls /\ call[c].op \notin Connects
      BY <1>2, <1>4, <2>2 DEF Looks, Calling
    <3>2. CASE Can(call[c].fd, Row(c).dir)
      <4>1. answer' = [answer EXCEPT ![c] = "ok"]
        BY <1>11, <2>2, <3>2 DEF Try, Look, Return
      <4> QED
        BY <1>2, <3>1, <3>2, <4>1 DEF SocketTyped
    <3>3. CASE ~Can(call[c].fd, Row(c).dir)
      <4>1. call' = [call EXCEPT ![c].looks = TRUE, ![c].parked = TRUE]
        BY <1>11, <2>2, <3>3 DEF Try, Look
      <4>2. call'[c] = [[call[c] EXCEPT !.looks = TRUE] EXCEPT !.parked = TRUE]
        BY <1>2, <4>1 DEF SocketTyped
      <4>3. call'[c].op = call[c].op
        BY <1>2, <4>2 DEF SocketTyped, CallRecs
      <4> QED
        BY <1>3, <4>3 DEF Idle
    <3> QED
      BY <3>2, <3>3
  <2>3. CASE ~Looks(c) /\ Park(c)
    <3>1. call' = [call EXCEPT ![c].has = TRUE, ![c].parked = TRUE]
      BY <2>3 DEF Park
    <3>2. call'[c] = [[call[c] EXCEPT !.has = TRUE] EXCEPT !.parked = TRUE]
      BY <1>2, <3>1 DEF SocketTyped
    <3>3. call'[c].op = call[c].op
      BY <1>2, <3>2 DEF SocketTyped, CallRecs
    <3> QED
      BY <1>3, <3>3 DEF Idle
  <2>4. CASE ~Looks(c) /\ Row(c).trusts /\ why[c] # "begin"
    <3>1. PICK a \in {"ok", "error"} :
             /\ Return(c, a)
             /\ call[c].op \in Connects /\ link[f] = "refused" => a = "error"
      BY <1>1, <1>11, <2>4 DEF Try
    <3>2. answer'[c] = a
      BY <1>2, <3>1 DEF Return, SocketTyped
    <3>3. c \notin strayed => IsTrue(c)
      BY <2>1, <2>4, ResumedBy DEF Looks
    <3> QED
      BY <1>1, <3>1, <3>2, <3>3 DEF IsTrue
  <2>5. CASE ~Looks(c) /\ ~Row(c).trusts /\ ~Park(c)
    <3>1. call[c].op \notin Connects \union Polls
      BY <1>3, <2>5 DEF IsRow
    <3>2. Progress(c) \/ Return(c, "error")
      BY <1>11, <2>5 DEF Try
    <3>3. ASSUME Progress(c), call[c].left # 1
          PROVE  FALSE
      <4>1. call[c] \in CallRecs /\ call \in [Cos -> CallRecs]
        BY <1>2 DEF SocketTyped
      <4> DEFINE chunkDone == Row(c).timed /\ (call[c].left - 1) % Chunk = 0
      <4>2. PICK n, h : call' = [call EXCEPT ![c] = [[call[c] EXCEPT !.left = n] EXCEPT !.has = h]]
        <5>1. call' = [call EXCEPT ![c].left = @ - 1,
                                   ![c].has = IF chunkDone THEN FALSE ELSE @]
          BY <3>3 DEF Progress
        <5> HIDE DEF chunkDone
        <5>2. PICK n, h : n = call[c].left - 1 /\ h = IF chunkDone THEN FALSE ELSE call[c].has
          OBVIOUS
        <5>3. call' = [call EXCEPT ![c] = [[call[c] EXCEPT !.left = n] EXCEPT !.has = h]]
          BY <4>1, <5>1, <5>2
        <5> QED
          BY <5>3
      <4>3. call'[c].op = call[c].op
        BY <4>1, <4>2 DEF CallRecs
      <4> QED
        BY <1>3, <4>3 DEF Idle
    <3>4. \E a \in {"ok", "error"} : answer' = [answer EXCEPT ![c] = a]
      BY <3>2, <3>3 DEF Progress, Return
    <3>5. answer'[c] # "timeout"
      BY <1>2, <3>4 DEF SocketTyped
    <3> QED
      BY <3>1, <3>5
  <2> QED
    BY <1>11, <2>2, <2>3, <2>4, <2>5 DEF Try
<1> QED
  BY <1>8, <1>9, <1>10, <1>11
=============================================================================
