------------------------------- MODULE Hook -------------------------------
(* The hooks of hook_unix.cc below which blocking code runs in coroutines:  *)
(* what each scheduler remembers of a descriptor (HookInfo), and the loop   *)
(* in which poll and select look every 16 ms.  One descriptor number, for   *)
(* which files are opened and closed one after another; its users are       *)
(* coroutines of the schedulers and a thread without one, 0.                *)
EXTENDS Integers

CONSTANTS
    HookScheds, \* schedulers
    Ms,         \* SO_RCVTIMEO and SO_SNDTIMEO when they are set
    MaxFiles,   \* bound: files opened
    Step,       \* 16 ms
    MaxWait     \* bound: time that poll is given

Users == HookScheds \union {0}

VARIABLES
    file,     \* what is open: its flags and options, and what happened to it
    hk,       \* _hk: per scheduler, its HookInfo, and whether it has one
    behind,   \* schedulers whose HookInfo is of a file that was closed elsewhere
    opened,   \* number of files opened
    outcome,  \* how the last call ended, when there was nothing for it to do
    asked, ms, slept \* poll: time given, time left, time waited

hookVars == <<file, hk, behind, opened, outcome>>
pollVars == <<asked, ms, slept>>

NoFile ==
    [open |-> FALSE, socket |-> FALSE, nonblock |-> FALSE, wanted |-> FALSE, limit |-> 0,
     users |-> {}, connected |-> FALSE, changed |-> FALSE]
Forgotten == [r |-> 0, w |-> 0, known |-> FALSE]
NotHookable == [r |-> 0, w |-> 0, known |-> TRUE]
Nothing == [how |-> "none", stale |-> FALSE, limit |-> 0]
hookable(h) == h.r # 0 \/ h.w # 0
Known(s) == hk[s].known

HookInit ==
    /\ file = NoFile /\ behind = {} /\ hk = [s \in HookScheds |-> Forgotten] /\ opened = 0
    /\ outcome = Nothing

\* socket(), open() or accept(): the user may want it not to block.
Open ==
    /\ ~file.open /\ opened < MaxFiles /\ opened' = opened + 1
    /\ \E socket, wanted \in BOOLEAN :
          file' = [NoFile EXCEPT !.open = TRUE, !.socket = socket,
                                 !.nonblock = wanted, !.wanted = wanted]
    /\ outcome' = Nothing
    /\ UNCHANGED <<hk, behind>>

\* fcntl and setsockopt are not hooked.
SetFlag ==
    /\ file.open
    /\ \E wanted \in BOOLEAN :
          file' = [file EXCEPT !.nonblock = wanted, !.wanted = wanted, !.changed = TRUE]
    /\ outcome' = Nothing
    /\ UNCHANGED <<hk, behind, opened>>
SetLimit ==
    /\ file.open /\ file.socket /\ file.limit = 0
    /\ file' = [file EXCEPT !.limit = Ms, !.changed = TRUE]
    /\ outcome' = Nothing
    /\ UNCHANGED <<hk, behind, opened>>

\* _Get_timeout: -1 is none, 0 stands for no socket.
Timeout == IF ~file.socket THEN 0 ELSE IF file.limit > 0 THEN file.limit ELSE -1

\* What get_hook_info makes of a descriptor it does not know; an accept asks
\* for no direction and sets the time limit of a send.
Made(dir) ==
    IF file.nonblock \/ Timeout = 0 THEN NotHookable
    ELSE [NotHookable EXCEPT ![IF dir = "r" THEN "r" ELSE "w"] = Timeout]

get_hook_info(s, dir) ==
    IF ~Known(s) THEN Made(dir)
    ELSE IF hookable(hk[s]) /\ dir # "any" /\ hk[s][dir] = 0
    THEN [hk[s] EXCEPT ![dir] = Timeout]
    ELSE hk[s]

\* A call that finds nothing to do: the coroutine waits and others go on, the
\* user is told to try again, or the thread blocks in the kernel.
Ends(s, nonblock, h, dir) ==
    [how |-> IF ~nonblock THEN "blocks" ELSE IF hookable(h) THEN "waits" ELSE "again",
     stale |-> s \in behind,
     limit |-> IF dir = "any" THEN 0 ELSE h[dir]]

Call(s, dir) ==
    LET h == get_hook_info(s, dir)
        nonblock == file.nonblock \/ (~Known(s) /\ hookable(h))
    IN  /\ file.open
        /\ hk' = [hk EXCEPT ![s] = h]
        /\ file' = [file EXCEPT !.nonblock = nonblock, !.users = @ \union {s}]
        /\ outcome' = Ends(s, nonblock, h, dir)
        /\ UNCHANGED <<behind, opened>>

\* connect() forgets the descriptor, which stays non-blocking.
Connect(s) ==
    LET h == get_hook_info(s, "w")
        nonblock == file.nonblock \/ (~Known(s) /\ hookable(h))
    IN  /\ file.open /\ file.socket
        /\ hk' = [hk EXCEPT ![s] = IF hookable(h) THEN Forgotten ELSE h]
        /\ file' = [file EXCEPT !.nonblock = nonblock, !.users = @ \union {s},
                                !.connected = @ \/ hookable(h)]
        /\ outcome' = Ends(s, nonblock, h, "w")
        /\ behind' = IF hookable(h) THEN behind \ {s} ELSE behind
        /\ UNCHANGED opened

\* Outside of the schedulers nothing is hooked.
Unhooked ==
    /\ file.open /\ file' = [file EXCEPT !.users = @ \union {0}]
    /\ outcome' = [how |-> IF file.nonblock THEN "again" ELSE "thread",
                   stale |-> FALSE, limit |-> 0]
    /\ UNCHANGED <<hk, behind, opened>>

\* Mutant of find_and_erase: it only finds.
find_only(s) == hk

find_and_erase(s) == [hk EXCEPT ![s] = Forgotten]

\* close() in a coroutine; in another thread, or co::close, which is not hooked.
Close(s) ==
    /\ file.open /\ file' = NoFile /\ hk' = find_and_erase(s)
    /\ behind' = (behind \ {s}) \union {t \in HookScheds \ {s} : Known(t)}
    /\ outcome' = Nothing /\ UNCHANGED opened
CloseElsewhere ==
    /\ file.open /\ file' = NoFile /\ outcome' = Nothing
    /\ behind' = behind \union {t \in HookScheds : Known(t)}
    /\ UNCHANGED <<hk, opened>>

---------------------------------------------------------------------------
(* poll of several descriptors, and select.                                *)

PollInit == asked = 0 /\ ms = 0 /\ slept = 0

PollBegin(t) ==
    /\ asked = 0 /\ t # 0 /\ asked' = t /\ ms' = t /\ slept' = 0

\* ms > 0 && (ms -= 16) < 0
Left == IF ms > 0 THEN ms - Step ELSE ms

\* Mutant of GivesUp: it gives up a round too early.
GivesUpEarly == ms > 0 /\ Left < Step

GivesUp == ms > 0 /\ Left < 0

\* Nothing is ready: co::sleep(16), and perhaps return 0.
PollRound ==
    /\ asked # 0 /\ slept <= MaxWait + Step
    /\ slept' = slept + Step /\ ms' = Left
    /\ asked' = IF GivesUp THEN 0 ELSE asked

PollReady ==
    /\ asked # 0 /\ asked' = 0 /\ ms' = 0 /\ slept' = 0

HookNext ==
    \/ Open \/ SetFlag \/ SetLimit \/ Unhooked \/ CloseElsewhere
    \/ \E s \in HookScheds : Connect(s) \/ Close(s) \/ \E dir \in {"r", "w", "any"} : Call(s, dir)
PollNext == PollRound \/ PollReady \/ \E t \in -1 .. MaxWait : PollBegin(t)

---------------------------------------------------------------------------
\* Code that never asked for a non-blocking socket is not told to try again,
\* no scheduler's thread blocks on a socket, and the time limit is the one
\* that was set - unless the entry is of an earlier file of that number (it
\* was not closed by close() in the same scheduler), the socket is used
\* elsewhere too or was changed after its first use, or connect() has
\* forgotten it (Hook::get_hook_info, connect, close).
HookHides ==
    /\ outcome.how = "again" /\ file.open /\ ~file.wanted =>
          outcome.stale \/ file.changed \/ file.connected \/ 0 \in file.users
          \/ \E s, t \in file.users : s # t
    /\ outcome.how = "blocks" /\ file.open /\ file.socket => outcome.stale \/ file.changed
    /\ outcome.how = "waits" /\ file.open =>
          \/ outcome.stale \/ file.changed
          \/ ~file.wanted /\ outcome.limit \in {0, Timeout}

\* poll and select wait as long as they are asked to and at most a step
\* longer, unless that is a multiple of the step: then they never give up
\* (hook_unix.cc, poll and select).
PollGivesUp ==
    asked > 0 =>
        /\ slept <= asked \/ asked % Step = 0
        /\ GivesUp => slept + Step >= asked
===========================================================================
