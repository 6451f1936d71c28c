----------------------------- MODULE AlarmReport -----------------------------
(***************************************************************************)
(* The alarm path of one DstEngine: the engine thread queues alarms        *)
(* (DstEngine::report_alarm), a coroutine (DstEngine::report_alarm_fun)    *)
(* takes them in batches and sends them one by one through an rpc client   *)
(* (rpc::ClientImpl::call) to the alarm server of the control centre.      *)
(*                                                                         *)
(* Alarm k is the k-th alarm the engine queues.  The engine thread and the *)
(* coroutine run on different threads; what a coroutine does between two   *)
(* yields is split wherever the other thread can see a difference.  The    *)
(* network is modelled per TCP connection: each direction is a FIFO, the   *)
(* server answers in order, and a connection the client has closed may     *)
(* still hold a request that the server will read.                         *)
(***************************************************************************)
EXTENDS Integers, Sequences

CONSTANTS
    MaxAlarm,   \* how many alarms the engine queues (a bound, not in the code)
    MaxConn,    \* how many connections are opened (a bound, not in the code)
    OtherEngine \* another DstEngine of the process may be destroyed as well

ASSUME AlarmAssumption == MaxAlarm \in Nat
ASSUME ConnAssumption == MaxConn \in Nat
ASSUME OtherAssumption == OtherEngine \in BOOLEAN

Alarm == 1..MaxAlarm
Conn == 1..MaxConn
NoConn == 0         \* _fd == -1

VARIABLES
    (***********************************************************************)
    (* Shared by the engine thread and the coroutine.                      *)
    (***********************************************************************)
    reported,   \* number of alarms queued so far
    alarms,     \* DstEngine::alarms_
    stop,       \* DstEngine::stop_
    signalled,  \* alarm_ev_ has made the waiting coroutine ready
    engine,     \* the engine thread: where ~DstEngine has got to
    schedStop,  \* Scheduler::_stop
    looping,    \* the scheduler thread has not left Scheduler::loop
    (***********************************************************************)
    (* The coroutine and its rpc client.                                   *)
    (***********************************************************************)
    pc,         \* where report_alarm_fun and ClientImpl::call have got to
    batch,      \* the local vector the alarms were swapped into
    i,          \* index (from 1) of the next alarm of batch to call
    fd,         \* ClientImpl::_fd
    outcome,    \* what the call of an alarm came to
    answer,     \* whose answer the call of an alarm took for its own
    (***********************************************************************)
    (* The network and the alarm server.                                   *)
    (***********************************************************************)
    opened,     \* number of connections opened so far
    toServer,   \* per connection: requests the server has not read
    toClient,   \* per connection: answers the client has not read
    accepting,  \* per connection: the server's end is open
    received    \* the requests the server has processed, in order

shared == <<reported, alarms, stop, signalled, engine, schedStop, looping>>
client == <<pc, batch, i, fd, outcome, answer>>
network == <<opened, toServer, toClient, accepting, received>>
vars == <<shared, client, network>>

Steps == {"check", "enter", "wait", "woken", "swap", "next",
          "connect", "send", "recv", "done"}

\* The places where the coroutine has yielded to its scheduler.
Yielded == {"wait", "connect", "send", "recv", "done"}

TypeOK ==
    /\ reported \in 0..MaxAlarm
    /\ alarms \in Seq(Alarm)
    /\ stop \in BOOLEAN
    /\ signalled \in BOOLEAN
    /\ engine \in {"alive", "stopping", "signalling", "waiting", "gone", "left"}
    /\ schedStop \in BOOLEAN
    /\ looping \in BOOLEAN
    /\ pc \in Steps
    /\ batch \in Seq(Alarm)
    /\ i \in Nat \ {0}
    /\ fd \in Conn \union {NoConn}
    /\ outcome \in [Alarm -> {"none", "ok", "failed"}]
    /\ answer \in [Alarm -> Alarm \union {0}]
    /\ opened \in 0..MaxConn
    /\ toServer \in [Conn -> Seq(Alarm)]
    /\ toClient \in [Conn -> Seq(Alarm)]
    /\ accepting \in [Conn -> BOOLEAN]
    /\ received \in Seq(Alarm)

\* DstEngine::Init: stop_ is cleared and the coroutine started.
Init ==
    /\ reported = 0 /\ alarms = <<>> /\ stop = FALSE /\ signalled = FALSE
    /\ engine = "alive" /\ schedStop = FALSE /\ looping = TRUE
    /\ pc = "check" /\ batch = <<>> /\ i = 1 /\ fd = NoConn
    /\ outcome = [a \in Alarm |-> "none"]
    /\ answer = [a \in Alarm |-> 0]
    /\ opened = 0
    /\ toServer = [c \in Conn |-> <<>>]
    /\ toClient = [c \in Conn |-> <<>>]
    /\ accepting = [c \in Conn |-> FALSE]
    /\ received = <<>>

-----------------------------------------------------------------------------
(***************************************************************************)
(* The engine thread.                                                      *)
(***************************************************************************)

\* co::Event::signal.  It is not latched: with no coroutine waiting, or only
\* about to wait, it is lost.
Signal == signalled' = (signalled \/ pc = "wait")

\* Mutant of ReportAlarm: the alarm is inserted at the front of alarms_.
ReportAlarmFront ==
    /\ engine = "alive"
    /\ reported < MaxAlarm
    /\ reported' = reported + 1
    /\ alarms' = <<reported + 1>> \o alarms
    /\ Signal
    /\ UNCHANGED <<stop, engine, schedStop, looping, client, network>>

\* DstEngine::report_alarm.  alarm_mtx_ is held throughout.
ReportAlarm ==
    /\ engine = "alive"
    /\ reported < MaxAlarm
    /\ reported' = reported + 1
    /\ alarms' = Append(alarms, reported + 1)
    /\ Signal
    /\ UNCHANGED <<stop, engine, schedStop, looping, client, network>>

\* ~DstEngine: atomic_swap(&stop_, true).
SetStop ==
    /\ engine = "alive"
    /\ engine' = "stopping"
    /\ stop' = TRUE
    /\ UNCHANGED <<reported, alarms, signalled, schedStop, looping, client, network>>

\* ~DstEngine: alarm_ev_.signal().
SignalStop ==
    /\ engine = "stopping"
    /\ engine' = "signalling"
    /\ Signal
    /\ UNCHANGED <<reported, alarms, stop, schedStop, looping, client, network>>

\* Mutant of StopSched: Scheduler::stop wakes the loop but leaves _stop alone.
StopSchedNoFlag ==
    /\ engine = "signalling"
    /\ engine' = "waiting"
    /\ UNCHANGED <<reported, alarms, stop, signalled, schedStop, looping, client, network>>

\* ~DstEngine: co::stop().  The first caller of Scheduler::stop waits for the
\* loop to end; any other returns at once, and ~DstEngine with it ("left").
StopSched ==
    /\ engine = "signalling"
    /\ engine' = IF schedStop THEN "left" ELSE "waiting"
    /\ schedStop' = TRUE
    /\ UNCHANGED <<reported, alarms, stop, signalled, looping, client, network>>

\* co::stop() is called by the destructor of another engine: it stops the
\* schedulers of the whole process.
OtherStops ==
    /\ OtherEngine
    /\ ~schedStop
    /\ schedStop' = TRUE
    /\ UNCHANGED <<reported, alarms, stop, signalled, engine, looping, client, network>>

\* Mutant of Destroyed: Scheduler::stop does not wait for the loop.
DestroyedEarly ==
    /\ engine = "waiting"
    /\ engine' = "gone"
    /\ UNCHANGED <<reported, alarms, stop, signalled, schedStop, looping, client, network>>

\* Scheduler::stop returns once the loop has signalled its end; ~DstEngine
\* then frees alarms_, alarm_mtx_, alarm_ev_ and the rest of the engine.
Destroyed ==
    /\ engine = "waiting"
    /\ ~looping
    /\ engine' = "gone"
    /\ UNCHANGED <<reported, alarms, stop, signalled, schedStop, looping, client, network>>

\* Scheduler::loop sees _stop.  It does so only while no coroutine runs.
LeaveLoop ==
    /\ looping
    /\ schedStop
    /\ pc \in Yielded
    /\ looping' = FALSE
    /\ UNCHANGED <<reported, alarms, stop, signalled, engine, schedStop, client, network>>

-----------------------------------------------------------------------------
(***************************************************************************)
(* DstEngine::report_alarm_fun.                                            *)
(***************************************************************************)

\* while (!stop_)
Check ==
    /\ looping
    /\ pc = "check"
    /\ pc' = IF stop THEN "done" ELSE "enter"
    /\ UNCHANGED <<shared, batch, i, fd, outcome, answer, network>>

\* alarm_ev_.wait(256): the coroutine is entered in _co_wait and yields.
EnterWait ==
    /\ looping
    /\ pc = "enter"
    /\ pc' = "wait"
    /\ signalled' = FALSE
    /\ UNCHANGED <<reported, alarms, stop, engine, schedStop, looping,
                   batch, i, fd, outcome, answer, network>>

\* alarm_ev_.wait(256) returns after a signal.
WakeSignalled ==
    /\ looping
    /\ pc = "wait"
    /\ signalled
    /\ pc' = "woken"
    /\ UNCHANGED <<shared, batch, i, fd, outcome, answer, network>>

\* Mutant of WakeTimeout: alarm_ev_.wait(), without a timeout.
WakeNever == FALSE /\ UNCHANGED vars

\* alarm_ev_.wait(256) returns after 256 ms.
WakeTimeout ==
    /\ looping
    /\ pc = "wait"
    /\ pc' = "woken"
    /\ UNCHANGED <<shared, batch, i, fd, outcome, answer, network>>

\* if (stop_) break
Recheck ==
    /\ looping
    /\ pc = "woken"
    /\ pc' = IF stop THEN "done" ELSE "swap"
    /\ UNCHANGED <<shared, batch, i, fd, outcome, answer, network>>

\* alarms.swap(alarms_) under alarm_mtx_.
TakeBatch ==
    /\ looping
    /\ pc = "swap"
    /\ pc' = "next"
    /\ batch' = alarms
    /\ alarms' = <<>>
    /\ i' = 1
    /\ UNCHANGED <<reported, stop, signalled, engine, schedStop, looping,
                   fd, outcome, answer, network>>

\* The head of the for loop over the batch, down to the point of
\* ClientImpl::call where it yields: in connect, or in send when connected.
NextCall ==
    /\ looping
    /\ pc = "next"
    /\ pc' = IF i > Len(batch) THEN "check"
             ELSE IF fd = NoConn THEN "connect" ELSE "send"
    /\ UNCHANGED <<shared, batch, i, fd, outcome, answer, network>>

-----------------------------------------------------------------------------
(***************************************************************************)
(* rpc::ClientImpl::call on batch[i].                                      *)
(***************************************************************************)

\* Mutant of EndCall: a failed call ends the loop over the batch.
EndCallBreak(result) ==
    /\ outcome' = [outcome EXCEPT ![batch[i]] = result]
    /\ i' = i + 1
    /\ pc' = IF result = "failed" THEN "check" ELSE "next"

\* The call is over and the loop goes on to the next alarm.
EndCall(result) ==
    /\ outcome' = [outcome EXCEPT ![batch[i]] = result]
    /\ i' = i + 1
    /\ pc' = "next"

\* Mutant of Disconnect: the connection is kept after an error.
KeepConnection == UNCHANGED <<fd, toClient>>

\* ClientImpl::disconnect: what was sent may still reach the server, what
\* was not read is gone.
Disconnect ==
    /\ fd' = NoConn
    /\ toClient' = [toClient EXCEPT ![fd] = <<>>]

\* ClientImpl::connect succeeds, the authentication included.
Connect ==
    /\ looping
    /\ pc = "connect"
    /\ opened < MaxConn
    /\ opened' = opened + 1
    /\ fd' = opened + 1
    /\ accepting' = [accepting EXCEPT ![opened + 1] = TRUE]
    /\ pc' = "send"
    /\ UNCHANGED <<shared, batch, i, outcome, answer, toServer, toClient, received>>

\* ClientImpl::connect fails: refused, timed out or not authenticated.
ConnectFail ==
    /\ looping
    /\ pc = "connect"
    /\ EndCall("failed")
    /\ UNCHANGED <<shared, batch, fd, answer, network>>

\* Mutant of Send: the call does not wait for the answer.
SendAndForget ==
    /\ looping
    /\ pc = "send"
    /\ EndCall("ok")
    /\ answer' = [answer EXCEPT ![batch[i]] = batch[i]]
    /\ toServer' = [toServer EXCEPT ![fd] = Append(@, batch[i])]
    /\ UNCHANGED <<shared, batch, fd, opened, toClient, accepting, received>>

\* co::send hands the whole request to the kernel.
Send ==
    /\ looping
    /\ pc = "send"
    /\ pc' = "recv"
    /\ toServer' = [toServer EXCEPT ![fd] = Append(@, batch[i])]
    /\ UNCHANGED <<shared, batch, i, fd, outcome, answer,
                   opened, toClient, accepting, received>>

\* send_err: the server never sees a whole request.
SendFail ==
    /\ looping
    /\ pc = "send"
    /\ Disconnect
    /\ EndCall("failed")
    /\ UNCHANGED <<shared, batch, answer, opened, toServer, accepting, received>>

\* A header and a body that parses are read.  Nothing in them is compared
\* with the request.
Recv ==
    /\ looping
    /\ pc = "recv"
    /\ toClient[fd] # <<>>
    /\ answer' = [answer EXCEPT ![batch[i]] = Head(toClient[fd])]
    /\ toClient' = [toClient EXCEPT ![fd] = Tail(@)]
    /\ EndCall("ok")
    /\ UNCHANGED <<shared, batch, fd, opened, toServer, accepting, received>>

\* Mutant of RecvFail: the call is tried again on a new connection.
RecvFailRetry ==
    /\ looping
    /\ pc = "recv"
    /\ Disconnect
    /\ pc' = "connect"
    /\ UNCHANGED <<shared, batch, i, outcome, answer, opened, toServer, accepting, received>>

\* recv_err (a timeout above all), recv_zero_err, magic_err,
\* msg_too_long_err and json_parse_err all disconnect.
RecvFail ==
    /\ looping
    /\ pc = "recv"
    /\ Disconnect
    /\ EndCall("failed")
    /\ UNCHANGED <<shared, batch, answer, opened, toServer, accepting, received>>

-----------------------------------------------------------------------------
(***************************************************************************)
(* The alarm server.  It is not part of the repository: what is assumed is *)
(* a server that reads each connection in order and answers each request   *)
(* once.  Its connections are independent of each other.                   *)
(***************************************************************************)

ServerHandle(c) ==
    /\ accepting[c]
    /\ toServer[c] # <<>>
    /\ received' = Append(received, Head(toServer[c]))
    /\ toServer' = [toServer EXCEPT ![c] = Tail(@)]
    /\ toClient' = IF fd = c
                   THEN [toClient EXCEPT ![c] = Append(@, Head(toServer[c]))]
                   ELSE toClient
    /\ UNCHANGED <<shared, client, opened, accepting>>

ServerClose(c) ==
    /\ accepting[c]
    /\ accepting' = [accepting EXCEPT ![c] = FALSE]
    /\ UNCHANGED <<shared, client, opened, toServer, toClient, received>>

-----------------------------------------------------------------------------
Engine == ReportAlarm \/ SetStop \/ SignalStop \/ StopSched \/ Destroyed \/ OtherStops

Loop == Check \/ EnterWait \/ WakeSignalled \/ WakeTimeout \/ Recheck
        \/ TakeBatch \/ NextCall

Call == Connect \/ ConnectFail \/ Send \/ SendFail \/ Recv \/ RecvFail

Server == \E c \in Conn : ServerHandle(c) \/ ServerClose(c)

Next == Engine \/ LeaveLoop \/ Loop \/ Call \/ Server

Spec == Init /\ [][Next]_vars

(***************************************************************************)
(* The scheduler runs a coroutine that is ready, and every wait of this    *)
(* one carries a timeout (256 ms for the event, rpc_conn_timeout,          *)
(* rpc_send_timeout and rpc_recv_timeout for the calls), so it is always   *)
(* resumed.  Nothing is assumed of the engine thread or of the server.     *)
(***************************************************************************)
Fairness == WF_vars(Loop) /\ WF_vars(Call) /\ WF_vars(LeaveLoop)

FairSpec == Spec /\ Fairness

-----------------------------------------------------------------------------
(***************************************************************************)
(* Properties.                                                             *)
(***************************************************************************)

\* The alarm whose call is in progress.
Calling == pc \in {"connect", "send", "recv"}

\* No alarm is processed twice by the alarm server, whatever times out,
\* fails or reconnects: a call is never retried (rpc.cc call()).
AtMostOnce ==
    \A j, k \in 1..Len(received) : received[j] = received[k] => j = k

\* An answer taken by a call is the answer to that very call.  call() never
\* compares the two: it relies on disconnecting after every error, so that a
\* late answer to an abandoned call is never read (rpc.cc, recv_err).
OwnAnswer ==
    \A a \in Alarm : outcome[a] = "ok" => answer[a] = a

\* A call that succeeds has had its alarm processed by the server.
OkIsReceived ==
    \A a \in Alarm : outcome[a] = "ok" => \E j \in 1..Len(received) : received[j] = a

\* The server can see two alarms in the wrong order only when the call of
\* the one reported first has failed: its request was left behind on an
\* abandoned connection and overtaken on the next one.
OvertakenOnlyIfFailed ==
    \A j, k \in 1..Len(received) :
        j < k /\ received[j] > received[k] => outcome[received[k]] = "failed"

\* How many of the reported alarms have had their call ended.
Ended == reported - Len(alarms) - (Len(batch) - (i - 1))

\* No alarm is dropped on the way or taken out of turn: the calls that have
\* ended, the rest of the batch and alarms_ are, in this order, all those
\* reported.  A failed call does not stop the loop over the batch, and the
\* swap empties alarms_ under the lock (DstEngine.cpp:488-497).
NoneForgotten ==
    /\ \A k \in 1..Len(alarms) : alarms[k] = reported - Len(alarms) + k
    /\ \A k \in i..Len(batch) : batch[k] = reported - Len(alarms) - Len(batch) + k
    /\ \A a \in 1..reported : outcome[a] # "none" <=> a <= Ended

\* Once a ~DstEngine that was the first to call co::stop has returned, the
\* coroutine never runs again: it would use the freed alarms_, alarm_mtx_ and
\* alarm_ev_ (DstEngine.cpp:56-60).
NotUsedAfterDestroyed == [][engine = "gone" => UNCHANGED <<alarms, signalled, client>>]_vars

\* "stop coroutine schedulers" (co.h:66): when co::stop has returned, the
\* scheduler's loop has ended.  A second caller of co::stop breaks it.
StoppedWhenStopReturns == engine \in {"gone", "left"} => ~looping

\* Every alarm is tried, although a signal that finds no coroutine waiting is
\* lost: wait(256) has a timeout (DstEngine.cpp:484).  Only a
\* destructor may leave alarms behind.
EveryAlarmTried ==
    \A a \in Alarm : (reported >= a) ~> (outcome[a] # "none" \/ stop \/ schedStop)

\* ~DstEngine returns once it has begun to wait for the scheduler, whatever
\* the coroutine was doing.
DestructorReturns == (engine = "waiting") ~> ~looping

-----------------------------------------------------------------------------
(***************************************************************************)
(* The inductive invariant.  The properties above say nothing of requests  *)
(* in flight; what makes them inductive is where a request can be.         *)
(***************************************************************************)

\* alarms_, the batch and the alarms called are consecutive numbers.
OrderInv ==
    /\ Len(alarms) + Len(batch) <= reported
    /\ i <= Len(batch) + 1
    /\ pc \notin {"next", "connect", "send", "recv"} => i = Len(batch) + 1
    /\ Calling => i <= Len(batch)
    /\ \A k \in 1..Len(alarms) : alarms[k] = reported - Len(alarms) + k
    /\ \A k \in 1..Len(batch) : batch[k] = reported - Len(alarms) - Len(batch) + k
    /\ \A a \in Alarm : outcome[a] # "none" <=> a <= Ended

\* The client's connection is the last one opened.  It carries something only
\* while a call waits: the request of that call, or else its answer.
ConnInv ==
    /\ fd \in {NoConn, opened}
    /\ pc = "connect" => fd = NoConn
    /\ pc \in {"send", "recv"} => fd # NoConn
    /\ \A c \in Conn : c # fd => toClient[c] = <<>>
    /\ \A c \in Conn : c > opened => toServer[c] = <<>>
    /\ fd # NoConn /\ pc # "recv" => toServer[fd] = <<>> /\ toClient[fd] = <<>>
    /\ pc = "recv" => \/ toServer[fd] = <<Ended + 1>> /\ toClient[fd] = <<>>
                      \/ toServer[fd] = <<>> /\ toClient[fd] = <<Ended + 1>>

\* A request left on an abandoned connection is that of a call that failed.
AbandonedInv ==
    \A c \in Conn : c # fd =>
        \/ toServer[c] = <<>>
        \/ \E a \in Alarm : toServer[c] = <<a>> /\ outcome[a] = "failed"

\* The alarm of a request in flight is in flight once, and not received yet.
FlightInv ==
    /\ \A c, d \in Conn : \A a \in Alarm :
          toServer[c] = <<a>> /\ toServer[d] = <<a>> => c = d
    /\ \A c \in Conn : \A a \in Alarm : toServer[c] = <<a>> =>
          \A j \in 1..Len(received) : received[j] # a
    /\ \A j \in 1..Len(received) :
          received[j] <= Ended + (IF pc = "recv" THEN 1 ELSE 0)
    /\ pc = "recv" /\ toClient[fd] # <<>> =>
          \E j \in 1..Len(received) : received[j] = Ended + 1

\* The invariant that is proved: it implies the safety properties above.
IInv ==
    /\ TypeOK /\ OrderInv /\ ConnInv /\ AbandonedInv /\ FlightInv
    /\ AtMostOnce /\ OwnAnswer /\ OkIsReceived /\ OvertakenOnlyIfFailed

-----------------------------------------------------------------------------
(***************************************************************************)
(* Refinement: with connections, messages and program counters hidden, an  *)
(* engine and its alarm server are an AlarmChannel.                        *)
(***************************************************************************)

Tried == Ended + (IF Calling THEN 1 ELSE 0)
Received == {received[j] : j \in 1..Len(received)}

Channel == INSTANCE AlarmChannel WITH tried <- Tried, received <- Received

\* The alarm path implements AlarmChannel: alarms are tried in the order they
\* were reported, one at a time and once, and the server gets each one at
\* most once and none that was not tried.
ImplementsChannel == Channel!Spec

=============================================================================
