-------------------------- MODULE AlarmReport_proofs --------------------------
(***************************************************************************)
(* Proofs about AlarmReport, for any number of alarms and connections.     *)
(***************************************************************************)
EXTENDS AlarmReport, SequenceTheorems, TLAPS

(***************************************************************************)
(* Types.  TypeOK alone is not inductive: batch[i] is an alarm, and         *)
(* toClient[fd] a channel, only because of where the coroutine is.          *)
(***************************************************************************)

CallOK ==
    /\ Calling => i <= Len(batch)
    /\ pc \in {"send", "recv"} => fd \in Conn

LEMMA EmptyChannels == \A S : [c \in Conn |-> <<>>] \in [Conn -> Seq(S)]
<1> SUFFICES ASSUME NEW S PROVE [c \in Conn |-> <<>>] \in [Conn -> Seq(S)]
  OBVIOUS
<1>1. <<>> \in Seq(S)
  BY EmptySeq
<1> QED
  BY <1>1

\* The end of a call keeps the types and leaves no call in progress.
LEMMA EndCallType ==
  ASSUME TypeOK, NEW result \in {"ok", "failed"}, EndCall(result)
  PROVE  /\ outcome' \in [Alarm -> {"none", "ok", "failed"}]
         /\ i' \in Nat \ {0}
         /\ pc' = "next"
<1>1. outcome' \in [Alarm -> {"none", "ok", "failed"}]
  BY Zenon DEF TypeOK, EndCall
<1>2. i' \in Nat \ {0}
  BY DEF TypeOK, EndCall
<1> QED
  BY <1>1, <1>2 DEF EndCall

LEMMA DisconnectType ==
  ASSUME TypeOK, Disconnect
  PROVE  /\ fd' = NoConn
         /\ toClient' \in [Conn -> Seq(Alarm)]
<1>1. <<>> \in Seq(Alarm)
  BY EmptySeq
<1> QED
  BY <1>1 DEF TypeOK, Disconnect

\* The type invariant (every variable keeps its range through each step of
\* DstEngine::report_alarm_fun, ClientImpl::call and the engine thread).
LEMMA TypeInit == Init => TypeOK /\ CallOK
<1> SUFFICES ASSUME Init PROVE TypeOK /\ CallOK
  OBVIOUS
<1>1. <<>> \in Seq(Alarm)
  BY EmptySeq
<1>2. /\ toServer \in [Conn -> Seq(Alarm)]
      /\ toClient \in [Conn -> Seq(Alarm)]
  BY EmptyChannels DEF Init
<1>3. outcome \in [Alarm -> {"none", "ok", "failed"}]
  BY DEF Init
<1>4. answer \in [Alarm -> Alarm \union {0}]
  BY DEF Init
<1>5. CallOK
  BY DEF Init, CallOK, Calling
<1>6. alarms \in Seq(Alarm) /\ batch \in Seq(Alarm) /\ received \in Seq(Alarm)
  BY <1>1 DEF Init
<1>7. accepting \in [Conn -> BOOLEAN]
  BY DEF Init
<1>8. reported \in 0..MaxAlarm /\ opened \in 0..MaxConn /\ i \in Nat \ {0}
  BY AlarmAssumption, ConnAssumption DEF Init
<1>9. /\ stop \in BOOLEAN /\ signalled \in BOOLEAN
      /\ schedStop \in BOOLEAN /\ looping \in BOOLEAN
      /\ engine \in {"alive", "stopping", "signalling", "waiting", "gone", "left"}
      /\ pc \in Steps /\ fd \in Conn \union {NoConn}
  BY DEF Init, Steps
<1> QED
  BY <1>2, <1>3, <1>4, <1>5, <1>6, <1>7, <1>8, <1>9 DEF TypeOK

LEMMA TypeStep == TypeOK /\ CallOK /\ [Next]_vars => TypeOK' /\ CallOK'
<1> SUFFICES ASSUME TypeOK, CallOK, [Next]_vars PROVE TypeOK' /\ CallOK'
  OBVIOUS
<1> USE AlarmAssumption, ConnAssumption DEF Alarm, Conn, NoConn, Steps, CallOK, Calling
<1>1. CASE ReportAlarm
  BY <1>1 DEF TypeOK, ReportAlarm, Signal, client, network
<1>2. CASE SetStop
  BY <1>2 DEF TypeOK, SetStop, client, network
<1>3. CASE SignalStop
  BY <1>3 DEF TypeOK, SignalStop, Signal, client, network
<1>4. CASE StopSched
  BY <1>4 DEF TypeOK, StopSched, client, network
<1>5. CASE Destroyed
  BY <1>5 DEF TypeOK, Destroyed, client, network
<1>6. CASE OtherStops
  BY <1>6 DEF TypeOK, OtherStops, client, network
<1>7. CASE LeaveLoop
  BY ZenonT(30), <1>7 DEF TypeOK, LeaveLoop, client, network
<1>8. CASE Check
  BY <1>8 DEF TypeOK, Check, shared, network
<1>9. CASE EnterWait
  BY <1>9 DEF TypeOK, EnterWait, network
<1>10. CASE WakeSignalled
  BY <1>10 DEF TypeOK, WakeSignalled, shared, network
<1>11. CASE WakeTimeout
  BY <1>11 DEF TypeOK, WakeTimeout, shared, network
<1>12. CASE Recheck
  BY <1>12 DEF TypeOK, Recheck, shared, network
<1>13. CASE TakeBatch
  BY <1>13 DEF TypeOK, TakeBatch, network
<1>14. CASE NextCall
  BY <1>14 DEF TypeOK, NextCall, shared, network
<1>15. CASE Connect
  <2>1. opened + 1 \in Conn /\ opened' = opened + 1 /\ fd' = opened + 1 /\ pc' = "send"
    BY <1>15 DEF TypeOK, Connect
  <2>2. accepting' \in [Conn -> BOOLEAN]
    BY <1>15 DEF TypeOK, Connect
  <2>3. UNCHANGED <<reported, alarms, stop, signalled, engine, schedStop, looping,
                   batch, i, outcome, answer, toServer, toClient, received>>
    BY <1>15 DEF Connect, shared
  <2>4. TypeOK'
    BY <2>1, <2>2, <2>3 DEF TypeOK
  <2>5. CallOK'
    BY <1>15, <2>1, <2>3 DEF Connect
  <2> QED
    BY <2>4, <2>5
<1>16. CASE ConnectFail
  <2>1. EndCall("failed")
    BY <1>16 DEF ConnectFail
  <2> QED
    BY ZenonT(30), <1>16, <2>1, EndCallType DEF TypeOK, ConnectFail, shared, network
<1>17. CASE Send
  <2>1. batch[i] \in Alarm /\ fd \in Conn
    BY <1>17 DEF TypeOK, Send
  <2>2. toServer' \in [Conn -> Seq(Alarm)]
    BY <1>17, <2>1, AppendProperties DEF TypeOK, Send
  <2> QED
    BY <1>17, <2>1, <2>2 DEF TypeOK, Send, shared
<1>18. CASE SendFail
  <2>1. EndCall("failed") /\ Disconnect
    BY <1>18 DEF SendFail
  <2> QED
    BY ZenonT(30), <1>18, <2>1, EndCallType, DisconnectType DEF TypeOK, SendFail, shared
<1>19. CASE Recv
  <2>1. EndCall("ok")
    BY <1>19 DEF Recv
  <2>2. toClient[fd] \in Seq(Alarm) /\ toClient[fd] # <<>>
    BY <1>19 DEF TypeOK, Recv
  <2>3. Head(toClient[fd]) \in Alarm /\ Tail(toClient[fd]) \in Seq(Alarm)
    BY <2>2, HeadTailProperties
  <2>4. answer' \in [Alarm -> Alarm \union {0}]
    BY <1>19, <2>3 DEF TypeOK, Recv
  <2>5. toClient' \in [Conn -> Seq(Alarm)]
    BY <1>19, <2>3 DEF TypeOK, Recv
  <2> QED
    BY ZenonT(30), <1>19, <2>1, <2>4, <2>5, EndCallType DEF TypeOK, Recv, shared
<1>20. CASE RecvFail
  <2>1. EndCall("failed") /\ Disconnect
    BY <1>20 DEF RecvFail
  <2> QED
    BY ZenonT(30), <1>20, <2>1, EndCallType, DisconnectType DEF TypeOK, RecvFail, shared
<1>21. ASSUME NEW c \in Conn, ServerHandle(c) PROVE TypeOK' /\ CallOK'
  <2>1. toServer[c] \in Seq(Alarm) /\ toServer[c] # <<>>
    BY <1>21 DEF TypeOK, ServerHandle
  <2>2. Head(toServer[c]) \in Alarm /\ Tail(toServer[c]) \in Seq(Alarm)
    BY <2>1, HeadTailProperties
  <2>3. received' \in Seq(Alarm)
    BY <1>21, <2>2, AppendProperties DEF TypeOK, ServerHandle
  <2>4. toServer' \in [Conn -> Seq(Alarm)]
    BY <1>21, <2>2 DEF TypeOK, ServerHandle
  <2>5. toClient' \in [Conn -> Seq(Alarm)]
    BY <1>21, <2>2, AppendProperties DEF TypeOK, ServerHandle
  <2>6. UNCHANGED <<reported, alarms, stop, signalled, engine, schedStop, looping,
                   pc, batch, i, fd, outcome, answer, opened, accepting>>
    BY <1>21 DEF ServerHandle, shared, client
  <2>7. TypeOK'
    BY <2>3, <2>4, <2>5, <2>6 DEF TypeOK
  <2>8. CallOK'
    BY <2>6 DEF CallOK, Calling
  <2> QED
    BY <2>7, <2>8
<1>22. ASSUME NEW c \in Conn, ServerClose(c) PROVE TypeOK' /\ CallOK'
  BY <1>22 DEF TypeOK, ServerClose, shared, client
<1>23. CASE UNCHANGED vars
  BY <1>23 DEF TypeOK, vars, shared, client, network
<1> QED
  BY <1>1, <1>2, <1>3, <1>4, <1>5, <1>6, <1>7, <1>8, <1>9, <1>10, <1>11,
     <1>12, <1>13, <1>14, <1>15, <1>16, <1>17, <1>18, <1>19, <1>20, <1>21,
     <1>22, <1>23 DEF Next, Engine, Loop, Call, Server

THEOREM TypeCorrect == Spec => [](TypeOK /\ CallOK)
BY TypeInit, TypeStep, PTL DEF Spec

-----------------------------------------------------------------------------
(***************************************************************************)
(* The order of alarms: nothing is dropped between alarms_, the batch and  *)
(* the calls.                                                              *)
(***************************************************************************)

LEMMA OrderInit == Init => OrderInv
BY AlarmAssumption DEF Init, OrderInv, Alarm, Ended, Calling

\* The end of a call moves it from the batch to the calls that have ended.
LEMMA EndCallOrder ==
  ASSUME TypeOK, OrderInv, Calling, NEW result \in {"ok", "failed"},
         EndCall(result), UNCHANGED <<reported, alarms, batch>>
  PROVE  OrderInv'
<1>1. /\ batch[i] = Ended + 1 /\ batch[i] \in Alarm
      /\ i \in 1..Len(batch) /\ Ended \in Int
  <2>1. i \in 1..Len(batch)
    BY DEF TypeOK, OrderInv
  <2>2. batch[i] = reported - Len(alarms) - Len(batch) + i
    BY <2>1 DEF OrderInv
  <2>3. batch[i] \in Alarm
    BY <2>1 DEF TypeOK
  <2> QED
    BY <2>1, <2>2, <2>3 DEF TypeOK, Ended
<1>2. Ended' = Ended + 1
  BY DEF TypeOK, OrderInv, Ended, EndCall
<1>3. \A a \in Alarm : outcome'[a] # "none" <=> a <= Ended'
  BY SMTT(30), <1>1, <1>2 DEF TypeOK, OrderInv, EndCall, Alarm
<1> QED
  BY <1>1, <1>3 DEF TypeOK, OrderInv, EndCall, Calling

LEMMA OrderStep == TypeOK /\ CallOK /\ OrderInv /\ [Next]_vars => OrderInv'
<1> SUFFICES ASSUME TypeOK, CallOK, OrderInv, [Next]_vars PROVE OrderInv'
  OBVIOUS
<1> USE AlarmAssumption
<1>1. CASE ReportAlarm
  <2>1. /\ reported' = reported + 1 /\ alarms' = Append(alarms, reported + 1)
        /\ UNCHANGED <<batch, i, pc, outcome>>
    BY <1>1 DEF ReportAlarm, client
  <2>2. Len(alarms') = Len(alarms) + 1
    BY <2>1 DEF TypeOK
  <2>3. Ended' = Ended
    BY <2>1, <2>2 DEF TypeOK, Ended
  <2>4. ASSUME NEW k \in 1..Len(alarms')
        PROVE  alarms'[k] = reported' - Len(alarms') + k
    <3>1. CASE k = Len(alarms) + 1
      BY <3>1, <2>1, <2>2 DEF TypeOK
    <3>2. CASE k \in 1..Len(alarms)
      BY <3>2, <2>1, <2>2 DEF TypeOK, OrderInv
    <3> QED
      BY <3>1, <3>2, <2>2 DEF TypeOK
  <2>5. ASSUME NEW k \in 1..Len(batch')
        PROVE  batch'[k] = reported' - Len(alarms') - Len(batch') + k
    BY <2>1, <2>2 DEF TypeOK, OrderInv
  <2> QED
    BY SMTT(30), <2>1, <2>2, <2>3, <2>4, <2>5 DEF TypeOK, OrderInv, Calling
<1>2. CASE \/ SetStop \/ SignalStop \/ StopSched \/ Destroyed \/ OtherStops
           \/ LeaveLoop \/ UNCHANGED vars
  BY <1>2 DEF SetStop, SignalStop, StopSched, Destroyed, OtherStops, LeaveLoop,
              vars, shared, client, network, OrderInv, Ended, Calling
<1>3. CASE Check \/ EnterWait \/ WakeSignalled \/ WakeTimeout \/ Recheck
  BY <1>3 DEF Check, EnterWait, WakeSignalled, WakeTimeout, Recheck,
              shared, network, OrderInv, Ended, Calling
<1>4. CASE TakeBatch
  <2>1. batch' = alarms /\ alarms' = <<>> /\ i' = 1 /\ pc' = "next" /\ UNCHANGED <<reported, outcome>>
    BY <1>4 DEF TakeBatch
  <2>2. Ended' = Ended
    BY <1>4, <2>1 DEF TakeBatch, TypeOK, Ended, OrderInv
  <2> QED
    BY <2>1, <2>2 DEF TypeOK, OrderInv, Calling
<1>5. CASE NextCall
  BY SMTT(30), <1>5 DEF NextCall, shared, network, TypeOK, OrderInv, Ended, Calling
<1>6. CASE Connect \/ Send
  BY <1>6 DEF Connect, Send, shared, OrderInv, Ended, Calling
<1>7. CASE ConnectFail
  BY <1>7, EndCallOrder DEF ConnectFail, shared, Calling
<1>8. CASE SendFail
  BY <1>8, EndCallOrder DEF SendFail, shared, Calling
<1>9. CASE Recv
  BY <1>9, EndCallOrder DEF Recv, shared, Calling
<1>10. CASE RecvFail
  BY <1>10, EndCallOrder DEF RecvFail, shared, Calling
<1>11. CASE Server
  BY <1>11 DEF Server, ServerHandle, ServerClose, shared, client, OrderInv, Ended, Calling
<1> QED
  BY <1>1, <1>2, <1>3, <1>4, <1>5, <1>6, <1>7, <1>8, <1>9, <1>10, <1>11
     DEF Next, Engine, Loop, Call

\* No alarm is forgotten or taken out of turn (DstEngine.cpp:488-497).
THEOREM NoneForgottenHolds == Spec => []NoneForgotten
<1>1. TypeOK /\ OrderInv => NoneForgotten
  BY AlarmAssumption DEF TypeOK, OrderInv, NoneForgotten, Alarm
<1> QED
  BY <1>1, TypeInit, TypeStep, OrderInit, OrderStep, PTL DEF Spec

-----------------------------------------------------------------------------
(***************************************************************************)
(* Connections: a connection in use carries at most the request or the     *)
(* answer of the call in progress.                                         *)
(***************************************************************************)

\* The alarm of a call in progress is the one after those that have ended.
LEMMA CurrentAlarm ==
  ASSUME TypeOK, OrderInv, Calling
  PROVE  batch[i] = Ended + 1 /\ batch[i] \in Alarm
<1>1. i \in 1..Len(batch)
  BY DEF TypeOK, OrderInv
<1>2. batch[i] = reported - Len(alarms) - Len(batch) + i
  BY <1>1 DEF OrderInv
<1>3. batch[i] \in Alarm
  BY <1>1 DEF TypeOK
<1> QED
  BY <1>1, <1>2, <1>3 DEF TypeOK, Ended

\* A call that ends adds one to the calls that have ended, no other step does.
LEMMA EndedStep ==
  ASSUME TypeOK, OrderInv, [Next]_vars
  PROVE  /\ Ended \in Nat
         /\ ConnectFail \/ SendFail \/ Recv \/ RecvFail => Ended' = Ended + 1
         /\ ~(ConnectFail \/ SendFail \/ Recv \/ RecvFail) => Ended' = Ended
<1>1. Ended \in Nat
  BY DEF TypeOK, OrderInv, Ended
<1>2. CASE ConnectFail \/ SendFail \/ Recv \/ RecvFail
  <2>1. UNCHANGED <<reported, alarms, batch>> /\ i' = i + 1
    BY <1>2 DEF ConnectFail, SendFail, Recv, RecvFail, EndCall, shared
  <2>2. Ended' = Ended + 1
    BY <2>1 DEF TypeOK, Ended
  <2> QED
    BY <1>1, <1>2, <2>2
<1>3. CASE ReportAlarm
  <2>1. reported' = reported + 1 /\ Len(alarms') = Len(alarms) + 1
    BY <1>3 DEF TypeOK, ReportAlarm
  <2>2. UNCHANGED <<batch, i>> /\ pc' = pc
    BY <1>3 DEF ReportAlarm, client
  <2>3. Ended' = Ended
    BY <2>1, <2>2 DEF TypeOK, Ended
  <2>4. ~(ConnectFail \/ SendFail \/ Recv \/ RecvFail)
    BY <2>2 DEF TypeOK, ConnectFail, SendFail, Recv, RecvFail, EndCall
  <2> QED
    BY <1>1, <2>3, <2>4
<1>4. CASE TakeBatch
  <2>1. batch' = alarms /\ alarms' = <<>> /\ i' = 1 /\ reported' = reported /\ pc = "swap"
    BY <1>4 DEF TakeBatch
  <2>2. Ended' = Ended
    BY <2>1 DEF TypeOK, OrderInv, Ended
  <2>3. ~(ConnectFail \/ SendFail \/ Recv \/ RecvFail)
    BY <2>1 DEF ConnectFail, SendFail, Recv, RecvFail
  <2> QED
    BY <1>1, <2>2, <2>3
<1>5. CASE \/ SetStop \/ SignalStop \/ StopSched \/ Destroyed \/ OtherStops \/ LeaveLoop
           \/ Check \/ EnterWait \/ WakeSignalled \/ WakeTimeout \/ Recheck \/ NextCall
           \/ Connect \/ Send \/ Server \/ UNCHANGED vars
  <2>1. UNCHANGED <<reported, alarms, batch, i>>
    BY <1>5 DEF SetStop, SignalStop, StopSched, Destroyed, OtherStops, LeaveLoop,
         Check, EnterWait, WakeSignalled, WakeTimeout, Recheck, NextCall,
         Connect, Send, Server, ServerHandle, ServerClose, vars, shared, client
  <2>2. Ended' = Ended
    BY <2>1 DEF Ended
  <2>3. ~(ConnectFail \/ SendFail \/ Recv \/ RecvFail)
    BY <2>1 DEF TypeOK, ConnectFail, SendFail, Recv, RecvFail, EndCall
  <2> QED
    BY <1>1, <2>2, <2>3
<1> QED
  BY <1>2, <1>3, <1>4, <1>5 DEF Next, Engine, Loop, Call

LEMMA ConnInit == Init => ConnInv
BY DEF Init, ConnInv, Conn, NoConn

\* ClientImpl::disconnect leaves no connection in use.
LEMMA DisconnectConn ==
  ASSUME TypeOK, ConnInv, fd # NoConn, Disconnect, pc' = "next",
         UNCHANGED <<opened, toServer>>
  PROVE  ConnInv'
BY DEF TypeOK, ConnInv, Disconnect

LEMMA ConnStep ==
  TypeOK /\ CallOK /\ OrderInv /\ ConnInv /\ [Next]_vars => ConnInv'
<1> SUFFICES ASSUME TypeOK, CallOK, OrderInv, ConnInv, [Next]_vars PROVE ConnInv'
  OBVIOUS
<1> USE ConnAssumption
<1>1. CASE \/ ReportAlarm \/ SetStop \/ SignalStop \/ StopSched \/ Destroyed
           \/ OtherStops \/ LeaveLoop \/ UNCHANGED vars
  <2>1. UNCHANGED <<pc, fd, opened, toServer, toClient>>
    BY <1>1 DEF ReportAlarm, SetStop, SignalStop, StopSched, Destroyed,
         OtherStops, LeaveLoop, vars, client, network
  <2>2. Ended' = Ended
    BY <1>1, <2>1, EndedStep DEF ReportAlarm, SetStop, SignalStop, StopSched, Destroyed,
         OtherStops, LeaveLoop, vars, client, ConnectFail, SendFail, Recv, RecvFail,
         EndCall, TypeOK
  <2> QED
    BY <2>1, <2>2 DEF ConnInv
<1>2. CASE \/ Check \/ EnterWait \/ WakeSignalled \/ WakeTimeout \/ Recheck
           \/ TakeBatch \/ NextCall
  BY <1>2 DEF Check, EnterWait, WakeSignalled, WakeTimeout, Recheck, TakeBatch,
       NextCall, network, ConnInv
<1>3. CASE Connect
  <2>1. /\ fd = NoConn /\ opened + 1 \in Conn
        /\ fd' = opened + 1 /\ opened' = opened + 1 /\ pc' = "send"
        /\ UNCHANGED <<toServer, toClient>>
    BY <1>3 DEF Connect, TypeOK, ConnInv, Conn
  <2>2. toServer[opened + 1] = <<>> /\ toClient[opened + 1] = <<>>
    BY <2>1 DEF TypeOK, ConnInv, Conn, NoConn
  <2>3. \A c \in Conn : toClient[c] = <<>>
    BY <2>1 DEF ConnInv, Conn, NoConn
  <2>4. \A c \in Conn : c > opened + 1 => toServer[c] = <<>>
    BY DEF TypeOK, ConnInv, Conn
  <2> QED
    BY <2>1, <2>2, <2>3, <2>4 DEF ConnInv, Conn, NoConn
<1>4. CASE ConnectFail
  BY <1>4 DEF ConnectFail, EndCall, network, ConnInv
<1>5. CASE Send
  <2>1. batch[i] = Ended + 1 /\ batch[i] \in Alarm /\ fd \in Conn
    BY <1>5, CurrentAlarm DEF Send, Calling, CallOK
  <2>2. Ended' = Ended
    BY <1>5 DEF Send, shared, Ended
  <2>3. toServer[fd] = <<>> /\ toClient[fd] = <<>>
    BY <1>5 DEF Send, ConnInv
  <2>4. toServer'[fd] = <<Ended + 1>>
    BY <1>5, <2>1, <2>3 DEF Send, TypeOK
  <2> QED
    BY <1>5, <2>1, <2>2, <2>3, <2>4 DEF Send, ConnInv, TypeOK
<1>6. CASE SendFail
  BY <1>6, DisconnectConn DEF SendFail, EndCall, ConnInv
<1>7. CASE Recv
  <2>1. toServer[fd] = <<>> /\ toClient[fd] = <<Ended + 1>> /\ fd \in Conn
    BY <1>7 DEF Recv, ConnInv, CallOK
  <2>2. toClient'[fd] = <<>>
    BY <1>7, <2>1 DEF Recv, TypeOK
  <2> QED
    BY <1>7, <2>1, <2>2 DEF Recv, EndCall, ConnInv, TypeOK
<1>8. CASE RecvFail
  BY <1>8, DisconnectConn DEF RecvFail, EndCall, ConnInv
<1>9. ASSUME NEW c \in Conn, ServerHandle(c) PROVE ConnInv'
  <2>1. Ended' = Ended
    BY <1>9 DEF ServerHandle, shared, client, Ended
  <2>2. CASE c = fd
    <3>1. pc = "recv" /\ toServer[fd] = <<Ended + 1>> /\ toClient[fd] = <<>>
      BY <1>9, <2>2 DEF ServerHandle, ConnInv, Conn, NoConn
    <3>2. toServer'[fd] = <<>> /\ toClient'[fd] = <<Ended + 1>>
      BY <1>9, <2>2, <3>1 DEF ServerHandle, TypeOK
    <3> QED
      BY <1>9, <2>1, <2>2, <3>1, <3>2 DEF ServerHandle, client, ConnInv, TypeOK
  <2>3. CASE c # fd
    BY <1>9, <2>1, <2>3 DEF ServerHandle, client, ConnInv, TypeOK
  <2> QED
    BY <2>2, <2>3
<1>10. ASSUME NEW c \in Conn, ServerClose(c) PROVE ConnInv'
  BY <1>10 DEF ServerClose, shared, client, ConnInv, Ended
<1> QED
  BY <1>1, <1>2, <1>3, <1>4, <1>5, <1>6, <1>7, <1>8, <1>9, <1>10
     DEF Next, Engine, Loop, Call, Server

-----------------------------------------------------------------------------
(***************************************************************************)
(* Requests in flight: an abandoned one is that of a failed call, and each *)
(* is in flight once and not received yet.                                 *)
(***************************************************************************)

LEMMA AbandonedInit == Init => AbandonedInv
BY DEF Init, AbandonedInv

\* A call that ends leaves the outcomes of the other alarms alone.
LEMMA OutcomeStep ==
  ASSUME TypeOK, OrderInv, [Next]_vars
  PROVE  \A a \in Alarm : outcome[a] # "none" => outcome'[a] = outcome[a]
<1>1. CASE ConnectFail \/ SendFail \/ Recv \/ RecvFail
  <2>1. Calling /\ \E r \in {"ok", "failed"} : outcome' = [outcome EXCEPT ![batch[i]] = r]
    BY <1>1 DEF ConnectFail, SendFail, Recv, RecvFail, EndCall, Calling
  <2>2. outcome[batch[i]] = "none"
    BY <2>1, CurrentAlarm, EndedStep DEF OrderInv
  <2> QED
    BY <2>1, <2>2 DEF TypeOK
<1>2. CASE ~(ConnectFail \/ SendFail \/ Recv \/ RecvFail)
  <2>1. outcome' = outcome
    BY <1>2 DEF Next, Engine, Loop, Call, Server, ReportAlarm, SetStop, SignalStop,
         StopSched, Destroyed, OtherStops, LeaveLoop, Check, EnterWait, WakeSignalled,
         WakeTimeout, Recheck, TakeBatch, NextCall, Connect, Send, ServerHandle,
         ServerClose, vars, client
  <2> QED
    BY <2>1
<1> QED
  BY <1>1, <1>2

LEMMA AbandonedStep ==
  TypeOK /\ CallOK /\ OrderInv /\ ConnInv /\ AbandonedInv /\ [Next]_vars => AbandonedInv'
<1> SUFFICES ASSUME TypeOK, CallOK, OrderInv, ConnInv, AbandonedInv, [Next]_vars,
                    NEW c \in Conn, c # fd'
             PROVE  \/ toServer'[c] = <<>>
                    \/ \E a \in Alarm : toServer'[c] = <<a>> /\ outcome'[a] = "failed"
  BY DEF AbandonedInv
<1>1. CASE fd' = fd /\ toServer' = toServer
  BY <1>1, OutcomeStep DEF AbandonedInv
<1>2. CASE Connect
  <2>1. fd = NoConn /\ toServer' = toServer /\ outcome' = outcome
    BY <1>2 DEF Connect, ConnInv
  <2> QED
    BY <2>1 DEF AbandonedInv, Conn, NoConn
<1>3. CASE Send
  BY <1>3 DEF Send, AbandonedInv, TypeOK
<1>4. CASE SendFail
  <2>1. CASE c = fd
    BY <1>4, <2>1 DEF SendFail, ConnInv
  <2>2. CASE c # fd
    BY <1>4, <2>2, OutcomeStep DEF SendFail, AbandonedInv
  <2> QED
    BY <2>1, <2>2
<1>5. CASE RecvFail
  <2>1. CASE c = fd
    <3>1. batch[i] = Ended + 1 /\ batch[i] \in Alarm
      BY <1>5, CurrentAlarm DEF RecvFail, Calling
    <3>2. outcome'[batch[i]] = "failed"
      BY <1>5, <3>1 DEF RecvFail, EndCall, TypeOK
    <3>3. toServer'[c] = <<>> \/ toServer'[c] = <<batch[i]>>
      BY <1>5, <2>1, <3>1 DEF RecvFail, ConnInv
    <3> QED
      BY <3>1, <3>2, <3>3
  <2>2. CASE c # fd
    BY <1>5, <2>2, OutcomeStep DEF RecvFail, AbandonedInv
  <2> QED
    BY <2>1, <2>2
<1>6. ASSUME NEW d \in Conn, ServerHandle(d)
      PROVE  \/ toServer'[c] = <<>>
             \/ \E a \in Alarm : toServer'[c] = <<a>> /\ outcome'[a] = "failed"
  <2>1. fd' = fd /\ outcome' = outcome
    BY <1>6 DEF ServerHandle, client
  <2>2. CASE c = d
    <3>1. PICK a \in Alarm : toServer[c] = <<a>>
      BY <1>6, <2>1, <2>2 DEF ServerHandle, AbandonedInv
    <3>2. toServer'[c] = <<>>
      BY <1>6, <2>2, <3>1 DEF ServerHandle, TypeOK
    <3> QED
      BY <3>2
  <2>3. CASE c # d
    BY <1>6, <2>1, <2>3 DEF ServerHandle, AbandonedInv, TypeOK
  <2> QED
    BY <2>2, <2>3
<1> QED
  BY <1>1, <1>2, <1>3, <1>4, <1>5, <1>6
     DEF Next, Engine, Loop, Call, Server, ReportAlarm, SetStop, SignalStop,
         StopSched, Destroyed, OtherStops, LeaveLoop, Check, EnterWait, WakeSignalled,
         WakeTimeout, Recheck, TakeBatch, NextCall, ConnectFail, Recv,
         ServerClose, vars, client, network

LEMMA FlightInit == Init => FlightInv
BY DEF Init, FlightInv

\* Steps that neither send nor handle a request keep FlightInv.
LEMMA FlightQuiet ==
  ASSUME TypeOK, FlightInv, Ended \in Nat, Ended' \in Nat,
         UNCHANGED <<toServer, received>>,
         \/ pc # "recv" /\ pc' # "recv" /\ Ended' >= Ended
         \/ pc' = pc /\ Ended' = Ended /\ fd' = fd /\ toClient' = toClient
         \/ pc = "recv" /\ pc' # "recv" /\ Ended' = Ended + 1
  PROVE  FlightInv'
<1>1. /\ \A c, d \in Conn : \A a \in Alarm :
            toServer'[c] = <<a>> /\ toServer'[d] = <<a>> => c = d
      /\ \A c \in Conn : \A a \in Alarm : toServer'[c] = <<a>> =>
            \A j \in 1..Len(received') : received'[j] # a
  BY DEF FlightInv
<1>2. \A j \in 1..Len(received') :
         received'[j] <= Ended' + (IF pc' = "recv" THEN 1 ELSE 0)
  <2> SUFFICES ASSUME NEW j \in 1..Len(received)
               PROVE  received[j] <= Ended' + (IF pc' = "recv" THEN 1 ELSE 0)
    OBVIOUS
  <2>1. received[j] \in Nat
    BY SMTT(30), AlarmAssumption DEF TypeOK, Alarm
  <2>2. received[j] <= Ended + (IF pc = "recv" THEN 1 ELSE 0)
    BY DEF FlightInv
  <2> QED
    BY <2>1, <2>2
<1>3. pc' = "recv" /\ toClient'[fd'] # <<>> =>
         \E j \in 1..Len(received') : received'[j] = Ended' + 1
  BY DEF FlightInv
<1> QED
  BY <1>1, <1>2, <1>3 DEF FlightInv

LEMMA FlightStep ==
  TypeOK /\ CallOK /\ OrderInv /\ ConnInv /\ AbandonedInv /\ FlightInv /\ [Next]_vars
    => FlightInv'
<1> SUFFICES ASSUME TypeOK, CallOK, OrderInv, ConnInv, AbandonedInv, FlightInv, [Next]_vars
             PROVE  FlightInv'
  OBVIOUS
<1>0. Ended \in Nat /\ Ended' \in Nat
  BY EndedStep
<1>1. CASE \/ ReportAlarm \/ SetStop \/ SignalStop \/ StopSched \/ Destroyed
           \/ OtherStops \/ LeaveLoop \/ UNCHANGED vars
           \/ \E c \in Conn : ServerClose(c)
  <2>1. UNCHANGED <<pc, i, fd, toServer, toClient, received>>
    BY <1>1 DEF ReportAlarm, SetStop, SignalStop, StopSched, Destroyed,
         OtherStops, LeaveLoop, ServerClose, vars, client, network
  <2>2. Ended' = Ended
    BY <2>1, EndedStep DEF ConnectFail, SendFail, Recv, RecvFail, EndCall, TypeOK
  <2> QED
    BY <1>0, <2>1, <2>2, FlightQuiet
<1>2. CASE \/ Check \/ EnterWait \/ WakeSignalled \/ WakeTimeout \/ Recheck
           \/ TakeBatch \/ NextCall \/ Connect \/ ConnectFail \/ SendFail
  <2>1. pc # "recv" /\ pc' # "recv" /\ UNCHANGED <<toServer, received>>
    BY <1>2 DEF Check, EnterWait, WakeSignalled, WakeTimeout, Recheck, TakeBatch,
         NextCall, Connect, ConnectFail, SendFail, EndCall, network
  <2>2. Ended' >= Ended
    BY <1>0, EndedStep
  <2> QED
    BY <1>0, <2>1, <2>2, FlightQuiet
<1>3. CASE Recv \/ RecvFail
  <2>1. pc = "recv" /\ pc' # "recv" /\ UNCHANGED <<toServer, received>>
    BY <1>3 DEF Recv, RecvFail, EndCall
  <2>2. Ended' = Ended + 1
    BY <1>3, EndedStep
  <2> QED
    BY <1>0, <2>1, <2>2, FlightQuiet
<1>4. CASE Send
  <2>1. batch[i] = Ended + 1 /\ batch[i] \in Alarm /\ fd \in Conn
    BY <1>4, CurrentAlarm DEF Send, Calling, CallOK
  <2>2. Ended' = Ended /\ received' = received /\ toClient' = toClient /\ fd' = fd
        /\ pc = "send" /\ pc' = "recv"
    BY <1>4 DEF Send, shared, Ended
  <2>3. toServer[fd] = <<>> /\ toClient[fd] = <<>>
    BY <1>4 DEF Send, ConnInv
  <2>4. toServer' = [toServer EXCEPT ![fd] = <<batch[i]>>]
    BY <1>4, <2>1, <2>3 DEF Send, TypeOK
  <2>5. \A c \in Conn : c # fd => toServer[c] # <<batch[i]>>
    <3> SUFFICES ASSUME NEW c \in Conn, c # fd, toServer[c] = <<batch[i]>> PROVE FALSE
      OBVIOUS
    <3>1. outcome[batch[i]] = "failed"
      BY <2>1 DEF AbandonedInv
    <3> QED
      BY <1>0, <2>1, <3>1 DEF OrderInv
  <2>6. \A j \in 1..Len(received) : received[j] \in Nat /\ received[j] <= Ended
    <3> SUFFICES ASSUME NEW j \in 1..Len(received)
                 PROVE  received[j] \in Nat /\ received[j] <= Ended
      OBVIOUS
    <3>1. received[j] \in Alarm
      BY DEF TypeOK
    <3>2. received[j] <= Ended + (IF pc = "recv" THEN 1 ELSE 0)
      BY DEF FlightInv
    <3> QED
      BY <1>0, <2>2, <3>1, <3>2, AlarmAssumption DEF Alarm
  <2>7. \A c, d \in Conn : \A a \in Alarm :
            toServer'[c] = <<a>> /\ toServer'[d] = <<a>> => c = d
    BY <2>1, <2>4, <2>5 DEF FlightInv, TypeOK
  <2>8. \A c \in Conn : \A a \in Alarm : toServer'[c] = <<a>> =>
            \A j \in 1..Len(received') : received'[j] # a
    <3> SUFFICES ASSUME NEW c \in Conn, NEW a \in Alarm, toServer'[c] = <<a>>,
                        NEW j \in 1..Len(received)
                 PROVE  received[j] # a
      BY <2>2
    <3>1. CASE c = fd
      <4>1. a = Ended + 1
        BY <2>1, <2>4, <3>1 DEF TypeOK
      <4> QED
        BY <1>0, <2>6, <4>1
    <3>2. CASE c # fd
      BY <2>4, <3>2 DEF FlightInv, TypeOK
    <3> QED
      BY <3>1, <3>2
  <2> QED
    BY <1>0, <2>2, <2>3, <2>6, <2>7, <2>8 DEF FlightInv
<1>5. ASSUME NEW c \in Conn, ServerHandle(c) PROVE FlightInv'
  <2>1. PICK a \in Alarm : toServer[c] = <<a>>
    BY <1>5, CurrentAlarm DEF ServerHandle, ConnInv, AbandonedInv, Calling, CallOK,
         Conn, NoConn
  <2>2. /\ received' = Append(received, a)
        /\ toServer' = [toServer EXCEPT ![c] = <<>>]
        /\ UNCHANGED <<pc, fd>>
        /\ Ended' = Ended
    BY <1>5, <2>1 DEF ServerHandle, shared, client, Ended
  <2>3. /\ Len(received') = Len(received) + 1
        /\ received'[Len(received) + 1] = a
        /\ \A j \in 1..Len(received) : received'[j] = received[j]
        /\ Len(received) \in Nat
    BY <2>2 DEF TypeOK
  <2>4. a <= Ended + (IF pc = "recv" THEN 1 ELSE 0)
    <3>1. CASE c = fd
      <4>1. pc = "recv"
        BY <2>1, <3>1 DEF ConnInv, Conn, NoConn
      <4>2. <<a>> = <<Ended + 1>>
        BY <2>1, <3>1, <4>1 DEF ConnInv
      <4>3. a = Ended + 1
        BY <4>2
      <4> QED
        BY <1>0, <4>1, <4>3
    <3>2. CASE c # fd
      <4>1. outcome[a] = "failed"
        BY <2>1, <3>2 DEF AbandonedInv
      <4> QED
        BY <1>0, <4>1 DEF OrderInv, Alarm
    <3> QED
      BY <3>1, <3>2
  <2>5. \A d, e \in Conn : \A b \in Alarm :
            toServer'[d] = <<b>> /\ toServer'[e] = <<b>> => d = e
    BY <2>2 DEF FlightInv, TypeOK
  <2>6. ASSUME NEW d \in Conn, NEW b \in Alarm, toServer'[d] = <<b>>,
               NEW j \in 1..Len(received')
        PROVE  received'[j] # b
    <3>1. d # c /\ toServer[d] = <<b>>
      BY <2>2, <2>6 DEF TypeOK
    <3>2. b # a
      BY <2>1, <3>1 DEF FlightInv
    <3> QED
      BY <2>3, <3>1, <3>2 DEF FlightInv
  <2>7. \A j \in 1..Len(received') :
            received'[j] <= Ended' + (IF pc' = "recv" THEN 1 ELSE 0)
    BY <2>2, <2>3, <2>4 DEF FlightInv
  <2>8. ASSUME pc' = "recv", toClient'[fd'] # <<>>
        PROVE  \E j \in 1..Len(received') : received'[j] = Ended' + 1
    <3>1. CASE c = fd
      <4>1. a = Ended + 1
        BY <2>1, <2>2, <2>8, <3>1 DEF ConnInv
      <4> QED
        BY <2>2, <2>3, <4>1
    <3>2. CASE c # fd
      <4>1. toClient'[fd] = toClient[fd]
        BY <1>5, <3>2 DEF ServerHandle
      <4>2. PICK j \in 1..Len(received) : received[j] = Ended + 1
        BY <2>2, <2>8, <4>1 DEF FlightInv
      <4> QED
        BY <2>2, <2>3, <4>2
    <3> QED
      BY <3>1, <3>2
  <2> QED
    BY <2>5, <2>6, <2>7, <2>8 DEF FlightInv
<1> QED
  BY <1>1, <1>2, <1>3, <1>4, <1>5 DEF Next, Engine, Loop, Call, Server

-----------------------------------------------------------------------------
(***************************************************************************)
(* What the server receives and what the calls are answered.               *)
(***************************************************************************)

ResultsOK == AtMostOnce /\ OwnAnswer /\ OkIsReceived /\ OvertakenOnlyIfFailed

LEMMA ResultsInit == Init => ResultsOK
BY DEF Init, ResultsOK, AtMostOnce, OwnAnswer, OkIsReceived, OvertakenOnlyIfFailed

\* Steps that settle no call with "ok" and process no request.
LEMMA ResultsQuiet ==
  ASSUME TypeOK, OrderInv, [Next]_vars, ResultsOK, UNCHANGED <<received, answer>>,
         \A b \in Alarm : outcome'[b] = "ok" => outcome[b] = "ok"
  PROVE  ResultsOK'
<1>1. \A j \in 1..Len(received) : received[j] \in Alarm
  BY DEF TypeOK
<1>2. AtMostOnce' /\ OwnAnswer' /\ OkIsReceived'
  BY DEF ResultsOK, AtMostOnce, OwnAnswer, OkIsReceived
<1>3. OvertakenOnlyIfFailed'
  BY <1>1, OutcomeStep DEF ResultsOK, OvertakenOnlyIfFailed
<1> QED
  BY <1>2, <1>3 DEF ResultsOK

LEMMA ResultsStep ==
  /\ TypeOK /\ CallOK /\ OrderInv /\ ConnInv /\ AbandonedInv /\ FlightInv /\ ResultsOK
  /\ [Next]_vars
  => ResultsOK'
<1> SUFFICES ASSUME TypeOK, CallOK, OrderInv, ConnInv, AbandonedInv, FlightInv,
                    ResultsOK, [Next]_vars
             PROVE  ResultsOK'
  OBVIOUS
<1>0. Ended \in Nat
  BY EndedStep
<1>1. CASE received' = received /\ answer' = answer /\ outcome' = outcome
  BY <1>1, ResultsQuiet
<1>2. CASE ConnectFail \/ SendFail \/ RecvFail
  <2>1. UNCHANGED <<received, answer>> /\ EndCall("failed")
    BY <1>2 DEF ConnectFail, SendFail, RecvFail, network
  <2>2. \A b \in Alarm : outcome'[b] = "ok" => outcome[b] = "ok"
    BY <2>1 DEF EndCall, TypeOK
  <2> QED
    BY <2>1, <2>2, ResultsQuiet
<1>3. CASE Recv
  <2>1. batch[i] = Ended + 1 /\ batch[i] \in Alarm
    BY <1>3, CurrentAlarm DEF Recv, Calling
  <2>2. toClient[fd] = <<batch[i]>>
    BY <1>3, <2>1 DEF Recv, ConnInv
  <2>3. /\ answer' = [answer EXCEPT ![batch[i]] = batch[i]]
        /\ outcome' = [outcome EXCEPT ![batch[i]] = "ok"]
        /\ received' = received
    BY <1>3, <2>2 DEF Recv, EndCall
  <2>4. \E j \in 1..Len(received) : received[j] = batch[i]
    BY <1>3, <2>1, <2>2 DEF Recv, FlightInv
  <2>5. AtMostOnce' /\ OwnAnswer' /\ OkIsReceived'
    BY <2>1, <2>3, <2>4 DEF ResultsOK, AtMostOnce, OwnAnswer, OkIsReceived, TypeOK
  <2>6. \A j \in 1..Len(received) : received[j] \in Alarm
    BY DEF TypeOK
  <2>7. OvertakenOnlyIfFailed'
    BY <2>3, <2>6, OutcomeStep DEF ResultsOK, OvertakenOnlyIfFailed
  <2> QED
    BY <2>5, <2>7 DEF ResultsOK
<1>4. ASSUME NEW c \in Conn, ServerHandle(c) PROVE ResultsOK'
  <2>1. PICK a \in Alarm : toServer[c] = <<a>>
    BY <1>4, CurrentAlarm DEF ServerHandle, ConnInv, AbandonedInv, Calling, CallOK,
         Conn, NoConn
  <2>2. /\ received' = Append(received, a)
        /\ UNCHANGED <<answer, outcome>>
    BY <1>4, <2>1 DEF ServerHandle, client
  <2>3. /\ Len(received') = Len(received) + 1
        /\ received'[Len(received) + 1] = a
        /\ \A j \in 1..Len(received) : received'[j] = received[j]
        /\ Len(received) \in Nat
    BY <2>2 DEF TypeOK
  <2>4. \A j \in 1..Len(received) : received[j] # a
    BY <2>1 DEF FlightInv
  <2>5. AtMostOnce'
    BY <2>3, <2>4 DEF ResultsOK, AtMostOnce
  <2>6. OwnAnswer' /\ OkIsReceived'
    BY <2>2, <2>3 DEF ResultsOK, OwnAnswer, OkIsReceived
  <2>7. ASSUME NEW j \in 1..Len(received), received[j] > a PROVE outcome[a] = "failed"
    <3>1. CASE c = fd
      <4>0. fd # NoConn
        BY <3>1, ConnAssumption DEF Conn, NoConn
      <4>1. pc = "recv"
        BY <2>1, <3>1, <4>0 DEF ConnInv
      <4>2. <<a>> = <<Ended + 1>>
        BY <2>1, <3>1, <4>1 DEF ConnInv
      <4>3. a = Ended + 1
        BY <4>2
      <4>4. received[j] <= Ended + 1 /\ received[j] \in Alarm
        BY <4>1 DEF FlightInv, TypeOK
      <4> QED
        BY <1>0, <2>7, <4>3, <4>4, AlarmAssumption DEF Alarm
    <3>2. CASE c # fd
      BY <2>1, <3>2 DEF AbandonedInv
    <3> QED
      BY <3>1, <3>2
  <2>8. OvertakenOnlyIfFailed'
    BY <2>2, <2>3, <2>7 DEF ResultsOK, OvertakenOnlyIfFailed
  <2> QED
    BY <2>5, <2>6, <2>8 DEF ResultsOK
<1> QED
  BY <1>1, <1>2, <1>3, <1>4
     DEF Next, Engine, Loop, Call, Server, ReportAlarm, SetStop, SignalStop,
         StopSched, Destroyed, OtherStops, LeaveLoop, Check, EnterWait, WakeSignalled,
         WakeTimeout, Recheck, TakeBatch, NextCall, Connect, Send,
         ServerClose, vars, client, network

\* The inductive invariant, and with it every safety invariant of the module:
\* an alarm is received at most once, an answer is the call's own, a success
\* was received, and only a failed alarm can be overtaken (rpc.cc call() and
\* DstEngine::report_alarm_fun).
THEOREM Correct == Spec => []IInv
<1>1. Init => TypeOK /\ CallOK /\ OrderInv /\ ConnInv /\ AbandonedInv /\ FlightInv /\ ResultsOK
  BY TypeInit, OrderInit, ConnInit, AbandonedInit, FlightInit, ResultsInit
<1>2. /\ TypeOK /\ CallOK /\ OrderInv /\ ConnInv /\ AbandonedInv /\ FlightInv /\ ResultsOK
      /\ [Next]_vars
      => (TypeOK /\ CallOK /\ OrderInv /\ ConnInv /\ AbandonedInv /\ FlightInv /\ ResultsOK)'
  BY TypeStep, OrderStep, ConnStep, AbandonedStep, FlightStep, ResultsStep
<1>3. TypeOK /\ CallOK /\ OrderInv /\ ConnInv /\ AbandonedInv /\ FlightInv /\ ResultsOK
      => IInv
  BY DEF IInv, ResultsOK
<1> QED
  BY <1>1, <1>2, <1>3, PTL DEF Spec

\* No alarm is processed twice by the server, over any number of alarms,
\* connections, timeouts and reconnections.
THEOREM AtMostOnceHolds == Spec => []AtMostOnce
<1>1. IInv => AtMostOnce
  BY DEF IInv
<1> QED
  BY <1>1, Correct, PTL

\* A call never takes the answer to another call for its own.
THEOREM OwnAnswerHolds == Spec => []OwnAnswer
<1>1. IInv => OwnAnswer
  BY DEF IInv
<1> QED
  BY <1>1, Correct, PTL

-----------------------------------------------------------------------------
(***************************************************************************)
(* The destructor.                                                         *)
(***************************************************************************)

WaitInv == engine = "gone" => ~looping

LEMMA WaitInvHolds == Spec => []WaitInv
<1>1. Init => WaitInv
  BY DEF Init, WaitInv
<1>2. WaitInv /\ [Next]_vars => WaitInv'
  <2> SUFFICES ASSUME WaitInv, [Next]_vars PROVE WaitInv'
    OBVIOUS
  <2>1. CASE Engine
    BY <2>1 DEF Engine, ReportAlarm, SetStop, SignalStop, StopSched,
         Destroyed, OtherStops, WaitInv
  <2>2. CASE LeaveLoop
    BY <2>2 DEF LeaveLoop, WaitInv
  <2>3. CASE Loop
    BY <2>3 DEF Loop, Check, EnterWait, WakeSignalled, WakeTimeout, Recheck,
         TakeBatch, NextCall, shared, WaitInv
  <2>4. CASE Call
    BY <2>4 DEF Call, Connect, ConnectFail, Send, SendFail, Recv, RecvFail, shared, WaitInv
  <2>5. CASE Server
    BY <2>5 DEF Server, ServerHandle, ServerClose, shared, WaitInv
  <2>6. CASE UNCHANGED vars
    BY <2>6 DEF vars, shared, WaitInv
  <2> QED
    BY <2>1, <2>2, <2>3, <2>4, <2>5, <2>6 DEF Next
<1> QED
  BY <1>1, <1>2, PTL DEF Spec

\* Once a ~DstEngine that waited for the scheduler has returned, the coroutine
\* never runs again (DstEngine.cpp:56-60, scheduler.cc:29-34).
THEOREM NotUsedHolds == Spec => NotUsedAfterDestroyed
<1>1. WaitInv /\ [Next]_vars
      => [engine = "gone" => UNCHANGED <<alarms, signalled, client>>]_vars
  <2> SUFFICES ASSUME WaitInv, Next, engine = "gone"
               PROVE  UNCHANGED <<alarms, signalled, client>>
    OBVIOUS
  <2>1. ~looping
    BY DEF WaitInv
  <2> QED
    BY <2>1 DEF Next, Engine, Loop, Call, Server, ReportAlarm, SetStop, SignalStop,
         StopSched, Destroyed, OtherStops, LeaveLoop, Check, EnterWait, WakeSignalled,
         WakeTimeout, Recheck, TakeBatch, NextCall, Connect, ConnectFail, Send,
         SendFail, Recv, RecvFail, ServerHandle, ServerClose, shared
<1> QED
  BY <1>1, WaitInvHolds, PTL DEF Spec, NotUsedAfterDestroyed

\* With one engine nobody else calls co::stop, so its destructor waits.
LoneInv ==
    /\ schedStop => engine \in {"waiting", "gone"}
    /\ engine # "left"

\* In a process with one engine, ~DstEngine returns only when the loop of the
\* scheduler has ended: it takes a second caller of co::stop to break
\* StoppedWhenStopReturns (scheduler.cc:30).
THEOREM LoneEngineStops == ASSUME ~OtherEngine PROVE Spec => []StoppedWhenStopReturns
<1>1. Init => LoneInv
  BY DEF Init, LoneInv
<1>2. LoneInv /\ [Next]_vars => LoneInv'
  <2> SUFFICES ASSUME LoneInv, [Next]_vars PROVE LoneInv'
    OBVIOUS
  <2>1. CASE Engine
    BY <2>1, ~OtherEngine DEF Engine, ReportAlarm, SetStop, SignalStop, StopSched,
         Destroyed, OtherStops, LoneInv
  <2>2. CASE LeaveLoop
    BY <2>2 DEF LeaveLoop, LoneInv
  <2>3. CASE Loop
    BY <2>3 DEF Loop, Check, EnterWait, WakeSignalled, WakeTimeout, Recheck,
         TakeBatch, NextCall, shared, LoneInv
  <2>4. CASE Call
    BY <2>4 DEF Call, Connect, ConnectFail, Send, SendFail, Recv, RecvFail, shared, LoneInv
  <2>5. CASE Server
    BY <2>5 DEF Server, ServerHandle, ServerClose, shared, LoneInv
  <2>6. CASE UNCHANGED vars
    BY <2>6 DEF vars, shared, LoneInv
  <2> QED
    BY <2>1, <2>2, <2>3, <2>4, <2>5, <2>6 DEF Next
<1>3. LoneInv /\ WaitInv => StoppedWhenStopReturns
  BY DEF LoneInv, WaitInv, StoppedWhenStopReturns
<1> QED
  BY <1>1, <1>2, <1>3, WaitInvHolds, PTL DEF Spec

-----------------------------------------------------------------------------
(***************************************************************************)
(* Refinement of AlarmChannel.                                             *)
(***************************************************************************)

LEMMA ChannelInit == Init => Channel!Init
BY DEF Init, Channel!Init, Tried, Ended, Calling, Received, Alarm

\* A call that ends settles the alarm being tried.
LEMMA EndCallSettles ==
  ASSUME TypeOK, OrderInv, Calling, NEW result \in {"ok", "failed"},
         EndCall(result), Ended' = Ended + 1, UNCHANGED <<reported, received>>,
         result = "ok" => batch[i] \in Received
  PROVE  Channel!Settle(result)
<1>1. Ended \in Nat
  BY DEF TypeOK, OrderInv, Ended
<1>2. batch[i] = Ended + 1 /\ batch[i] \in Alarm
  BY CurrentAlarm
<1>3. Tried = Ended + 1 /\ Tried' = Ended + 1
  BY <1>1 DEF Tried, Calling, EndCall
<1>4. outcome[batch[i]] = "none"
  BY <1>1, <1>2 DEF OrderInv
<1>5. Received' = Received
  BY DEF Received
<1> QED
  BY <1>1, <1>2, <1>3, <1>4, <1>5 DEF Channel!Settle, EndCall

LEMMA ChannelStep == IInv /\ CallOK /\ [Next]_vars => [Channel!Next]_(Channel!vars)
<1> SUFFICES ASSUME IInv, CallOK, [Next]_vars PROVE [Channel!Next]_(Channel!vars)
  OBVIOUS
<1>0. TypeOK /\ OrderInv /\ ConnInv /\ AbandonedInv /\ FlightInv /\ Ended \in Nat
  BY EndedStep DEF IInv
<1>01. ConnInv
  BY DEF IInv
<1>1. CASE ReportAlarm
  <2>1. Ended' = Ended
    BY <1>0, <1>1, EndedStep DEF ReportAlarm, client, TypeOK, ConnectFail, SendFail,
         Recv, RecvFail, EndCall
  <2>2. Channel!Report
    BY <1>1, <2>1 DEF ReportAlarm, client, network, Channel!Report, Tried, Calling, Received
  <2> QED
    BY <2>2 DEF Channel!Next
<1>2. CASE \/ SetStop \/ SignalStop \/ StopSched \/ Destroyed \/ OtherStops \/ LeaveLoop
           \/ UNCHANGED vars \/ \E c \in Conn : ServerClose(c)
  BY <1>2 DEF SetStop, SignalStop, StopSched, Destroyed, OtherStops, LeaveLoop,
       ServerClose, vars, shared, client, network, Channel!vars, Tried, Ended,
       Calling, Received
<1>3. CASE \/ Check \/ EnterWait \/ WakeSignalled \/ WakeTimeout \/ Recheck \/ TakeBatch
           \/ Connect \/ Send
  <2>1. Ended' = Ended
    BY <1>0, <1>3, EndedStep DEF Check, EnterWait, WakeSignalled, WakeTimeout, Recheck,
         TakeBatch, Connect, Send, ConnectFail, SendFail, Recv, RecvFail, EndCall, TypeOK
  <2>2. Calling' = Calling /\ UNCHANGED <<reported, received, outcome>>
    BY <1>3 DEF Check, EnterWait, WakeSignalled, WakeTimeout, Recheck, TakeBatch,
         Connect, Send, Calling, shared, network
  <2> QED
    BY <2>1, <2>2 DEF Channel!vars, Tried, Received
<1>4. CASE NextCall
  <2>1. /\ ~Calling /\ Ended' = Ended /\ UNCHANGED <<reported, received, outcome>>
        /\ Tried = Ended
    <3>1. ~Calling /\ UNCHANGED <<reported, alarms, batch, i, received, outcome>>
      BY <1>4 DEF NextCall, shared, network, Calling
    <3>2. Ended' = Ended
      BY <3>1 DEF Ended
    <3>3. Tried = Ended
      BY <1>0, <3>1 DEF Tried
    <3> QED
      BY <3>1, <3>2, <3>3
  <2>2. CASE ~Calling'
    BY <2>1, <2>2 DEF Channel!vars, Tried, Received
  <2>3. CASE Calling'
    <3>1. Tried' = Tried + 1
      BY <2>1, <2>3 DEF Tried
    <3>2. i <= Len(batch)
      BY <1>0, <1>4, <2>3 DEF NextCall, Calling, TypeOK
    <3>3. Ended < reported
      BY <1>0, <3>2 DEF Ended, OrderInv, TypeOK
    <3>4. Tried = 0 \/ outcome[Tried] # "none"
      <4>1. Ended = 0 \/ Ended \in Alarm
        BY <1>0, <3>3, AlarmAssumption DEF TypeOK, Alarm
      <4> QED
        BY <1>0, <2>1, <4>1 DEF OrderInv
    <3>5. Channel!Try
      BY <2>1, <3>1, <3>3, <3>4 DEF Channel!Try, Received
    <3> QED
      BY <3>5 DEF Channel!Next
  <2> QED
    BY <2>2, <2>3
<1>5. CASE ConnectFail \/ SendFail \/ RecvFail
  <2>1. Calling /\ EndCall("failed") /\ Ended' = Ended + 1 /\ UNCHANGED <<reported, received>>
    BY <1>0, <1>5, EndedStep DEF ConnectFail, SendFail, RecvFail, Calling, shared, network
  <2>2. Channel!Settle("failed")
    BY <1>0, <2>1, EndCallSettles
  <2> QED
    BY <2>2 DEF Channel!Next
<1>6. CASE Recv
  <2>1. Calling /\ EndCall("ok") /\ Ended' = Ended + 1 /\ UNCHANGED <<reported, received>>
    BY <1>0, <1>6, EndedStep DEF Recv, Calling, shared
  <2>2. batch[i] = Ended + 1
    BY <1>0, <2>1, CurrentAlarm
  <2>3. batch[i] \in Received
    BY <1>0, <1>6, <2>2 DEF Recv, FlightInv, Received
  <2>4. Channel!Settle("ok")
    BY <1>0, <2>1, <2>3, EndCallSettles
  <2> QED
    BY <2>4 DEF Channel!Next
<1>7. ASSUME NEW c \in Conn, ServerHandle(c) PROVE [Channel!Next]_(Channel!vars)
  <2>1. PICK a \in Alarm : toServer[c] = <<a>>
    BY <1>0, <1>7, CurrentAlarm DEF ServerHandle, ConnInv, AbandonedInv, Calling, CallOK,
         Conn, NoConn
  <2>2. /\ received' = Append(received, a)
        /\ UNCHANGED <<reported, outcome>> /\ Tried' = Tried
    BY <1>7, <2>1 DEF ServerHandle, shared, client, Tried, Ended, Calling
  <2>3. Received' = Received \union {a}
    <3>1. /\ Len(received') = Len(received) + 1
          /\ received'[Len(received) + 1] = a
          /\ \A j \in 1..Len(received) : received'[j] = received[j]
          /\ Len(received) \in Nat
      BY <1>0, <2>2 DEF TypeOK
    <3>2. 1..Len(received') = 1..Len(received) \union {Len(received) + 1}
      BY <3>1
    <3> QED
      BY <3>1, <3>2 DEF Received
  <2>4. a \notin Received
    BY <1>0, <2>1 DEF FlightInv, Received
  <2>5. a \in 1..Tried
    <3>1. CASE c = fd
      <4>0. fd # NoConn
        BY <3>1, ConnAssumption DEF Conn, NoConn
      <4>1. pc = "recv"
        BY <1>01, <2>1, <3>1, <4>0 DEF ConnInv
      <4>2. <<a>> = <<Ended + 1>>
        BY <1>01, <2>1, <3>1, <4>1 DEF ConnInv
      <4>3. a = Ended + 1
        BY <4>2
      <4> QED
        BY <1>0, <4>1, <4>3 DEF Tried, Calling
    <3>2. CASE c # fd
      <4> toServer[c] # <<>>
        BY <1>7 DEF ServerHandle
      <4>0. PICK b \in Alarm : toServer[c] = <<b>> /\ outcome[b] = "failed"
        BY <1>0, <3>2 DEF AbandonedInv
      <4>1. a = b /\ outcome[a] = "failed"
        BY <2>1, <4>0
      <4>2. a <= Ended
        BY <1>0, <4>1 DEF OrderInv
      <4> QED
        BY <1>0, <4>2, AlarmAssumption DEF Tried, Alarm
    <3> QED
      BY <3>1, <3>2
  <2>6. Channel!Receive(a)
    BY <2>2, <2>3, <2>4 DEF Channel!Receive
  <2> QED
    BY <2>5, <2>6 DEF Channel!Next
<1> QED
  BY <1>1, <1>2, <1>3, <1>4, <1>5, <1>6, <1>7 DEF Next, Engine, Loop, Call, Server

\* The alarm path of an engine implements AlarmChannel.
THEOREM Refines == Spec => ImplementsChannel
BY ChannelInit, ChannelStep, Correct, TypeCorrect, PTL
   DEF Spec, ImplementsChannel, Channel!Spec

=============================================================================
