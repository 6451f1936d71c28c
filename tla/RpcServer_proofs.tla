--------------------------- MODULE RpcServer_proofs ---------------------------
(***************************************************************************)
(* Proofs about RpcServer and the commands of DeServ, for any number of    *)
(* connections, schedulers, cameras, commands and restarts.                *)
(***************************************************************************)
EXTENDS RpcServer, FiniteSetTheorems, TLAPS

(***************************************************************************)
(* Counting.  When one value of a function changes, the number of those    *)
(* that lie in a set changes by one, or not at all.                        *)
(***************************************************************************)
CountOf(S, f, B) == Cardinality({y \in S : f[y] \in B})

LEMMA CountChanges ==
  ASSUME NEW S, IsFiniteSet(S), NEW B, NEW f, NEW g, NEW x \in S,
         \A y \in S \ {x} : g[y] = f[y]
  PROVE  /\ CountOf(S, f, B) \in Nat
         /\ f[x] \in B => CountOf(S, f, B) > 0
         /\ f[x] \in B /\ g[x] \notin B => CountOf(S, g, B) = CountOf(S, f, B) - 1
         /\ f[x] \notin B /\ g[x] \in B => CountOf(S, g, B) = CountOf(S, f, B) + 1
         /\ (f[x] \in B <=> g[x] \in B) => CountOf(S, g, B) = CountOf(S, f, B)
<1> DEFINE F == {y \in S : f[y] \in B}
           G == {y \in S : g[y] \in B}
<1>1. IsFiniteSet(F) /\ IsFiniteSet(G)
  BY FS_Subset
<1>2. Cardinality(F) \in Nat /\ Cardinality(G) \in Nat
  BY <1>1, FS_CardinalityType
<1>3. \A y \in S : y # x => g[y] = f[y]
  OBVIOUS
<1>4. ASSUME f[x] \in B PROVE Cardinality(F) > 0
  <2>1. x \in F
    BY <1>4
  <2> QED
    BY <1>1, <1>2, <2>1, FS_EmptySet
<1>5. ASSUME f[x] \in B, g[x] \notin B PROVE Cardinality(G) = Cardinality(F) - 1
  <2>1. x \in F /\ G = F \ {x}
    BY <1>3, <1>5
  <2> QED
    BY <1>1, <2>1, FS_RemoveElement
<1>6. ASSUME f[x] \notin B, g[x] \in B PROVE Cardinality(G) = Cardinality(F) + 1
  <2>1. x \notin F /\ G = F \union {x}
    BY <1>3, <1>6
  <2> QED
    BY <1>1, <2>1, FS_AddElement
<1>7. ASSUME f[x] \in B <=> g[x] \in B PROVE G = F
  BY <1>3, <1>7
<1> QED
  BY <1>2, <1>4, <1>5, <1>6, <1>7 DEF CountOf

(***************************************************************************)
(* What a step does to the commands, whichever connection it is of.        *)
(***************************************************************************)

\* The answer of scheduler s is sent: its command is over.
Replied(s) ==
    /\ pc[s] = "done"
    /\ pc' = [pc EXCEPT ![s] = "idle"]
    /\ camera' = [camera EXCEPT ![s] = None]
    /\ graph_id' = [graph_id EXCEPT ![s] = 0]
    /\ name' = [name EXCEPT ![s] = 0]
    /\ loaded' = [loaded EXCEPT ![s] = 0]
    /\ answer' = [answer EXCEPT ![s] = 0]
    /\ UNCHANGED <<memory, borders, config, saving, engines, tasks, overlapped,
                   crossed, restarts>>

CommandStep ==
    \/ \E s \in Sched :
          \/ \E c \in Camera : BeginTask(s, c) \/ BeginSave(s, c)
          \/ TaskStep(s) \/ SaveStep(s) \/ Plain(s) \/ Replied(s)
    \/ \E g \in Graph : Load(g)
    \/ RestartService
    \/ UNCHANGED vars

States == {"none", "new", "auth", "answer", "refused", "closed"} \union Counted

\* The connections: each has a scheduler once it was accepted.
LinkTypeOK ==
    /\ passwd \in BOOLEAN
    /\ st \in [Conn -> States]
    /\ on \in [Conn -> Sched \union {None}]
    /\ \A c \in Conn : st[c] # "none" => on[c] \in Sched
    /\ skewed \subseteq Conn
    /\ calls \in 0..MaxCall

LEMMA LinkInit == ServerInit => LinkTypeOK
BY ConnAssumption, IdleAssumption DEF ServerInit, LinkTypeOK, States

\* A coroutine moves from one place to another.
LEMMA MoveType ==
  ASSUME LinkTypeOK, NEW c \in Conn, NEW from \in States, NEW to \in States \ {"none"},
         Move(c, from, to)
  PROVE  /\ st' \in [Conn -> States]
         /\ \A d \in Conn : st'[d] # "none" => on[d] \in Sched
         /\ on[c] \in Sched /\ pc[on[c]] = "idle"
BY DEF Move, Free, LinkTypeOK

LEMMA LinkStep == LinkTypeOK /\ [Next]_allvars => LinkTypeOK'
<1> SUFFICES ASSUME LinkTypeOK, [Next]_allvars PROVE LinkTypeOK'
  OBVIOUS
<1>1. ASSUME NEW c \in Conn, Connection(c) PROVE LinkTypeOK'
  <2>1. CASE Accept(c)
    BY <2>1 DEF Accept, LinkTypeOK, States
  <2>2. CASE Begin(c)
    BY <2>2, MoveType DEF Begin, LinkTypeOK, States, Counted
  <2>3. CASE Challenge(c) \/ AuthOk(c) \/ AuthFails(c) \/ Refuse(c)
    BY <2>3, MoveType DEF Challenge, AuthOk, AuthFails, Refuse, LinkTypeOK, States, Counted
  <2>4. CASE Header(c) \/ IdleTimeout(c) \/ IdleClose(c)
    BY <2>4, MoveType DEF Header, IdleTimeout, IdleClose, LinkTypeOK, States, Counted
  <2>5. CASE Close(c) \/ Fail(c)
    BY <2>5, MoveType DEF Close, Fail, LinkTypeOK, States, Counted
  <2>6. CASE Call(c)
    BY <2>6, MoveType, IdleAssumption DEF Call, LinkTypeOK, States, Counted
  <2>7. CASE Reply(c)
    BY <2>7 DEF Reply, LinkTypeOK, States, Counted
  <2> QED
    BY <1>1, <2>1, <2>2, <2>3, <2>4, <2>5, <2>6, <2>7 DEF Connection
<1>2. CASE UNCHANGED link
  BY <1>2 DEF link, LinkTypeOK
<1>3. CASE Restart
  BY <1>3 DEF Restart, LinkTypeOK, States
<1> QED
  BY <1>1, <1>2, <1>3 DEF Next, allvars

LEMMA StepsOfCommands == LinkTypeOK /\ [Next]_allvars => CommandStep
<1> SUFFICES ASSUME LinkTypeOK, [Next]_allvars PROVE CommandStep
  OBVIOUS
<1>1. ASSUME NEW c \in Conn, Connection(c) PROVE CommandStep
  <2>1. CASE Call(c)
    <3>1. on[c] \in Sched
      BY <2>1, MoveType DEF Call, States, Counted
    <3> QED
      BY <2>1, <3>1 DEF Call, CommandStep
  <2>2. CASE Reply(c)
    <3>1. on[c] \in Sched /\ Replied(on[c])
      BY <2>2 DEF Reply, Replied, LinkTypeOK
    <3> QED
      BY <3>1 DEF CommandStep
  <2>3. CASE ~Call(c) /\ ~Reply(c)
    <3>1. UNCHANGED vars
      BY <1>1, <2>3 DEF Connection, Accept, Begin, Challenge, AuthOk, AuthFails, Refuse,
           Header, IdleTimeout, IdleClose, Close, Fail
    <3> QED
      BY <3>1 DEF CommandStep
  <2> QED
    BY <2>1, <2>2, <2>3
<1> QED
  BY <1>1 DEF Next, Command, Restart, allvars, CommandStep

(***************************************************************************)
(* _conn_num.                                                              *)
(***************************************************************************)
LEMMA ConnNumInit == ServerInit => ConnNumIsRight
<1> SUFFICES ASSUME ServerInit PROVE ConnNumIsRight
  OBVIOUS
<1>1. {c \in Conn : st[c] \in Counted} = {}
  BY DEF ServerInit, Counted
<1> QED
  BY <1>1, FS_EmptySet DEF ServerInit, ConnNumIsRight

\* A connection is counted when it is served, and no longer when it ends.
LEMMA ConnNumStep == LinkTypeOK /\ ConnNumIsRight /\ [Next]_allvars => ConnNumIsRight'
<1> SUFFICES ASSUME LinkTypeOK, ConnNumIsRight, [Next]_allvars PROVE ConnNumIsRight'
  OBVIOUS
<1> DEFINE n == CountOf(Conn, st, Counted)
           m == CountOf(Conn, st', Counted)
<1>0. n = conn_num /\ (ConnNumIsRight' <=> conn_num' = m)
  BY DEF CountOf, ConnNumIsRight
<1> HIDE DEF n, m
<1>1. ASSUME NEW c \in Conn, Connection(c) PROVE conn_num' = m
  <2>1. \A d \in Conn \ {c} : st'[d] = st[d]
    BY <1>1 DEF Connection, Accept, Begin, Challenge, AuthOk, AuthFails, Refuse, Header,
         IdleTimeout, IdleClose, Close, Fail, Call, Reply, Move, LinkTypeOK
  <2>2. /\ n \in Nat
        /\ st[c] \in Counted /\ st'[c] \notin Counted => m = n - 1
        /\ st[c] \notin Counted /\ st'[c] \in Counted => m = n + 1
        /\ (st[c] \in Counted <=> st'[c] \in Counted) => m = n
    BY <2>1, ConnAssumption, CountChanges DEF n, m
  <2>3. CASE Begin(c) \/ AuthOk(c)
    BY <1>0, <2>2, <2>3 DEF Begin, AuthOk, Move, Counted, LinkTypeOK
  <2>4. CASE Close(c)
    BY <1>0, <2>2, <2>4 DEF Close, Move, Counted, LinkTypeOK
  <2>5. CASE Accept(c) \/ Challenge(c) \/ AuthFails(c) \/ Refuse(c) \/ Header(c)
             \/ IdleTimeout(c) \/ IdleClose(c) \/ Fail(c)
    BY <1>0, <2>2, <2>5 DEF Accept, Challenge, AuthFails, Refuse, Header, IdleTimeout, IdleClose,
         Fail, Move, Counted, LinkTypeOK
  <2>6. CASE Call(c)
    BY <1>0, <2>2, <2>6 DEF Call, Move, Counted, LinkTypeOK
  <2>7. CASE Reply(c)
    BY <1>0, <2>2, <2>7 DEF Reply, Counted, LinkTypeOK
  <2> QED
    BY <1>1, <2>3, <2>4, <2>5, <2>6, <2>7 DEF Connection
<1>2. CASE UNCHANGED link
  BY <1>2 DEF link, ConnNumIsRight
<1>3. CASE Restart
  <2>1. {c \in Conn : st'[c] \in Counted} = {}
    BY <1>3 DEF Restart, Counted
  <2> QED
    BY <1>3, <2>1, FS_EmptySet DEF Restart, ConnNumIsRight
<1> QED
  BY <1>0, <1>1, <1>2, <1>3 DEF Next, allvars

LEMMA LinkTypes == Spec => []LinkTypeOK
BY LinkInit, LinkStep, PTL DEF Spec

\* However a connection ends, and whenever the process does, _conn_num counts
\* the connections that are served (ServerImpl::on_connection).
THEOREM ConnNumHolds == Spec => []ConnNumIsRight
<1>1. LinkTypeOK /\ ConnNumIsRight /\ LinkTypeOK' /\ [Next]_allvars => ConnNumIsRight'
  BY ConnNumStep
<1> QED
  BY <1>1, ConnNumInit, LinkTypes, PTL DEF Spec

(***************************************************************************)
(* Types of the commands, the files and the engines.                       *)
(***************************************************************************)
FileType == [id : 0..MaxTask, camera : Camera \union {None}]

CommandTypeOK ==
    /\ pc \in [Sched -> {"idle", "done"} \union Task \union Save]
    /\ camera \in [Sched -> Camera \union {None}]
    /\ graph_id \in [Sched -> Nat]
    /\ name \in [Sched -> 0..(MaxTask + 1)]
    /\ loaded \in [Sched -> 0..MaxTask]
    /\ answer \in [Sched -> {0, 200, 400}]
    /\ process_num \in 1..(MaxTask + 1)
    /\ pidMap \in [Camera -> 0..MaxTask]
    /\ running \in [Graph -> Camera \union {None}]
    /\ borders \in (Camera \union {None}) \X Int
    /\ config \in [1..(MaxTask + 1) -> FileType]
    /\ file \in [Camera -> Int]
    /\ loading \in [Graph -> {"idle", "parse", "use"}]
    /\ text \in [Graph -> Int]
    /\ tasks \in 0..MaxTask
    /\ saves \in 0..MaxSave
    /\ saved \in [Camera -> Nat]
    /\ overlapped \in BOOLEAN
    /\ spoilt \subseteq Camera
    /\ crossed \subseteq Graph
    /\ restarts \in 0..MaxRestart

\* The commands that start graphs.
Starting == CountOf(Sched, pc, Task)

\* A command that is under way has a camera, and a graph id or a version; and
\* process_num never gets ahead of the commands, although two of them may
\* read it at the same time (DeServImpl::set_egbd_task).
CommandOK ==
    /\ \A s \in Sched : pc[s] \in Task \union Save => camera[s] \in Camera
    /\ \A s \in Sched : pc[s] \in Task => graph_id[s] \in Graph
    /\ \A s \in Sched : pc[s] \in {"id", "url", "create"} => name[s] # 0
    /\ \A s \in Sched : pc[s] = "inc" => loaded[s] + Starting <= tasks + 1
    /\ process_num + Starting <= tasks + 1
    /\ \A g \in Graph : loading[g] # "idle" => running[g] # None

Typed == LinkTypeOK /\ CommandTypeOK /\ CommandOK

LEMMA StartingAtRest ==
  ASSUME NEW f, \A s \in Sched : f[s] = "idle" PROVE CountOf(Sched, f, Task) = 0
<1>1. {s \in Sched : f[s] \in Task} = {}
  BY DEF Task
<1> QED
  BY <1>1, FS_EmptySet DEF CountOf

LEMMA TypedInit == ServerInit => Typed
<1> SUFFICES ASSUME ServerInit PROVE Typed
  OBVIOUS
<1>1. CommandTypeOK
  <2>1. 1 \in 1..(MaxTask + 1) /\ 0 \in 0..(MaxTask + 1) /\ 0 \in 0..MaxTask
        /\ 0 \in 0..MaxSave /\ 0 \in 0..MaxRestart
    BY BoundAssumption
  <2>2. /\ config \in [1..(MaxTask + 1) -> FileType]
        /\ borders \in (Camera \union {None}) \X Int
        /\ loading \in [Graph -> {"idle", "parse", "use"}]
    BY <2>1 DEF ServerInit, Init, Fresh, Blank, FileType
  <2> QED
    BY <2>1, <2>2 DEF ServerInit, Init, Fresh, CommandTypeOK
<1>2. Starting = 0
  BY StartingAtRest DEF ServerInit, Init, Fresh, Starting
<1>3. CommandOK
  BY <1>2 DEF ServerInit, Init, Fresh, CommandOK, Task, Save
<1> QED
  BY <1>1, <1>3, LinkInit DEF Typed

\* When the command of one scheduler moves on.
LEMMA StartingChanges ==
  ASSUME CommandTypeOK, NEW s \in Sched, NEW where, Goto(s, where)
  PROVE  /\ Starting \in Nat
         /\ pc[s] \in Task => Starting > 0
         /\ pc[s] \in Task /\ where \notin Task => Starting' = Starting - 1
         /\ pc[s] \notin Task /\ where \in Task => Starting' = Starting + 1
         /\ (pc[s] \in Task <=> where \in Task) => Starting' = Starting
<1>1. /\ pc'[s] = where
      /\ \A t \in Sched \ {s} : pc'[t] = pc[t]
  BY DEF Goto, CommandTypeOK
<1> QED
  BY <1>1, SchedAssumption, CountChanges DEF Starting

\* A line of a configuration file is rewritten.
LEMMA LineType ==
  ASSUME NEW S, NEW f \in [S -> FileType], NEW n
  PROVE  /\ \A k \in 0..MaxTask : [f EXCEPT ![n].id = k] \in [S -> FileType]
         /\ \A c \in Camera : [f EXCEPT ![n].camera = c] \in [S -> FileType]
<1>1. CASE n \in S
  <2>1. f[n] \in FileType
    BY <1>1
  <2>2. /\ \A k \in 0..MaxTask : [f[n] EXCEPT !.id = k] \in FileType
        /\ \A c \in Camera : [f[n] EXCEPT !.camera = c] \in FileType
    BY <2>1 DEF FileType
  <2> QED
    BY <1>1, <2>2
<1>2. CASE n \notin S
  BY <1>2
<1> QED
  BY <1>1, <1>2

\* A command writes a complete configuration file, line by line.
LEMMA TaskTypes ==
  ASSUME CommandTypeOK, CommandOK, NEW s \in Sched, TaskStep(s)
  PROVE  CommandTypeOK'
<1>1. CASE OpenConfig(s)
  <2>1. config' \in [1..(MaxTask + 1) -> FileType]
    BY <1>1, BoundAssumption DEF OpenConfig, CommandTypeOK, Blank, FileType
  <2> QED
    BY <1>1, <2>1, SMTT(20) DEF OpenConfig, Goto, CommandTypeOK, Task, memory, saving, engines
<1>2. CASE WriteId(s) \/ WriteUrl(s)
  <2>1. graph_id[s] \in 0..MaxTask /\ camera[s] \in Camera
    BY <1>2, BoundAssumption DEF WriteId, WriteUrl, CommandOK, Task, Save, Graph
  <2>2. CASE WriteId(s)
    <3>1. config' \in [1..(MaxTask + 1) -> FileType]
      BY <2>1, <2>2, LineType DEF WriteId, CommandTypeOK
    <3> QED
      BY <2>2, <3>1 DEF WriteId, Goto, CommandTypeOK, Task, memory, saving, engines
  <2>3. CASE WriteUrl(s)
    <3>1. config' \in [1..(MaxTask + 1) -> FileType]
      BY <2>1, <2>3, LineType DEF WriteUrl, CommandTypeOK
    <3> QED
      BY <2>3, <3>1 DEF WriteUrl, Goto, CommandTypeOK, Task, memory, saving, engines
  <2> QED
    BY <1>2, <2>2, <2>3
<1>3. CASE CreateGraph(s)
  <2>1. name[s] \in 1..(MaxTask + 1)
    BY <1>3, BoundAssumption DEF CreateGraph, CommandOK, CommandTypeOK
  <2>2. config[name[s]] \in FileType
    BY <2>1 DEF CommandTypeOK
  <2>3. running' \in [Graph -> Camera \union {None}]
    BY <1>3, <2>2 DEF CreateGraph, CommandTypeOK, FileType
  <2> QED
    BY <1>3, <2>3 DEF CreateGraph, Goto, CommandTypeOK, Task, saving, engines
<1>4. CASE CreateFails(s)
  BY <1>4 DEF CreateFails, Answer, Goto, CommandTypeOK, memory, saving, engines
<1>8. CASE GetNothing(s)
  BY <1>8 DEF GetNothing, Answer, Goto, CommandTypeOK, memory, saving, engines
<1>5. CASE GetInstance(s)
  BY <1>5 DEF GetInstance, Goto, CommandTypeOK, Task, memory, saving, engines
<1>6. CASE MapPid(s)
  <2>1. Starting \in Nat /\ Starting > 0
    BY <1>6, StartingChanges DEF MapPid, Task
  <2>2. graph_id[s] \in 0..MaxTask /\ process_num \in 0..MaxTask /\ camera[s] \in Camera
    BY <1>6, <2>1, BoundAssumption DEF MapPid, CommandOK, CommandTypeOK, Task, Save, Graph
  <2> QED
    BY <1>6, <2>2 DEF MapPid, Goto, CommandTypeOK, Task, saving, engines
<1>7. CASE Increment(s)
  <2>1. loaded[s] + 1 \in 1..(MaxTask + 1)
    BY <1>7, BoundAssumption DEF CommandTypeOK
  <2> QED
    BY <1>7, <2>1 DEF Increment, Answer, Goto, CommandTypeOK, saving, engines
<1> QED
  BY <1>1, <1>2, <1>3, <1>4, <1>5, <1>6, <1>7, <1>8 DEF TaskStep

\* A step of a save, or a command that changes nothing.
LEMMA SaveTypes ==
  ASSUME CommandTypeOK, CommandOK, NEW s \in Sched,
         SaveStep(s) \/ Plain(s) \/ Replied(s)
  PROVE  CommandTypeOK'
<1>1. pc[s] \in Save => camera[s] \in Camera /\ graph_id[s] \in Nat /\ graph_id[s] \in Int
  BY DEF CommandOK, CommandTypeOK
<1>2. CASE SaveMember(s)
  BY <1>1, <1>2 DEF SaveMember, Disturbed, Goto, CommandTypeOK, Save, memory, saving, engines
<1>3. CASE OpenFile(s)
  <2>0. Torn \in Int
    BY DEF Torn
  <2>1. file' \in [Camera -> Int]
    BY <1>3, <2>0 DEF OpenFile, CommandTypeOK
  <2> QED
    BY <1>3, <2>1 DEF OpenFile, Goto, CommandTypeOK, Save, memory, engines
<1>7. CASE OpenFails(s)
  BY <1>1, <1>7 DEF OpenFails, Answer, Goto, CommandTypeOK, Save, memory, engines
<1>4. CASE Dump(s)
  <2>1. file' \in [Camera -> Int]
    BY <1>1, <1>4 DEF Dump, Torn, CommandTypeOK, Save
  <2>2. saved' \in [Camera -> Nat] /\ spoilt' \subseteq Camera
    BY <1>1, <1>4 DEF Dump, CommandTypeOK, Save
  <2> QED
    BY <1>4, <2>1, <2>2 DEF Dump, Answer, Goto, CommandTypeOK, memory, engines
<1>5. CASE Plain(s)
  <2>1. PICK code \in {200, 400} : Answer(s, code)
    BY <1>5 DEF Plain
  <2>2. answer' \in [Sched -> {0, 200, 400}]
    BY <2>1 DEF Answer, CommandTypeOK
  <2>3. pc' \in [Sched -> {"idle", "done"} \union Task \union Save]
    BY <2>1 DEF Answer, Goto, CommandTypeOK
  <2> QED
    BY <1>5, <2>2, <2>3 DEF Plain, CommandTypeOK, memory, saving, engines
<1>6. CASE Replied(s)
  BY <1>6, BoundAssumption, SMTT(20) DEF Replied, CommandTypeOK, memory, saving, engines
<1> QED
  BY <1>2, <1>3, <1>4, <1>5, <1>6, <1>7 DEF SaveStep

LEMMA BeginTypes ==
  ASSUME CommandTypeOK, CommandOK, NEW s \in Sched, NEW c \in Camera,
         BeginTask(s, c) \/ BeginSave(s, c)
  PROVE  CommandTypeOK'
<1>1. CASE BeginTask(s, c)
  <2>1. tasks' \in 0..MaxTask /\ process_num \in Nat
    BY <1>1, BoundAssumption DEF BeginTask, CommandTypeOK
  <2>2. overlapped' \in BOOLEAN
    BY <1>1 DEF BeginTask, CommandTypeOK
  <2> QED
    BY <1>1, <2>1, <2>2 DEF BeginTask, Goto, CommandTypeOK, Task, memory, saving, engines
<1>2. CASE BeginSave(s, c)
  BY <1>2, BoundAssumption, SMTT(20) DEF BeginSave, Goto, CommandTypeOK, Save, memory, engines
<1> QED
  BY <1>1, <1>2

LEMMA LoadTypes ==
  ASSUME CommandTypeOK, CommandOK, NEW g \in Graph, Load(g)
  PROVE  CommandTypeOK'
<1>1. CASE LoadFile(g)
  <2>1. file[running[g]] \in Int
    BY <1>1 DEF LoadFile, CommandTypeOK
  <2> QED
    BY <1>1, <2>1 DEF LoadFile, CommandTypeOK, command, memory, saving
<1>2. CASE LoadMember(g)
  <2>1. borders' \in (Camera \union {None}) \X Int
    BY <1>2 DEF LoadMember, Parsed, CommandTypeOK
  <2> QED
    BY <1>2, <2>1 DEF LoadMember, Disturbed, CommandTypeOK, command, memory, saving
<1>3. CASE LoadReturn(g)
  BY <1>3 DEF LoadReturn, CommandTypeOK, command, memory, saving
<1> QED
  BY <1>1, <1>2, <1>3 DEF Load

LEMMA CommandTypeStep == CommandTypeOK /\ CommandOK /\ CommandStep => CommandTypeOK'
<1> SUFFICES ASSUME CommandTypeOK, CommandOK, CommandStep PROVE CommandTypeOK'
  OBVIOUS
<1>1. CASE RestartService
  <2>1. /\ 1 \in 1..(MaxTask + 1) /\ 0 \in 0..(MaxTask + 1) /\ 0 \in 0..MaxTask
        /\ restarts + 1 \in 0..MaxRestart
    BY <1>1, BoundAssumption DEF RestartService, CommandTypeOK
  <2>2. borders' \in (Camera \union {None}) \X Int
    BY <1>1 DEF RestartService
  <2>3. spoilt' \subseteq Camera
    BY <1>1 DEF RestartService, CommandTypeOK, CommandOK, Save
  <2> QED
    BY <1>1, <2>1, <2>2, <2>3 DEF RestartService, CommandTypeOK
<1>2. CASE UNCHANGED vars
  BY <1>2 DEF vars, command, memory, saving, engines, CommandTypeOK
<1> QED
  BY <1>1, <1>2, TaskTypes, SaveTypes, BeginTypes, LoadTypes DEF CommandStep

LEMMA Numerical ==
  ASSUME CommandTypeOK
  PROVE  /\ tasks \in Nat /\ process_num \in Nat \ {0}
         /\ \A s \in Sched : loaded[s] \in Nat
BY BoundAssumption DEF CommandTypeOK

\* A step of a command that is under way changes nothing about the others.
LEMMA TaskOK ==
  ASSUME CommandTypeOK, CommandOK, NEW s \in Sched, TaskStep(s)
  PROVE  CommandOK'
<1>1. /\ Starting \in Nat /\ Starting > 0
      /\ Starting' = IF pc'[s] \in Task THEN Starting ELSE Starting - 1
  <2>1. pc[s] \in Task
    BY DEF TaskStep, OpenConfig, WriteId, WriteUrl, CreateGraph, CreateFails, GetInstance,
         GetNothing, MapPid, Increment, Task
  <2>2. \E where : Goto(s, where)
    BY DEF TaskStep, OpenConfig, WriteId, WriteUrl, CreateGraph, CreateFails, GetInstance,
         GetNothing, MapPid, Increment, Answer
  <2>3. \A where : Goto(s, where) => pc'[s] = where
    BY DEF Goto, CommandTypeOK
  <2> QED
    BY <2>1, <2>2, <2>3, StartingChanges
<1>0. /\ tasks \in Nat /\ process_num \in Nat \ {0}
      /\ \A t \in Sched : loaded[t] \in Nat
  BY Numerical
<1>9. /\ \A t \in Sched : pc[t] = "inc" => loaded[t] + Starting <= tasks + 1
      /\ process_num + Starting <= tasks + 1
  BY DEF CommandOK
<1> USE DEF CommandTypeOK, CommandOK, Goto, Answer
<1>2. CASE OpenConfig(s)
  <2>1. Starting' = Starting
    BY <1>1, <1>2 DEF OpenConfig, Task
  <2>2. name'[s] # 0 /\ \A t \in Sched \ {s} : name'[t] = name[t]
    BY <1>2 DEF OpenConfig
  <2> QED
    BY <1>2, <2>1, <2>2 DEF OpenConfig, Task, Save, memory, engines
<1>3. CASE WriteId(s) \/ WriteUrl(s)
  <2>1. Starting' = Starting
    BY <1>1, <1>3 DEF WriteId, WriteUrl, Task
  <2>2. CASE WriteId(s)
    BY <2>1, <2>2, SMTT(20) DEF WriteId, Task, Save, memory, engines
  <2>3. CASE WriteUrl(s)
    BY <2>1, <2>3, SMTT(20) DEF WriteUrl, Task, Save, memory, engines
  <2> QED
    BY <1>3, <2>2, <2>3
<1>4. CASE CreateGraph(s)
  <2>1. Starting' = Starting
    BY <1>1, <1>4 DEF CreateGraph, Task
  <2>2. \A g \in Graph : running[g] # None => running'[g] # None
    BY <1>4 DEF CreateGraph
  <2> QED
    BY <1>4, <2>1, <2>2 DEF CreateGraph, Task, Save, engines
<1>5. CASE CreateFails(s) \/ GetNothing(s)
  <2>1. Starting' = Starting - 1
    BY <1>1, <1>5 DEF CreateFails, GetNothing, Task
  <2>2. /\ \A t \in Sched : pc'[t] # "done" => pc'[t] = pc[t]
        /\ UNCHANGED <<camera, graph_id, name, loaded, tasks, memory, engines>>
    BY <1>5 DEF CreateFails, GetNothing
  <2>3. /\ \A t \in Sched : pc'[t] = "inc" => loaded'[t] + Starting' <= tasks' + 1
        /\ process_num' + Starting' <= tasks' + 1
    <3> HIDE DEF CommandTypeOK, CommandOK
    <3> QED
      BY <1>0, <1>1, <1>9, <2>1, <2>2 DEF memory
  <2> QED
    BY <2>2, <2>3 DEF Task, Save, memory, engines
<1>6. CASE GetInstance(s)
  <2>1. Starting' = Starting
    BY <1>1, <1>6 DEF GetInstance, Task
  <2> QED
    BY <1>6, <2>1, SMTT(20) DEF GetInstance, Task, Save, memory, engines
<1>7. CASE MapPid(s)
  <2>1. Starting' = Starting
    BY <1>1, <1>7 DEF MapPid, Task
  <2> QED
    BY <1>7, <2>1, SMTT(20) DEF MapPid, Task, Save, engines
<1>8. CASE Increment(s)
  <2>1. Starting' = Starting - 1
    BY <1>1, <1>8 DEF Increment, Task
  <2>2. /\ \A t \in Sched : pc'[t] # "done" => pc'[t] = pc[t]
        /\ process_num' = loaded[s] + 1
        /\ UNCHANGED <<camera, graph_id, name, loaded, tasks, running, engines>>
    BY <1>8 DEF Increment
  <2>3. /\ \A t \in Sched : pc'[t] = "inc" => loaded'[t] + Starting' <= tasks' + 1
        /\ process_num' + Starting' <= tasks' + 1
    <3> HIDE DEF CommandTypeOK, CommandOK
    <3> QED
      BY <1>0, <1>1, <1>8, <1>9, <2>1, <2>2 DEF Increment
  <2> QED
    BY <2>2, <2>3 DEF Task, Save, engines
<1> QED
  BY <1>2, <1>3, <1>4, <1>5, <1>6, <1>7, <1>8 DEF TaskStep

LEMMA SaveOK ==
  ASSUME CommandTypeOK, CommandOK, NEW s \in Sched,
         SaveStep(s) \/ Plain(s) \/ Replied(s)
  PROVE  CommandOK'
<1>1. Starting' = Starting
  <2>1. \E where \in Save \union {"idle", "done"} : Goto(s, where)
    BY DEF SaveStep, SaveMember, OpenFile, OpenFails, Dump, Plain, Replied, Answer, Goto, Save
  <2>2. pc[s] \notin Task
    BY DEF SaveStep, SaveMember, OpenFile, OpenFails, Dump, Plain, Replied, Task
  <2> QED
    BY <2>1, <2>2, StartingChanges DEF Task, Save
<1>2. /\ \E where \in Save \union {"idle", "done"} : Goto(s, where)
      /\ pc[s] \notin Task
      /\ UNCHANGED <<process_num, running, loading, tasks>>
  BY DEF SaveStep, SaveMember, OpenFile, OpenFails, Dump, Plain, Replied, Answer, Goto, Save,
       Task, memory, engines
<1>3. \/ UNCHANGED <<camera, graph_id, name, loaded>>
      \/ Replied(s)
  BY DEF SaveStep, SaveMember, OpenFile, OpenFails, Dump, Plain
<1>4. ASSUME UNCHANGED <<camera, graph_id, name, loaded>> PROVE CommandOK'
  <2>1. pc'[s] \in Save => pc[s] \in Save
    BY DEF SaveStep, SaveMember, OpenFile, OpenFails, Dump, Plain, Replied, Answer, Goto, Save,
         CommandTypeOK
  <2> QED
    BY <1>1, <1>2, <1>4, <2>1 DEF CommandOK, CommandTypeOK, Goto, Task, Save
<1>5. CASE Replied(s)
  BY <1>1, <1>2, <1>5 DEF Replied, CommandOK, CommandTypeOK, Task, Save
<1> QED
  BY <1>3, <1>4, <1>5

LEMMA BeginOK ==
  ASSUME CommandTypeOK, CommandOK, NEW s \in Sched, NEW c \in Camera,
         BeginTask(s, c) \/ BeginSave(s, c)
  PROVE  CommandOK'
<1>1. CASE BeginTask(s, c)
  <2>1. Starting \in Nat /\ Starting' = Starting + 1
    BY <1>1, StartingChanges DEF BeginTask, Task
  <2>2. process_num \in Graph
    BY <1>1, <2>1, BoundAssumption DEF BeginTask, Graph, CommandOK, CommandTypeOK
  <2>3. /\ \A t \in Sched : pc'[t] = "inc" => loaded'[t] + Starting' <= tasks' + 1
        /\ process_num' + Starting' <= tasks' + 1
    <3>1. /\ \A t \in Sched : pc'[t] = "inc" => pc[t] = "inc" /\ loaded'[t] = loaded[t]
          /\ process_num' = process_num /\ tasks' = tasks + 1
      BY <1>1 DEF BeginTask, Goto, CommandTypeOK, memory
    <3> QED
      BY <2>1, <3>1, Numerical DEF CommandOK
  <2> QED
    BY <1>1, <2>2, <2>3 DEF BeginTask, Goto, Task, Save, CommandOK, CommandTypeOK, memory, engines
<1>2. CASE BeginSave(s, c)
  <2>1. Starting' = Starting
    BY <1>2, StartingChanges DEF BeginSave, Task
  <2> QED
    BY <1>2, <2>1 DEF BeginSave, Goto, Task, Save, CommandOK, CommandTypeOK, memory, engines
<1> QED
  BY <1>1, <1>2

LEMMA CommandOKStep == CommandTypeOK /\ CommandOK /\ CommandStep => CommandOK'
<1> SUFFICES ASSUME CommandTypeOK, CommandOK, CommandStep PROVE CommandOK'
  OBVIOUS
<1>1. ASSUME NEW g \in Graph, Load(g) PROVE CommandOK'
  <2>1. Starting' = Starting /\ UNCHANGED <<command, memory, tasks>>
    BY <1>1 DEF Load, LoadFile, LoadMember, LoadReturn, Starting, command
  <2>2. \A h \in Graph : loading'[h] # "idle" => running[h] # None
    BY <1>1 DEF Load, LoadFile, LoadMember, LoadReturn, CommandOK, CommandTypeOK
  <2> QED
    BY <2>1, <2>2 DEF CommandOK, command, memory
<1>2. CASE RestartService
  <2>1. Starting' = 0
    BY <1>2, StartingAtRest DEF RestartService, Starting
  <2> QED
    BY <1>2, <2>1 DEF RestartService, CommandOK, CommandTypeOK, Task, Save
<1>3. CASE UNCHANGED vars
  <2>1. Starting' = Starting
    BY <1>3 DEF Starting, vars, command
  <2> QED
    BY <1>3, <2>1 DEF vars, command, memory, engines, CommandOK
<1> QED
  BY <1>1, <1>2, <1>3, TaskOK, SaveOK, BeginOK DEF CommandStep

\* The server, its commands and the engines keep their types, whatever fails,
\* and whenever the process is restarted.
THEOREM TypesHold == Spec => []Typed
<1>1. Typed /\ [Next]_allvars => Typed'
  BY LinkStep, StepsOfCommands, CommandTypeStep, CommandOKStep DEF Typed
<1> QED
  BY <1>1, TypedInit, PTL DEF Spec

(***************************************************************************)
(* Borders.  A save that does not find the file as it left it has met      *)
(* another, and then the camera is spoilt.                                 *)
(***************************************************************************)
Meet(s, t) == s # t /\ pc[s] \in Save /\ pc[t] \in Save /\ camera[s] = camera[t]

SavesMeet ==
    /\ \A s, t \in Sched : Meet(s, t) => camera[s] \in spoilt
    /\ \A s \in Sched : pc[s] = "dump" => file[camera[s]] = Torn \/ camera[s] \in spoilt

FilesKept == SavesMeet /\ SavedIsKept

\* What FilesKept is about changes only as saves go on and the process ends.
LEMMA FilesKeptElsewhere ==
  ASSUME FilesKept, CommandTypeOK, NEW s \in Sched,
         \A t \in Sched \ {s} : pc'[t] = pc[t] /\ camera'[t] = camera[t],
         pc[s] \notin Save, pc'[s] \notin Save, UNCHANGED saving
  PROVE  FilesKept'
BY DEF FilesKept, SavesMeet, SavedIsKept, Meet, Save, saving

LEMMA FilesKeptSave ==
  ASSUME FilesKept, CommandTypeOK, CommandOK, NEW s \in Sched, SaveStep(s)
  PROVE  FilesKept'
<1>1. camera[s] \in Camera
  BY DEF CommandOK, SaveStep, SaveMember, OpenFile, OpenFails, Dump, Save
<1>2. CASE SaveMember(s)
  BY <1>2, SMTT(20) DEF SaveMember, Goto, FilesKept, SavesMeet, SavedIsKept, Meet, Save, CommandTypeOK, saving
<1>3. CASE OpenFile(s)
  <2>1. /\ pc[s] = "file" /\ pc'[s] = "dump" /\ \A t \in Sched \ {s} : pc'[t] = pc[t]
        /\ file'[camera[s]] = Torn /\ UNCHANGED <<camera, saved, spoilt>>
        /\ \A d \in Camera \ {camera[s]} : file'[d] = file[d]
    BY <1>1, <1>3 DEF OpenFile, Goto, CommandTypeOK
  <2>2. \A r, t \in Sched : Meet(r, t)' => Meet(r, t)
    BY <2>1 DEF Meet, Save
  <2>3. \A t \in Sched : pc[t] = "dump" => camera[t] \in Camera
    BY DEF CommandOK, Save
  <2>4. SavesMeet'
    BY <2>1, <2>2, <2>3 DEF FilesKept, SavesMeet
  <2>5. SavedIsKept'
    BY <2>1 DEF FilesKept, SavedIsKept
  <2> QED
    BY <2>4, <2>5 DEF FilesKept
<1>4. CASE OpenFails(s)
  BY <1>1, <1>4 DEF OpenFails, Answer, Goto, FilesKept, SavesMeet, SavedIsKept, Meet, Save,
       CommandTypeOK
<1>5. CASE Dump(s)
  <2> DEFINE c == camera[s]
  <2>1. /\ pc[s] = "dump" /\ pc'[s] = "done" /\ camera' = camera
        /\ \A t \in Sched \ {s} : pc'[t] = pc[t]
        /\ saved'[c] = graph_id[s]
        /\ \A d \in Camera \ {c} : file'[d] = file[d] /\ saved'[d] = saved[d]
        /\ file'[c] = graph_id[s] \/ (file[c] # Torn /\ file'[c] = Torn)
        /\ spoilt' = IF file[c] = Torn /\ ~Saving({s}, c) THEN spoilt \ {c} ELSE spoilt
    BY <1>1, <1>5 DEF Dump, Answer, Goto, CommandTypeOK
  <2>2. Saving({s}, c) <=> \E t \in Sched : Meet(s, t)
    BY <2>1 DEF Saving, Meet, Save
  <2>3. SavesMeet'
    <3>1. ASSUME NEW r \in Sched, NEW t \in Sched, Meet(r, t)' PROVE camera'[r] \in spoilt'
      <4>1. Meet(r, t) /\ r # s /\ t # s
        BY <2>1, <3>1 DEF Meet, Save
      <4>2. camera[r] \in spoilt
        BY <4>1 DEF FilesKept, SavesMeet
      <4>3. camera[r] = c => Meet(s, r)
        BY <2>1, <4>1 DEF Meet, Save
      <4> QED
        BY <2>1, <2>2, <4>2, <4>3
    <3>2. ASSUME NEW t \in Sched, pc'[t] = "dump"
          PROVE  file'[camera'[t]] = Torn \/ camera'[t] \in spoilt'
      <4>1. t # s /\ pc[t] = "dump" /\ camera'[t] = camera[t] /\ camera[t] \in Camera
        BY <2>1, <3>2 DEF CommandOK, Save
      <4>2. CASE camera[t] = c
        <5>1. Meet(s, t) /\ c \in spoilt
          BY <2>1, <4>1, <4>2 DEF Meet, Save, FilesKept, SavesMeet
        <5> QED
          BY <2>1, <2>2, <4>1, <4>2, <5>1
      <4>3. CASE camera[t] # c
        BY <2>1, <4>1, <4>3 DEF FilesKept, SavesMeet
      <4> QED
        BY <4>2, <4>3
    <3> QED
      BY <3>1, <3>2 DEF SavesMeet
  <2>4. SavedIsKept'
    <3>1. ASSUME NEW d \in Camera, d # c
          PROVE  \/ d \in spoilt'
                 \/ \E t \in Sched : pc'[t] = "dump" /\ camera'[t] = d
                 \/ file'[d] = saved'[d]
      BY <2>1, <3>1 DEF FilesKept, SavedIsKept
    <3>2. c \in spoilt' \/ file'[c] = saved'[c]
      BY <2>1 DEF FilesKept, SavesMeet
    <3> QED
      BY <3>1, <3>2 DEF SavedIsKept
  <2> QED
    BY <2>3, <2>4 DEF FilesKept
<1> QED
  BY <1>2, <1>3, <1>4, <1>5 DEF SaveStep

LEMMA FilesKeptBegin ==
  ASSUME FilesKept, CommandTypeOK, NEW s \in Sched, NEW c \in Camera, BeginSave(s, c)
  PROVE  FilesKept'
<1>1. /\ pc[s] = "idle" /\ pc'[s] = "member" /\ camera'[s] = c
      /\ \A t \in Sched \ {s} : pc'[t] = pc[t] /\ camera'[t] = camera[t]
      /\ spoilt' = IF Saving({}, c) THEN spoilt \union {c} ELSE spoilt
      /\ UNCHANGED <<file, saved>>
  BY DEF BeginSave, Goto, CommandTypeOK
<1>2. \A t \in Sched : Meet(s, t)' => Saving({}, c)
  BY <1>1 DEF Meet, Saving
<1>3. \A r, t \in Sched : Meet(r, t)' => camera'[r] \in spoilt'
  BY <1>1, <1>2 DEF Meet, FilesKept, SavesMeet
<1>4. \A t \in Sched : pc'[t] = "dump" => t # s
  BY <1>1
<1> QED
  BY <1>1, <1>3, <1>4 DEF FilesKept, SavesMeet, SavedIsKept

LEMMA FilesKeptStep == Typed /\ FilesKept /\ CommandStep => FilesKept'
<1> SUFFICES ASSUME Typed, FilesKept, CommandStep PROVE FilesKept'
  OBVIOUS
<1> USE DEF Typed
<1>1. ASSUME NEW s \in Sched, TaskStep(s) \/ Plain(s) \/ Replied(s) PROVE FilesKept'
  <2>1. /\ \A t \in Sched \ {s} : pc'[t] = pc[t] /\ camera'[t] = camera[t]
        /\ pc[s] \notin Save /\ pc'[s] \notin Save /\ UNCHANGED saving
    BY <1>1, SMTT(20) DEF TaskStep, OpenConfig, WriteId, WriteUrl, CreateGraph, CreateFails, GetInstance,
         GetNothing, MapPid, Increment, Plain, Replied, Answer, Goto, Save, CommandTypeOK
  <2> QED
    BY <2>1, FilesKeptElsewhere
<1>2. ASSUME NEW s \in Sched, NEW c \in Camera, BeginTask(s, c) PROVE FilesKept'
  <2>1. /\ \A t \in Sched \ {s} : pc'[t] = pc[t] /\ camera'[t] = camera[t]
        /\ pc[s] \notin Save /\ pc'[s] \notin Save /\ UNCHANGED saving
    BY <1>2 DEF BeginTask, Goto, Save, CommandTypeOK
  <2> QED
    BY <2>1, FilesKeptElsewhere
<1>3. ASSUME NEW g \in Graph, Load(g) PROVE FilesKept'
  BY <1>3 DEF Load, LoadFile, LoadMember, LoadReturn, command, saving, FilesKept, SavesMeet,
       SavedIsKept, Meet
<1>4. CASE RestartService
  BY <1>4 DEF RestartService, FilesKept, SavesMeet, SavedIsKept, Meet, Save
<1>5. CASE UNCHANGED vars
  BY <1>5 DEF vars, command, saving, FilesKept, SavesMeet, SavedIsKept, Meet
<1> QED
  BY <1>1, <1>2, <1>3, <1>4, <1>5, FilesKeptSave, FilesKeptBegin DEF CommandStep

\* borders_ is what the last load has put there, while nobody else writes it.
LEMMA OwnBordersStep == Typed /\ OwnBorders /\ CommandStep => OwnBorders'
<1> SUFFICES ASSUME Typed, OwnBorders, CommandStep PROVE OwnBorders'
  OBVIOUS
<1> USE DEF Typed
<1>1. ASSUME NEW s \in Sched, CreateGraph(s) PROVE OwnBorders'
  <2>1. \A g \in Graph : loading[g] # "idle" => running'[g] = running[g]
    BY <1>1 DEF CreateGraph, CommandOK, CommandTypeOK
  <2> QED
    BY <1>1, <2>1 DEF CreateGraph, OwnBorders, engines
<1>2. ASSUME NEW s \in Sched, SaveMember(s) PROVE OwnBorders'
  BY <1>2 DEF SaveMember, Disturbed, OwnBorders, memory, engines
<1>3. ASSUME NEW g \in Graph, Load(g) PROVE OwnBorders'
  <2>1. CASE LoadFile(g)
    BY <2>1 DEF LoadFile, OwnBorders, CommandTypeOK, memory
  <2>2. CASE LoadMember(g)
    <3>1. /\ borders' = <<running[g], Parsed(text[g])>>
          /\ \A h \in Graph \ {g} : loading'[h] = "use" => h \in crossed'
          /\ UNCHANGED <<running, text>>
      BY <2>2 DEF LoadMember, Disturbed, CommandTypeOK, memory
    <3> QED
      BY <3>1 DEF OwnBorders
  <2>3. CASE LoadReturn(g)
    BY <2>3 DEF LoadReturn, OwnBorders, CommandTypeOK, memory
  <2> QED
    BY <1>3, <2>1, <2>2, <2>3 DEF Load
<1>4. CASE RestartService
  BY <1>4 DEF RestartService, OwnBorders
<1>5. ASSUME UNCHANGED <<running, borders, crossed, engines>> PROVE OwnBorders'
  BY <1>5 DEF OwnBorders, engines
<1>6. ASSUME NEW s \in Sched, TaskStep(s), ~CreateGraph(s) PROVE OwnBorders'
  BY <1>5, <1>6 DEF TaskStep, OpenConfig, WriteId, WriteUrl, CreateFails, GetInstance,
       GetNothing, MapPid, Increment, memory
<1>7. ASSUME NEW s \in Sched, SaveStep(s), ~SaveMember(s) PROVE OwnBorders'
  BY <1>5, <1>7 DEF SaveStep, OpenFile, OpenFails, Dump, memory
<1>8. ASSUME NEW s \in Sched, NEW c \in Camera, BeginTask(s, c) \/ BeginSave(s, c) PROVE OwnBorders'
  BY <1>5, <1>8 DEF BeginTask, BeginSave, memory
<1>9. ASSUME NEW s \in Sched, Plain(s) \/ Replied(s) PROVE OwnBorders'
  BY <1>5, <1>9 DEF Plain, Replied, memory
<1>10. CASE UNCHANGED vars
  BY <1>5, <1>10 DEF vars, memory
<1> QED
  BY <1>1, <1>2, <1>3, <1>4, <1>6, <1>7, <1>8, <1>9, <1>10 DEF CommandStep

\* Whatever is restarted or cut short: the file of a camera holds what was last
\* answered 200 for, unless its saves met, and a load that nobody disturbs
\* returns the borders of its own camera (BordersLoader::save, load).
THEOREM BordersHold == Spec => []BordersAreRight
<1>1. ServerInit => FilesKept /\ OwnBorders
  BY DEF ServerInit, Init, Fresh, FilesKept, SavesMeet, SavedIsKept, Meet, OwnBorders, Save
<1>2. Typed /\ FilesKept /\ OwnBorders /\ [Next]_allvars => FilesKept' /\ OwnBorders'
  BY StepsOfCommands, FilesKeptStep, OwnBordersStep DEF Typed
<1>3. FilesKept /\ OwnBorders => BordersAreRight
  BY DEF FilesKept, BordersAreRight
<1> QED
  BY <1>1, <1>2, <1>3, TypesHold, PTL DEF Spec

(***************************************************************************)
(* Graphs.  Unless two set_egbd_task overlap, the one that runs is alone   *)
(* with process_num: its file, its graph and its id are all that number.   *)
(***************************************************************************)
Alone == \A s, t \in Sched : pc[s] \in Task /\ pc[t] \in Task => s = t

\* The graph of the command runs, but its number is still process_num.
Started(s) == pc[s] \in {"get", "map", "inc"}

\* What the command has done so far.
DoneSoFar(s) ==
    /\ pc[s] \in Task => graph_id[s] = process_num
    /\ pc[s] \in {"id", "url", "create"} =>
          /\ name[s] = process_num
          /\ config[process_num].id = IF pc[s] = "id" THEN 0 ELSE process_num
          /\ config[process_num].camera = IF pc[s] = "create" THEN camera[s] ELSE None
    /\ Started(s) => running[process_num] = camera[s]
    /\ pc[s] = "inc" => loaded[s] = process_num /\ pidMap[camera[s]] = process_num

RunningAreNumbered ==
    \A g \in Graph : running[g] # None <=>
        g < process_num \/ (g = process_num /\ \E s \in Sched : Started(s))

\* pidMap has the last graph of camera c, or is about to get it.
MapIsRight(c) ==
    \A g \in Graph : running[g] = c =>
        \/ pidMap[c] >= g /\ running[pidMap[c]] = c
        \/ g = process_num /\ \E s \in Sched : pc[s] \in {"get", "map"} /\ camera[s] = c

GraphsKept ==
    ~overlapped =>
        /\ Alone /\ (\A s \in Sched : DoneSoFar(s))
        /\ RunningAreNumbered /\ \A c \in Camera : MapIsRight(c)

\* A step of anything else: the commands that start graphs stay where they are.
LEMMA GraphsKeptElsewhere ==
  ASSUME CommandTypeOK, GraphsKept, overlapped' = overlapped,
         UNCHANGED <<process_num, pidMap, running, config>>,
         \A t \in Sched : /\ pc[t] \in Task <=> pc'[t] \in Task
                          /\ pc[t] \in Task => /\ pc'[t] = pc[t] /\ camera'[t] = camera[t]
                                               /\ graph_id'[t] = graph_id[t]
                                               /\ name'[t] = name[t] /\ loaded'[t] = loaded[t]
  PROVE  GraphsKept'
<1> SUFFICES ASSUME ~overlapped
             PROVE  /\ Alone' /\ (\A s \in Sched : DoneSoFar(s)')
                    /\ RunningAreNumbered' /\ \A c \in Camera : MapIsRight(c)'
  BY DEF GraphsKept
<1>1. Alone /\ (\A s \in Sched : DoneSoFar(s)) /\ RunningAreNumbered
      /\ \A c \in Camera : MapIsRight(c)
  BY DEF GraphsKept
<1>2. Alone'
  BY <1>1 DEF Alone
<1>3. \A s \in Sched : Started(s)' <=> Started(s)
  BY DEF Started, Task
<1>4. \A s \in Sched : DoneSoFar(s)'
  BY <1>1, <1>3 DEF DoneSoFar, Started, Task
<1>5. RunningAreNumbered'
  BY <1>1, <1>3 DEF RunningAreNumbered
<1>6. \A s \in Sched : pc[s] \in {"get", "map"} => pc'[s] = pc[s] /\ camera'[s] = camera[s]
  BY DEF Task
<1>7. \A c \in Camera : MapIsRight(c)'
  BY <1>1, <1>6 DEF MapIsRight
<1> QED
  BY <1>2, <1>4, <1>5, <1>7

\* The command that runs is alone, so that what holds of all holds of it.
LEMMA GraphsKeptAlone ==
  ASSUME CommandTypeOK, GraphsKept, ~overlapped, NEW s \in Sched, pc[s] \in Task
  PROVE  /\ \A t \in Sched \ {s} : pc[t] \notin Task
         /\ DoneSoFar(s)
         /\ \A g \in Graph : running[g] # None <=>
               g < process_num \/ (g = process_num /\ Started(s))
         /\ \A c \in Camera : \A g \in Graph : running[g] = c =>
               \/ pidMap[c] >= g /\ running[pidMap[c]] = c
               \/ g = process_num /\ pc[s] \in {"get", "map"} /\ camera[s] = c
<1>1. \A t \in Sched \ {s} : pc[t] \notin Task
  BY DEF GraphsKept, Alone
<1>2. \A t \in Sched \ {s} : ~Started(t) /\ pc[t] \notin {"get", "map"}
  BY <1>1 DEF Started, Task
<1> QED
  BY <1>1, <1>2 DEF GraphsKept, RunningAreNumbered, MapIsRight

\* And back.
LEMMA AloneSuffices ==
  ASSUME NEW s \in Sched, \A t \in Sched \ {s} : pc'[t] \notin Task,
         DoneSoFar(s)',
         \A g \in Graph : running'[g] # None <=>
               g < process_num' \/ (g = process_num' /\ Started(s)'),
         \A c \in Camera : \A g \in Graph : running'[g] = c =>
               \/ pidMap'[c] >= g /\ running'[pidMap'[c]] = c
               \/ g = process_num' /\ pc'[s] \in {"get", "map"} /\ camera'[s] = c
  PROVE  GraphsKept'
<1>1. Alone'
  BY DEF Alone
<1>2. \A t \in Sched \ {s} : ~Started(t)'
  BY DEF Started, Task
<1>3. \A t \in Sched : DoneSoFar(t)'
  BY <1>2 DEF DoneSoFar, Task
<1>4. RunningAreNumbered'
  BY <1>2 DEF RunningAreNumbered
<1>5. \A c \in Camera : MapIsRight(c)'
  BY DEF MapIsRight
<1> QED
  BY <1>1, <1>3, <1>4, <1>5 DEF GraphsKept

LEMMA GraphsKeptTask ==
  ASSUME CommandTypeOK, CommandOK, GraphsKept, NEW s \in Sched, TaskStep(s)
  PROVE  GraphsKept'
<1> SUFFICES ASSUME ~overlapped PROVE GraphsKept'
  BY DEF GraphsKept, TaskStep, OpenConfig, WriteId, WriteUrl, CreateGraph, CreateFails,
       GetInstance, GetNothing, MapPid, Increment
<1>1. pc[s] \in Task
  BY DEF TaskStep, OpenConfig, WriteId, WriteUrl, CreateGraph, CreateFails, GetInstance,
       GetNothing, MapPid, Increment, Task
<1>2. /\ \A t \in Sched \ {s} : pc[t] \notin Task
      /\ DoneSoFar(s)
      /\ \A g \in Graph : running[g] # None <=>
            g < process_num \/ (g = process_num /\ Started(s))
      /\ \A c \in Camera : \A g \in Graph : running[g] = c =>
            \/ pidMap[c] >= g /\ running[pidMap[c]] = c
            \/ g = process_num /\ pc[s] \in {"get", "map"} /\ camera[s] = c
  BY <1>1, GraphsKeptAlone
<1>3. \A t \in Sched \ {s} : pc'[t] \notin Task
  BY <1>2 DEF TaskStep, OpenConfig, WriteId, WriteUrl, CreateGraph, CreateFails, GetInstance,
       GetNothing, MapPid, Increment, Answer, Goto, CommandTypeOK
<1>4. /\ graph_id[s] = process_num /\ process_num \in Graph /\ process_num \in 1..(MaxTask + 1)
      /\ camera[s] \in Camera /\ camera[s] # None
      /\ Graph \subseteq Nat /\ 0 \notin Graph
  BY <1>1, <1>2, CameraAssumption DEF DoneSoFar, CommandOK, CommandTypeOK, Graph
\* Only the file and the place of the command change.
<1>5. ASSUME UNCHANGED <<process_num, pidMap, running>>, DoneSoFar(s)',
             Started(s)' <=> Started(s),
             pc[s] \in {"get", "map"} => pc'[s] \in {"get", "map"} /\ camera'[s] = camera[s]
      PROVE  GraphsKept'
  BY <1>2, <1>3, <1>5, AloneSuffices
<1>6. CASE OpenConfig(s)
  <2>1. DoneSoFar(s)'
    BY <1>2, <1>4, <1>6 DEF OpenConfig, Goto, DoneSoFar, Started, Task, Blank, CommandTypeOK, memory
  <2> QED
    BY <1>5, <1>6, <2>1 DEF OpenConfig, Goto, Started, CommandTypeOK, memory
<1>7. CASE WriteId(s) \/ WriteUrl(s)
  <2>1. config[process_num] \in FileType
    BY <1>4 DEF CommandTypeOK
  <2>2. ASSUME WriteId(s) PROVE DoneSoFar(s)'
    <3>1. /\ pc[s] = "id" /\ pc'[s] = "url" /\ name[s] = process_num
          /\ config'[process_num] = [config[process_num] EXCEPT !.id = process_num]
          /\ UNCHANGED <<camera, graph_id, name, process_num>>
      BY <1>2, <1>4, <2>2 DEF WriteId, Goto, DoneSoFar, CommandTypeOK, memory
    <3> QED
      BY <1>2, <1>4, <2>1, <3>1 DEF DoneSoFar, Started, FileType
  <2>3. ASSUME WriteUrl(s) PROVE DoneSoFar(s)'
    <3>1. /\ pc[s] = "url" /\ pc'[s] = "create" /\ name[s] = process_num
          /\ config'[process_num] = [config[process_num] EXCEPT !.camera = camera[s]]
          /\ UNCHANGED <<camera, graph_id, name, process_num>>
      BY <1>2, <1>4, <2>3 DEF WriteUrl, Goto, DoneSoFar, CommandTypeOK, memory
    <3> QED
      BY <1>2, <1>4, <2>1, <3>1 DEF DoneSoFar, Started, FileType
  <2>4. DoneSoFar(s)'
    BY <1>7, <2>2, <2>3
  <2> QED
    BY <1>5, <1>7, <2>4 DEF WriteId, WriteUrl, Goto, Started, CommandTypeOK, memory
<1>8. CASE CreateGraph(s)
  <2>1. /\ pc[s] = "create" /\ pc'[s] = "get"
        /\ running' = [running EXCEPT ![process_num] = camera[s]]
        /\ running[process_num] = None
        /\ UNCHANGED <<camera, graph_id, process_num, pidMap>>
    BY <1>2, <1>4, <1>8 DEF CreateGraph, Goto, DoneSoFar, CommandTypeOK
  <2>2. /\ running'[process_num] = camera[s]
        /\ \A g \in Graph \ {process_num} : running'[g] = running[g]
    BY <1>4, <2>1 DEF CommandTypeOK
  <2>3. DoneSoFar(s)'
    BY <1>4, <2>1, <2>2 DEF DoneSoFar, Started
  <2>4. \A g \in Graph : running'[g] # None <=>
            g < process_num' \/ (g = process_num' /\ Started(s)')
    BY <1>2, <1>4, <2>1, <2>2 DEF Started
  <2>5. ASSUME NEW c \in Camera, NEW g \in Graph, running'[g] = c, g # process_num
        PROVE  pidMap[c] >= g /\ running'[pidMap[c]] = c
    <3>1. pidMap[c] >= g /\ running[pidMap[c]] = c
      BY <1>2, <2>1, <2>2, <2>5
    <3>2. pidMap[c] \in Graph /\ pidMap[c] # process_num
      <4>1. pidMap[c] \in 0..MaxTask /\ g \in 1..MaxTask
        BY DEF CommandTypeOK, Graph
      <4>2. pidMap[c] \in Graph
        BY <3>1, <4>1, BoundAssumption DEF Graph
      <4> QED
        BY <2>1, <3>1, <4>2, CameraAssumption
    <3> QED
      BY <2>2, <3>1, <3>2
  <2> QED
    BY <1>3, <2>1, <2>2, <2>3, <2>4, <2>5, AloneSuffices
<1>9. CASE CreateFails(s)
  <2>1. DoneSoFar(s)'
    BY <1>9 DEF CreateFails, Answer, Goto, DoneSoFar, Started, Task, CommandTypeOK
  <2> QED
    BY <1>5, <1>9, <2>1 DEF CreateFails, Answer, Goto, Started, CommandTypeOK, memory
<1>10. CASE GetInstance(s)
  <2>1. DoneSoFar(s)'
    BY <1>2, <1>10 DEF GetInstance, Goto, DoneSoFar, Started, Task, CommandTypeOK, memory
  <2> QED
    BY <1>5, <1>10, <2>1 DEF GetInstance, Goto, Started, CommandTypeOK, memory
\* The graph that was just created is found.
<1>11. CASE GetNothing(s)
  BY <1>2, <1>4, <1>11 DEF GetNothing, DoneSoFar, Started
<1>12. CASE MapPid(s)
  <2>1. /\ pc[s] = "map" /\ pc'[s] = "inc" /\ loaded'[s] = process_num
        /\ pidMap'[camera[s]] = process_num
        /\ \A c \in Camera \ {camera[s]} : pidMap'[c] = pidMap[c]
        /\ UNCHANGED <<camera, graph_id, process_num, running>>
    BY <1>4, <1>12 DEF MapPid, Goto, CommandTypeOK
  <2>2. DoneSoFar(s)' /\ (Started(s)' <=> Started(s))
    BY <1>2, <1>4, <2>1 DEF DoneSoFar, Started
  <2>3. running[process_num] = camera[s]
    BY <1>2, <2>1 DEF DoneSoFar, Started
  <2>4. \A g \in Graph : running[g] # None => process_num >= g
    BY <1>2, <1>4
  <2>5. \A c \in Camera : \A g \in Graph : running'[g] = c =>
            pidMap'[c] >= g /\ running'[pidMap'[c]] = c
    BY <1>2, <2>1, <2>3, <2>4, CameraAssumption
  <2> QED
    BY <1>2, <1>3, <2>1, <2>2, <2>5, AloneSuffices
<1>13. CASE Increment(s)
  <2>1. /\ pc[s] = "inc" /\ pc'[s] = "done" /\ process_num' = process_num + 1
        /\ UNCHANGED <<pidMap, running>>
    BY <1>2, <1>13 DEF Increment, Answer, Goto, DoneSoFar, CommandTypeOK
  <2>2. DoneSoFar(s)' /\ ~Started(s)' /\ Started(s)
    BY <2>1 DEF DoneSoFar, Started, Task
  <2>3. \A g \in Graph : g < process_num' <=> g < process_num \/ g = process_num
    BY <1>4, <2>1
  <2> QED
    BY <1>2, <1>3, <2>1, <2>2, <2>3, AloneSuffices
<1> QED
  BY <1>6, <1>7, <1>8, <1>9, <1>10, <1>11, <1>12, <1>13 DEF TaskStep

LEMMA GraphsKeptInit == ServerInit => GraphsKept
<1> SUFFICES ASSUME ServerInit PROVE GraphsKept
  OBVIOUS
<1>1. /\ \A s \in Sched : pc[s] = "idle"
      /\ process_num = 1 /\ \A g \in Graph : running[g] = None
  BY DEF ServerInit, Init, Fresh
<1> QED
  BY <1>1, CameraAssumption DEF GraphsKept, Alone, DoneSoFar, RunningAreNumbered, MapIsRight,
     Started, Task, Graph

LEMMA GraphsKeptStep == Typed /\ GraphsKept /\ CommandStep => GraphsKept'
<1> SUFFICES ASSUME CommandTypeOK, CommandOK, GraphsKept, CommandStep PROVE GraphsKept'
  BY DEF Typed
<1>1. ASSUME NEW s \in Sched, SaveStep(s) \/ Plain(s) \/ Replied(s) PROVE GraphsKept'
  <2>1. /\ pc[s] \notin Task /\ pc'[s] \notin Task
        /\ \A t \in Sched \ {s} : pc'[t] = pc[t]
    <3>1. /\ pc[s] \in Save \union {"idle", "done"}
          /\ \E where \in Save \union {"idle", "done"} : pc' = [pc EXCEPT ![s] = where]
      BY <1>1 DEF SaveStep, SaveMember, OpenFile, OpenFails, Dump, Plain, Replied, Answer, Goto, Save
    <3>2. pc'[s] \in Save \union {"idle", "done"} /\ \A t \in Sched \ {s} : pc'[t] = pc[t]
      BY <3>1 DEF CommandTypeOK
    <3> QED
      BY <3>1, <3>2 DEF Task, Save
  <2>2. /\ \A t \in Sched \ {s} : /\ camera'[t] = camera[t] /\ graph_id'[t] = graph_id[t]
                                   /\ name'[t] = name[t] /\ loaded'[t] = loaded[t]
        /\ UNCHANGED <<process_num, pidMap, running, config, overlapped>>
    BY <1>1 DEF SaveStep, SaveMember, OpenFile, OpenFails, Dump, Plain, Replied, CommandTypeOK, memory
  <2> QED
    BY <2>1, <2>2, GraphsKeptElsewhere
<1>2. ASSUME NEW s \in Sched, NEW c \in Camera, BeginSave(s, c) PROVE GraphsKept'
  <2>1. /\ pc[s] \notin Task /\ pc'[s] \notin Task
        /\ \A t \in Sched \ {s} : pc'[t] = pc[t] /\ camera'[t] = camera[t]
              /\ graph_id'[t] = graph_id[t] /\ name'[t] = name[t] /\ loaded'[t] = loaded[t]
        /\ UNCHANGED <<process_num, pidMap, running, config, overlapped>>
    BY <1>2 DEF BeginSave, Goto, Task, CommandTypeOK, memory
  <2> QED
    BY <2>1, GraphsKeptElsewhere
<1>3. ASSUME NEW s \in Sched, NEW c \in Camera, BeginTask(s, c) PROVE GraphsKept'
  <2> SUFFICES ASSUME ~overlapped' PROVE GraphsKept'
    BY DEF GraphsKept
  <2>1. ~overlapped /\ \A t \in Sched : pc[t] \notin Task
    BY <1>3 DEF BeginTask, CommandTypeOK
  <2>2. /\ pc'[s] = "open" /\ graph_id'[s] = process_num
        /\ \A t \in Sched \ {s} : pc'[t] = pc[t]
        /\ UNCHANGED <<process_num, pidMap, running>>
    BY <1>3 DEF BeginTask, Goto, CommandTypeOK, memory
  <2>3. \A t \in Sched : ~Started(t) /\ pc[t] \notin {"get", "map"}
    BY <2>1 DEF Started, Task
  <2>4. DoneSoFar(s)' /\ ~Started(s)'
    BY <2>2 DEF DoneSoFar, Started
  <2>5. RunningAreNumbered /\ \A c2 \in Camera : MapIsRight(c2)
    BY <2>1 DEF GraphsKept
  <2>6. \A g \in Graph : running'[g] # None <=> g < process_num'
    BY <2>2, <2>3, <2>5 DEF RunningAreNumbered
  <2>7. \A c2 \in Camera : \A g \in Graph : running'[g] = c2 =>
            pidMap'[c2] >= g /\ running'[pidMap'[c2]] = c2
    BY <2>2, <2>3, <2>5 DEF MapIsRight
  <2> QED
    BY <2>1, <2>2, <2>4, <2>6, <2>7, AloneSuffices
<1>4. ASSUME NEW g \in Graph, Load(g) PROVE GraphsKept'
  BY <1>4, GraphsKeptElsewhere DEF Load, LoadFile, LoadMember, LoadReturn, command, memory
<1>5. CASE RestartService
  <2>1. \A s \in Sched : pc'[s] = "idle"
    BY <1>5 DEF RestartService
  <2>2. process_num' = 1 /\ \A g \in Graph : running'[g] = None
    BY <1>5 DEF RestartService
  <2> QED
    BY <2>1, <2>2, CameraAssumption DEF GraphsKept, Alone, DoneSoFar, RunningAreNumbered,
         MapIsRight, Started, Task, Graph
<1>6. CASE UNCHANGED vars
  BY <1>6, GraphsKeptElsewhere DEF vars, command, memory
<1> QED
  BY <1>1, <1>2, <1>3, <1>4, <1>5, <1>6, GraphsKeptTask DEF CommandStep

LEMMA GraphsKeptIsEnough == Typed /\ GraphsKept => GraphsAreNumbered
<1> SUFFICES ASSUME Typed, GraphsKept, ~overlapped PROVE GraphsAreNumbered
  BY DEF GraphsAreNumbered
<1>1. \A s \in Sched : pc[s] \in {"map", "inc"} => running[graph_id[s]] = camera[s]
  BY DEF GraphsKept, DoneSoFar, Started, Task
<1>2. ASSUME Resting PROVE \A s \in Sched : ~Started(s) /\ pc[s] \notin {"get", "map"}
  BY <1>2 DEF Resting, Started, Task
<1> QED
  BY <1>1, <1>2 DEF GraphsKept, RunningAreNumbered, MapIsRight, GraphsAreNumbered

\* While set_egbd_task never runs twice at a time, every graph is the one that
\* was asked for, ids are used once and without gaps whatever fails, and pidMap
\* has the last graph of each camera (DeServImpl::set_egbd_task).
THEOREM GraphsHold == Spec => []GraphsAreNumbered
<1>1. Typed /\ GraphsKept /\ [Next]_allvars => GraphsKept'
  BY StepsOfCommands, GraphsKeptStep DEF Typed
<1> QED
  BY <1>1, GraphsKeptInit, GraphsKeptIsEnough, TypesHold, PTL DEF Spec

=============================================================================
