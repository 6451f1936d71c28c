------------------------------- MODULE RpcServer -------------------------------
(***************************************************************************)
(* The rpc server: every connection is a coroutine of some scheduler       *)
(* (ServerImpl::on_connection) that lets the client authenticate, then     *)
(* reads a request, runs the command (module DeServ) and sends the answer, *)
(* until the client leaves, something fails, or the connection is idle     *)
(* while there are too many.                                               *)
(*                                                                         *)
(* A coroutine gives its scheduler up when it waits for the socket, and    *)
(* not while the command runs.                                             *)
(***************************************************************************)
EXTENDS DeServ

CONSTANTS
    Conn,       \* the connections
    Trusted,    \* those whose client knows the password
    HasPasswd,  \* whether the server may have a password
    MaxIdle,    \* rpc_max_idle_conn
    MaxCall     \* how many commands are sent (a bound)

\* Connections are descriptors of the process: there are finitely many.
ASSUME ConnAssumption ==
    IsFiniteSet(Conn) /\ Trusted \subseteq Conn /\ HasPasswd \subseteq BOOLEAN
ASSUME IdleAssumption == MaxIdle \in Nat /\ MaxCall \in Nat

VARIABLES
    passwd,     \* ServerImpl::_passwd is not empty
    st,         \* where the coroutine of each connection has got to
    on,         \* the scheduler it runs on
    skewed,     \* part of a header was thrown away: the next one is garbage
    conn_num,   \* ServerImpl::_conn_num
    calls       \* number of commands sent

link == <<passwd, st, on, skewed, conn_num, calls>>
allvars == <<link, vars>>

Counted == {"header", "body", "call", "idle", "reset"}

ServerInit ==
    /\ Init
    /\ passwd \in HasPasswd
    /\ st = [c \in Conn |-> "none"]
    /\ on = [c \in Conn |-> None]
    /\ skewed = {}
    /\ conn_num = 0
    /\ calls = 0

\* The coroutine of c can run: its scheduler is neither in a command nor about
\* to close an idle connection.
Free(c) ==
    /\ on[c] # None
    /\ pc[on[c]] = "idle"
    /\ \A d \in Conn \ {c} : ~(on[d] = on[c] /\ st[d] = "idle")

Move(c, from, to) ==
    /\ Free(c)
    /\ st[c] = from
    /\ st' = [st EXCEPT ![c] = to]

-----------------------------------------------------------------------------
\* ServerImpl::loop: a connection is accepted, and a coroutine is made for it.
Accept(c) ==
    /\ st[c] = "none"
    /\ st' = [st EXCEPT ![c] = "new"]
    /\ \E s \in Sched : on' = [on EXCEPT ![c] = s]
    /\ UNCHANGED <<passwd, skewed, conn_num, calls, vars>>

\* on_connection starts: the client must authenticate if there is a password.
Begin(c) ==
    /\ Move(c, "new", IF passwd THEN "auth" ELSE "header")
    /\ conn_num' = IF passwd THEN conn_num ELSE conn_num + 1
    /\ UNCHANGED <<passwd, on, skewed, calls, vars>>

\* auth: the first request has asked for a challenge, which is sent.
Challenge(c) ==
    /\ Move(c, "auth", "answer")
    /\ UNCHANGED <<passwd, on, skewed, conn_num, calls, vars>>

\* auth: the answer holds the md5 of the password and the nonce.
AuthOk(c) ==
    /\ c \in Trusted
    /\ Move(c, "answer", "header")
    /\ conn_num' = conn_num + 1
    /\ UNCHANGED <<passwd, on, skewed, calls, vars>>

\* auth: a wrong answer, another method, an error or a timeout.  The connection
\* is reset three seconds later, without having been counted.
AuthFails(c) ==
    /\ \E from \in {"auth", "answer"} : Move(c, from, "refused")
    /\ UNCHANGED <<passwd, on, skewed, conn_num, calls, vars>>

Refuse(c) ==
    /\ Move(c, "refused", "closed")
    /\ UNCHANGED <<passwd, on, skewed, conn_num, calls, vars>>

\* on_connection: a header is read.
Header(c) ==
    /\ c \notin skewed
    /\ Move(c, "header", "body")
    /\ UNCHANGED <<passwd, on, skewed, conn_num, calls, vars>>

\* on_connection: no header for rpc_conn_idle_sec.  What recvn has read of one
\* is thrown away.
IdleTimeout(c) ==
    /\ conn_num <= MaxIdle
    /\ Move(c, "header", "header")
    /\ skewed' = skewed \union {c}
    /\ UNCHANGED <<passwd, on, conn_num, calls, vars>>

\* on_connection: no header for rpc_conn_idle_sec, and too many connections.
IdleClose(c) ==
    /\ conn_num > MaxIdle
    /\ Move(c, "header", "idle")
    /\ UNCHANGED <<passwd, on, skewed, conn_num, calls, vars>>

\* Mutant of Close: a connection closed for being idle stays counted.
CloseKeep(c) ==
    /\ \/ Move(c, "header", "closed") \/ Move(c, "body", "closed")
       \/ Move(c, "idle", "closed") \/ Move(c, "reset", "closed")
    /\ conn_num' = IF st[c] = "idle" THEN conn_num ELSE conn_num - 1
    /\ UNCHANGED <<passwd, on, skewed, calls, vars>>

\* on_connection: the client has closed the connection, or it is closed for
\* being idle, or three seconds after an error.
Close(c) ==
    /\ \/ Move(c, "header", "closed") \/ Move(c, "body", "closed")
       \/ Move(c, "idle", "closed") \/ Move(c, "reset", "closed")
    /\ conn_num' = conn_num - 1
    /\ UNCHANGED <<passwd, on, skewed, calls, vars>>

\* on_connection: an error, a bad header, a message too long, late or unreadable.
Fail(c) ==
    /\ \E from \in {"header", "body"} : Move(c, from, "reset")
    /\ UNCHANGED <<passwd, on, skewed, conn_num, calls, vars>>

\* on_connection: the request is read, and Service::process is called.
Call(c) ==
    /\ calls < MaxCall
    /\ calls' = calls + 1
    /\ Move(c, "body", "call")
    /\ \/ \E cam \in Camera : BeginTask(on[c], cam) \/ BeginSave(on[c], cam)
       \/ Plain(on[c])
    /\ UNCHANGED <<passwd, on, skewed, conn_num>>

\* on_connection: the answer is sent, and the next request awaited; or sending
\* fails.
Reply(c) ==
    /\ st[c] = "call"
    /\ pc[on[c]] = "done"
    /\ pc' = [pc EXCEPT ![on[c]] = "idle"]
    /\ camera' = [camera EXCEPT ![on[c]] = None]
    /\ graph_id' = [graph_id EXCEPT ![on[c]] = 0]
    /\ name' = [name EXCEPT ![on[c]] = 0]
    /\ loaded' = [loaded EXCEPT ![on[c]] = 0]
    /\ answer' = [answer EXCEPT ![on[c]] = 0]
    /\ \E to \in {"header", "reset"} : st' = [st EXCEPT ![c] = to]
    /\ UNCHANGED <<passwd, on, skewed, conn_num, calls, memory, borders, config,
                   saving, engines, tasks, overlapped, crossed, restarts>>

\* The process ends, and with it the connections; clients connect again.
Restart ==
    /\ RestartService
    /\ st' = [c \in Conn |-> "none"]
    /\ on' = [c \in Conn |-> None]
    /\ skewed' = {}
    /\ conn_num' = 0
    /\ UNCHANGED <<passwd, calls>>

Connection(c) ==
    \/ Accept(c) \/ Begin(c)
    \/ Challenge(c) \/ AuthOk(c) \/ AuthFails(c) \/ Refuse(c)
    \/ Header(c) \/ IdleTimeout(c) \/ IdleClose(c) \/ Close(c) \/ Fail(c)
    \/ Call(c) \/ Reply(c)

Command(s) == TaskStep(s) \/ SaveStep(s)

Next ==
    \/ \E c \in Conn : Connection(c)
    \/ \E s \in Sched : Command(s) /\ UNCHANGED link
    \/ \E g \in Graph : Load(g) /\ UNCHANGED link
    \/ Restart

Spec == ServerInit /\ [][Next]_allvars

-----------------------------------------------------------------------------
(* _conn_num is the number of connections that are served, in whichever of *)
(* the many ways they end: it decides which idle ones are closed.          *)
ConnNumIsRight ==
    conn_num = Cardinality({c \in Conn : st[c] \in Counted})

=============================================================================
