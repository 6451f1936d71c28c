-------------------------------- MODULE DeServ --------------------------------
(***************************************************************************)
(* The commands of the server, as the threads of the schedulers run them   *)
(* (DeServImpl), the file of borders of each camera (BordersLoader), and   *)
(* the engines that load it for every frame.  A command does not yield to  *)
(* another coroutine of its scheduler, but two schedulers may run commands *)
(* at the same time: every access to what they share is a step of its own. *)
(*                                                                         *)
(* A camera stands for its rtsp_url and its ip.  Borders are their version *)
(* number: the first ones sent to the server are 1.                        *)
(*                                                                         *)
(* Module RpcServer has the connections the commands come from, and the    *)
(* next-state relation.                                                    *)
(***************************************************************************)
EXTENDS Integers, FiniteSets

CONSTANTS
    Sched,      \* the schedulers, each a thread
    Camera,     \* the cameras
    MaxTask,    \* how many set_egbd_task are called (a bound)
    MaxSave,    \* how many set_border_info (a bound)
    MaxRestart  \* how often the process is restarted (a bound)

ASSUME BoundAssumption == MaxTask \in Nat /\ MaxSave \in Nat /\ MaxRestart \in Nat

None == "none"      \* no camera, no scheduler
Torn == -1          \* a file that is being written, or that two have written
Graph == 1..MaxTask \* GRAPH_ID - 100
Blank == [id |-> 0, camera |-> None]

\* The schedulers are made once, as many as FLG_co_sched_num says.
ASSUME SchedAssumption == IsFiniteSet(Sched) /\ None \notin Sched
ASSUME CameraAssumption == None \notin Camera

VARIABLES
    (***********************************************************************)
    (* The commands.                                                       *)
    (***********************************************************************)
    pc,             \* where the command of each scheduler has got to
    camera,         \* the camera it is about
    graph_id,       \* GRAPH_ID - 100, or the version of the borders to save
    name,           \* which graphN.config it writes
    loaded,         \* the value of process_num it is about to increment
    answer,         \* the code it answers, None if the answer has none
    (***********************************************************************)
    (* What the commands share in memory.                                  *)
    (***********************************************************************)
    process_num,    \* DeServImpl::process_num
    pidMap,         \* DeServImpl::pidMap, 0 for a camera it lacks
    running,        \* the graphs that run, and the camera of each
    borders,        \* BordersLoader::borders_: a camera and a version
    (***********************************************************************)
    (* The files, which survive the process.                               *)
    (***********************************************************************)
    config,         \* the files graphN.config
    file,           \* the file of borders of each camera
    (***********************************************************************)
    (* DstEngine of each graph.                                            *)
    (***********************************************************************)
    loading,        \* where BordersLoader::load has got to
    text,           \* the version it has read
    (***********************************************************************)
    (* What has happened.                                                  *)
    (***********************************************************************)
    tasks,          \* number of set_egbd_task called
    saves,          \* number of set_border_info called
    saved,          \* the newest version the server has answered 200 for
    overlapped,     \* two set_egbd_task have run at the same time
    spoilt,         \* cameras of which a save was cut short by a crash, met
                    \* another or could not open the file, and none was well
                    \* since
    crossed,        \* graphs whose load another thread has disturbed
    restarts        \* number of restarts

command == <<pc, camera, graph_id, name, loaded, answer>>
memory == <<process_num, pidMap, running>>
engines == <<loading, text>>
saving == <<file, saves, saved, spoilt>>
vars == <<command, memory, borders, config, saving, engines, tasks, overlapped,
          crossed, restarts>>

Task == {"open", "id", "url", "create", "get", "map", "inc"}
Save == {"member", "file", "dump"}

\* What a process starts with.
Fresh ==
    /\ pc = [s \in Sched |-> "idle"]
    /\ camera = [s \in Sched |-> None]
    /\ graph_id = [s \in Sched |-> 0]
    /\ name = [s \in Sched |-> 0]
    /\ loaded = [s \in Sched |-> 0]
    /\ answer = [s \in Sched |-> 0]
    /\ process_num = 1
    /\ pidMap = [c \in Camera |-> 0]
    /\ running = [g \in Graph |-> None]
    /\ borders = <<None, 0>>
    /\ loading = [g \in Graph |-> "idle"]
    /\ text = [g \in Graph |-> 0]
    /\ overlapped = FALSE
    /\ crossed = {}

Init ==
    /\ Fresh
    /\ config = [n \in 1..(MaxTask + 1) |-> Blank]
    /\ file = [c \in Camera |-> 0]
    /\ tasks = 0
    /\ saves = 0
    /\ saved = [c \in Camera |-> 0]
    /\ spoilt = {}
    /\ restarts = 0

Goto(s, where) == pc' = [pc EXCEPT ![s] = where]
Answer(s, code) == Goto(s, "done") /\ answer' = [answer EXCEPT ![s] = code]

-----------------------------------------------------------------------------
(***************************************************************************)
(* set_egbd_task: start the engines for a camera.                          *)
(***************************************************************************)

\* Up to line 42: GRAPH_ID is computed.
BeginTask(s, c) ==
    /\ pc[s] = "idle"
    /\ tasks < MaxTask
    /\ tasks' = tasks + 1
    /\ camera' = [camera EXCEPT ![s] = c]
    /\ graph_id' = [graph_id EXCEPT ![s] = process_num]
    /\ overlapped' = (overlapped \/ \E t \in Sched : pc[t] \in Task)
    /\ Goto(s, "open")
    /\ UNCHANGED <<name, loaded, answer, memory, borders, config, saving,
                   engines, crossed, restarts>>

\* The new configuration file is named after process_num, and is truncated.
OpenConfig(s) ==
    /\ pc[s] = "open"
    /\ name' = [name EXCEPT ![s] = process_num]
    /\ config' = [config EXCEPT ![process_num] = Blank]
    /\ Goto(s, "id")
    /\ UNCHANGED <<camera, graph_id, loaded, answer, memory, borders, saving,
                   engines, tasks, overlapped, crossed, restarts>>

\* The template is copied; its second line becomes the graph id.
WriteId(s) ==
    /\ pc[s] = "id"
    /\ config' = [config EXCEPT ![name[s]].id = graph_id[s]]
    /\ Goto(s, "url")
    /\ UNCHANGED <<camera, graph_id, name, loaded, answer, memory, borders,
                   saving, engines, tasks, overlapped, crossed, restarts>>

\* Its lines 18 and 76 become the url and the ip of the camera.
WriteUrl(s) ==
    /\ pc[s] = "url"
    /\ config' = [config EXCEPT ![name[s]].camera = camera[s]]
    /\ Goto(s, "create")
    /\ UNCHANGED <<camera, graph_id, name, loaded, answer, memory, borders,
                   saving, engines, tasks, overlapped, crossed, restarts>>

\* Graph::CreateGraph reads the file; it refuses one that is not complete, and
\* an id that is in use.
CreateGraph(s) ==
    /\ pc[s] = "create"
    /\ LET new == config[name[s]]
       IN /\ new.id # 0 /\ new.camera # None
          /\ running[new.id] = None
          /\ running' = [running EXCEPT ![new.id] = new.camera]
    /\ Goto(s, "get")
    /\ UNCHANGED <<camera, graph_id, name, loaded, answer, process_num, pidMap,
                   borders, config, saving, engines, tasks, overlapped, crossed,
                   restarts>>

\* It may also fail for reasons of its own.  The answer has no code.
CreateFails(s) ==
    /\ pc[s] = "create"
    /\ Answer(s, 0)
    /\ UNCHANGED <<camera, graph_id, name, loaded, memory, borders, config,
                   saving, engines, tasks, overlapped, crossed, restarts>>

\* Graph::GetInstance finds the graph, and the engines are started.
GetInstance(s) ==
    /\ pc[s] = "get"
    /\ running[graph_id[s]] # None
    /\ Goto(s, "map")
    /\ UNCHANGED <<camera, graph_id, name, loaded, answer, memory, borders,
                   config, saving, engines, tasks, overlapped, crossed, restarts>>

\* Graph::GetInstance finds no such graph: the file has named another one.
GetNothing(s) ==
    /\ pc[s] = "get"
    /\ running[graph_id[s]] = None
    /\ Answer(s, 0)
    /\ UNCHANGED <<camera, graph_id, name, loaded, memory, borders, config,
                   saving, engines, tasks, overlapped, crossed, restarts>>

\* pidMap is set, and process_num is loaded to be incremented.
MapPid(s) ==
    /\ pc[s] = "map"
    /\ pidMap' = [pidMap EXCEPT ![camera[s]] = graph_id[s]]
    /\ loaded' = [loaded EXCEPT ![s] = process_num]
    /\ Goto(s, "inc")
    /\ UNCHANGED <<camera, graph_id, name, answer, process_num, running, borders,
                   config, saving, engines, tasks, overlapped, crossed, restarts>>

\* Mutant of Increment: process_num is left alone.
IncrementNot(s) ==
    /\ pc[s] = "inc"
    /\ Answer(s, 200)
    /\ UNCHANGED <<camera, graph_id, name, loaded, memory, borders, config,
                   saving, engines, tasks, overlapped, crossed, restarts>>

\* process_num is stored, and the command answers 200.
Increment(s) ==
    /\ pc[s] = "inc"
    /\ process_num' = loaded[s] + 1
    /\ Answer(s, 200)
    /\ UNCHANGED <<camera, graph_id, name, loaded, pidMap, running, borders,
                   config, saving, engines, tasks, overlapped, crossed, restarts>>

TaskStep(s) ==
    \/ OpenConfig(s) \/ WriteId(s) \/ WriteUrl(s)
    \/ CreateGraph(s) \/ CreateFails(s) \/ GetInstance(s) \/ GetNothing(s)
    \/ MapPid(s) \/ Increment(s)

-----------------------------------------------------------------------------
(***************************************************************************)
(* set_border_info, with BordersLoader::save.                              *)
(***************************************************************************)

\* Another thread saves borders of camera c.
Saving(me, c) == \E t \in Sched \ me : pc[t] \in Save /\ camera[t] = c

\* The borders are parsed: they are a new version.
BeginSave(s, c) ==
    /\ pc[s] = "idle"
    /\ saves < MaxSave
    /\ saves' = saves + 1
    /\ camera' = [camera EXCEPT ![s] = c]
    /\ graph_id' = [graph_id EXCEPT ![s] = saves + 1]
    /\ spoilt' = IF Saving({}, c) THEN spoilt \union {c} ELSE spoilt
    /\ Goto(s, "member")
    /\ UNCHANGED <<name, loaded, answer, memory, borders, config, file, saved,
                   engines, tasks, overlapped, crossed, restarts>>

\* The graphs whose load is disturbed by another thread's write of borders_.
Disturbed(me) == {g \in Graph \ me : loading[g] = "use"}

\* save: borders_ is assigned.
SaveMember(s) ==
    /\ pc[s] = "member"
    /\ borders' = <<camera[s], graph_id[s]>>
    /\ crossed' = crossed \union Disturbed({})
    /\ Goto(s, "file")
    /\ UNCHANGED <<camera, graph_id, name, loaded, answer, memory, config, saving,
                   engines, tasks, overlapped, restarts>>

\* save: the file is opened, which truncates it.
OpenFile(s) ==
    /\ pc[s] = "file"
    /\ file' = [file EXCEPT ![camera[s]] = Torn]
    /\ Goto(s, "dump")
    /\ UNCHANGED <<camera, graph_id, name, loaded, answer, memory, borders,
                   config, saves, saved, spoilt, engines, tasks, overlapped,
                   crossed, restarts>>

\* save: the file cannot be opened.  The command answers 200 all the same.
OpenFails(s) ==
    /\ pc[s] = "file"
    /\ spoilt' = spoilt \union {camera[s]}
    /\ Answer(s, 200)
    /\ UNCHANGED <<camera, graph_id, name, loaded, memory, borders, config, file,
                   saves, saved, engines, tasks, overlapped, crossed, restarts>>

\* Mutant of Dump: the file is closed without being written.
DumpNot(s) ==
    /\ pc[s] = "dump"
    /\ saved' = [saved EXCEPT ![camera[s]] = graph_id[s]]
    /\ Answer(s, 200)
    /\ UNCHANGED <<camera, graph_id, name, loaded, memory, borders, config, file,
                   saves, spoilt, engines, tasks, overlapped, crossed,
                   restarts>>

\* save: the borders are written and the file is closed.  Written over what
\* another save has put there, they may leave some of it behind.
Dump(s) ==
    /\ pc[s] = "dump"
    /\ LET c == camera[s]
       IN /\ \/ file' = [file EXCEPT ![c] = graph_id[s]]
             \/ file[c] # Torn /\ file' = [file EXCEPT ![c] = Torn]
          /\ saved' = [saved EXCEPT ![c] = graph_id[s]]
          /\ spoilt' = IF file[c] = Torn /\ ~Saving({s}, c) THEN spoilt \ {c}
                       ELSE spoilt
    /\ Answer(s, 200)
    /\ UNCHANGED <<camera, graph_id, name, loaded, memory, borders, config,
                   saves, engines, tasks, overlapped, crossed, restarts>>

SaveStep(s) == SaveMember(s) \/ OpenFile(s) \/ OpenFails(s) \/ Dump(s)

\* A command that changes nothing: get_key_frame, an unknown method, missing
\* parameters, borders that do not parse.
Plain(s) ==
    /\ pc[s] = "idle"
    /\ \E code \in {200, 400} : Answer(s, code)
    /\ UNCHANGED <<camera, graph_id, name, loaded, memory, borders, config,
                   saving, engines, tasks, overlapped, crossed, restarts>>

-----------------------------------------------------------------------------
(***************************************************************************)
(* BordersLoader::load, called by DstEngine of graph g for every frame.    *)
(***************************************************************************)

\* The file is read.
LoadFile(g) ==
    /\ running[g] # None
    /\ loading[g] = "idle"
    /\ text' = [text EXCEPT ![g] = file[running[g]]]
    /\ loading' = [loading EXCEPT ![g] = "parse"]
    /\ UNCHANGED <<command, memory, borders, config, saving, tasks, overlapped,
                   crossed, restarts>>

\* Mutant of LoadMember: a text that does not parse leaves borders_ alone.
LoadMemberKeep(g) ==
    /\ loading[g] = "parse"
    /\ borders' = IF text[g] = Torn THEN borders ELSE <<running[g], text[g]>>
    /\ loading' = [loading EXCEPT ![g] = "use"]
    /\ crossed' = crossed \union Disturbed({g})
    /\ UNCHANGED <<command, memory, config, saving, text, tasks, overlapped,
                   restarts>>

\* What a text is parsed into: no borders if it does not parse.
Parsed(version) == IF version = Torn THEN 0 ELSE version

\* The text is parsed into borders_.
LoadMember(g) ==
    /\ loading[g] = "parse"
    /\ borders' = <<running[g], Parsed(text[g])>>
    /\ loading' = [loading EXCEPT ![g] = "use"]
    /\ crossed' = crossed \union Disturbed({g})
    /\ UNCHANGED <<command, memory, config, saving, text, tasks, overlapped,
                   restarts>>

\* The borders are copied out of borders_ and returned.
LoadReturn(g) ==
    /\ loading[g] = "use"
    /\ text' = [text EXCEPT ![g] = 0]
    /\ loading' = [loading EXCEPT ![g] = "idle"]
    /\ crossed' = crossed \ {g}
    /\ UNCHANGED <<command, memory, borders, config, saving, tasks, overlapped,
                   restarts>>

Load(g) == LoadFile(g) \/ LoadMember(g) \/ LoadReturn(g)

-----------------------------------------------------------------------------
\* The process ends at any point and is started again.
RestartService ==
    /\ restarts < MaxRestart
    /\ restarts' = restarts + 1
    /\ pc' = [s \in Sched |-> "idle"]
    /\ camera' = [s \in Sched |-> None]
    /\ graph_id' = [s \in Sched |-> 0]
    /\ name' = [s \in Sched |-> 0]
    /\ loaded' = [s \in Sched |-> 0]
    /\ answer' = [s \in Sched |-> 0]
    /\ process_num' = 1
    /\ pidMap' = [c \in Camera |-> 0]
    /\ running' = [g \in Graph |-> None]
    /\ borders' = <<None, 0>>
    /\ loading' = [g \in Graph |-> "idle"]
    /\ text' = [g \in Graph |-> 0]
    /\ overlapped' = FALSE
    /\ crossed' = {}
    /\ spoilt' = spoilt \union {camera[s] : s \in {t \in Sched : pc[t] = "dump"}}
    /\ UNCHANGED <<config, file, saves, saved, tasks>>

-----------------------------------------------------------------------------
Resting == \A s \in Sched : pc[s] \notin Task

(* Unless two set_egbd_task have run at a time, a command that has started *)
(* a graph has started the one it was asked for; graph ids are used once,  *)
(* without gaps, whatever fails; and pidMap has the last graph of each     *)
(* camera.  Nothing else keeps the configuration file or the id of one     *)
(* command from being those of another.                                    *)
GraphsAreNumbered ==
    ~overlapped =>
        /\ \A s \in Sched : pc[s] \in {"map", "inc"} =>
              running[graph_id[s]] = camera[s]
        /\ Resting =>
              /\ \A g \in Graph : running[g] # None <=> g < process_num
              /\ \A c \in Camera : \A g \in Graph : running[g] = c =>
                    pidMap[c] >= g /\ running[pidMap[c]] = c

(* The file of a camera holds the borders last answered 200 for, whether   *)
(* or not the process was restarted since, except while a save writes it   *)
(* and after a save was spoilt.                                            *)
SavedIsKept ==
    \A c \in Camera :
        \/ c \in spoilt
        \/ \E s \in Sched : pc[s] = "dump" /\ camera[s] = c
        \/ file[c] = saved[c]

(* A load that no other thread disturbs returns the borders of its own     *)
(* camera, in the version it has read, and none if it has met a save: the  *)
(* engines and the server share borders_.                                  *)
OwnBorders ==
    \A g \in Graph \ crossed : loading[g] = "use" =>
        borders = <<running[g], Parsed(text[g])>>

\* Both: what BordersLoader saves and loads.
BordersAreRight == SavedIsKept /\ OwnBorders

=============================================================================
