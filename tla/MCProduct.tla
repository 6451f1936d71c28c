------------------------------ MODULE MCProduct ------------------------------
(* The server and its engines: the connections and commands of RpcServer;   *)
(* the window of frames of AlarmVideo and the trails of Trails, each at its *)
(* own bounds; and both as ProcessResult joins them in Engine, at smaller   *)
(* ones.  One part per behaviour, the others stay as they start.            *)
EXTENDS RpcServer, Engine, TLC

CONSTANTS AloneFrames, JointPersons    \* frames of the trails alone, persons in Engine

VARIABLE part

ASSUME EngineAssumption ==
    /\ ConstantsAreRight
    /\ {TimeStamp, Much} \subseteq Nat \ {0} /\ {TrailFrames, MaxPerson, MaxChange} \subseteq Nat

productVars == <<part, allvars, videoVars, trailVars>>

Parts == {"server", "video", "trails", "engine"}
ProductInit ==
    /\ part \in Parts /\ EngineInit
    /\ ServerInit /\ (part # "server" => passwd)

OfServer == part = "server" /\ Next /\ UNCHANGED <<videoVars, trailVars>>
OfVideo == part = "video" /\ VideoNext /\ UNCHANGED <<allvars, trailVars>>
OfTrails ==
    /\ part = "trails" /\ TrailNext /\ UNCHANGED <<allvars, videoVars>>
    /\ frame' <= AloneFrames
OfEngine ==
    /\ part = "engine" /\ EngineNext /\ UNCHANGED allvars
    /\ arrived' <= TrailFrames /\ persons' <= JointPersons
ProductNext == UNCHANGED part /\ (OfServer \/ OfVideo \/ OfTrails \/ OfEngine)
ProductSpec == ProductInit /\ [][ProductNext]_productVars

Symmetry == Permutations(Sched) \union Permutations(Camera)

\* A crossing is in the middle of a border video, and nothing else is.
CrossingIsFilmed == part = "engine" => EachCrossingIsFilmed
===============================================================================
