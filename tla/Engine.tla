-------------------------------- MODULE Engine --------------------------------
(***************************************************************************)
(* DstEngine::ProcessResult as a whole: the windows and videos of module   *)
(* AlarmVideo and the trails of module Trails, in the order in which the   *)
(* function goes through them.  The region hits of a person come before    *)
(* the person's trail; a trail that crosses a line is what raises a border *)
(* alarm; and where the function returns early, neither goes on.           *)
(***************************************************************************)
EXTENDS AlarmVideo, Trails

EngineInit == VideoInit /\ TrailInit

Sampled == frame_id % SampleN = 0

NoCover == CoverFails /\ UNCHANGED trailVars
FrameComes == Push /\ NextFrame
PersonInRegion == left > 0 /\ RegionHit /\ UNCHANGED trailVars
Assign ==
    /\ vpc = "regions"
    /\ NewTrail \/ \E n \in DOMAIN trails : Insert(n)
    /\ UNCHANGED videoVars
PersonsDone == left = 0 /\ RegionsDone /\ UNCHANGED trailVars
RegionFilmed == SaveRegion /\ (IF Sampled THEN Assigned ELSE Skipped)
RegionNotFilmed == SaveRegionFails /\ Skipped
TrailCrosses == LineCrossed /\ \E n \in DOMAIN trails : Crosses(n)
TrailCrossesNone == (\E n \in DOMAIN trails : CrossesNone(n)) /\ UNCHANGED videoVars
TrailsDone == LinesDone /\ (IF Sampled THEN End ELSE UNCHANGED trailVars)
FrameEnds == (SaveBorder \/ SaveBorderFails) /\ UNCHANGED trailVars
BordersSaved == BordersChange /\ UNCHANGED videoVars

EngineNext ==
    \/ NoCover \/ FrameComes \/ PersonInRegion \/ Assign \/ PersonsDone
    \/ RegionFilmed \/ RegionNotFilmed \/ TrailCrosses \/ TrailCrossesNone \/ TrailsDone
    \/ FrameEnds \/ BordersSaved

-----------------------------------------------------------------------------
\* Frames without a cover reach the window, not the trails.
Shift == arrived - frame
Over(f) == arrived > f \/ (arrived = f /\ vpc = "idle")
Filmed(f) == \E v \in 1..Len(videos) : videos[v].kind = Border /\ videos[v].first + Half = f

(* Every frame in which a trail crossed a line is the middle of a border   *)
(* video once Half - 1 frames have followed it, unless saving failed just  *)
(* then or the frame was among the first Half, and no other frame is.      *)
EachCrossingIsFilmed ==
    /\ \A n \in 1..Len(log) :
          LET f == log[n].frame + Shift
              last == f + Half - 1
          IN log[n].frame > Half /\ Over(last) /\ last \notin failed => Filmed(f)
    /\ \A v \in 1..Len(videos) : videos[v].kind = Border =>
          \E n \in 1..Len(log) : log[n].frame + Shift = videos[v].first + Half
===============================================================================
