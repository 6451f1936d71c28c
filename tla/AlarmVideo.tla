------------------------------ MODULE AlarmVideo ------------------------------
(***************************************************************************)
(* What DstEngine::ProcessResult does with the frames of one camera: a     *)
(* window of the last frames and, in step with it, a window of marks; the  *)
(* sampling of region alarms; and the video that is saved when the mark of *)
(* an alarm reaches the middle of the window.                              *)
(*                                                                         *)
(* Frames are numbered as they arrive.  Which detections hit a region or   *)
(* make a trail cross a line is left open (module Trails has the trails).  *)
(* ProcessResult runs on one thread; it is split at the alarms and at the  *)
(* saves so that any number of alarms can fall in a frame.                 *)
(***************************************************************************)
EXTENDS Integers, Sequences, FiniteSets

CONSTANTS
    Half,       \* FRAME_RATE * SAVE_TIME: half of the window; 2 or more
    SampleP,    \* SAMPLE_P: one region hit in so many raises an alarm; 2 or more
    SampleN,    \* SAMPLE_N: one frame in so many is checked for lines; not 0
    MaxFrame,   \* how many frames arrive (a bound, not in the code)
    MaxHits     \* how many alarms or hits fall in a frame (a bound)

\* What DstEngine.cpp:21-25 makes of the constants; the bounds are naturals.
ConstantsAreRight ==
    /\ Half \in Nat \ {0, 1} /\ SampleP \in Nat \ {0, 1} /\ SampleN \in Nat \ {0}
    /\ MaxFrame \in Nat /\ MaxHits \in Nat

Window == 2 * Half
Frame == 1..MaxFrame
Unmarked == 0   \* the mark of a frame without an alarm
Region == 1     \* the mark of an intrusion ("ruqin")
Border == 2     \* the mark of a crossed line ("yuejie")
Kind == {Region, Border}

VARIABLES
    arrived,            \* number of frames that have arrived
    vpc,                \* where ProcessResult has got to
    hits,               \* hits or alarms so far in this part of the frame
    frame_id,           \* DstEngine::frame_id
    result_videos,      \* DstEngine::result_videos: the window of frames
    result_condition,   \* DstEngine::result_condition: their marks
    alarm_flag,         \* DstEngine::alarm_flag_: hits of all regions so far
    video_id,           \* DstEngine::video_id
    videoname,          \* the globals videoname_1 and videoname_2
    (***********************************************************************)
    (* What has been produced.                                             *)
    (***********************************************************************)
    raised,             \* the alarms raised, with their frame and video id
    videos,             \* the videos saved: their kind, frames and name
    failed              \* frames at which a video could not be saved

window == <<result_videos, result_condition>>
naming == <<alarm_flag, video_id, videoname, raised>>
videoVars == <<arrived, vpc, hits, frame_id, window, naming, videos, failed>>

VideoInit ==
    /\ arrived = 0 /\ vpc = "idle" /\ hits = 0 /\ frame_id = 0
    /\ result_videos = <<>> /\ result_condition = <<>>
    /\ alarm_flag = 0 /\ video_id = 1
    /\ videoname = [k \in Kind |-> 0]       \* both strings are empty
    /\ raised = <<>> /\ videos = <<>> /\ failed = {}

-----------------------------------------------------------------------------
\* frame_id is 0 and the cover cannot be written: the frame is not kept.
CoverFails ==
    /\ vpc = "idle"
    /\ arrived < MaxFrame
    /\ frame_id = 0
    /\ arrived' = arrived + 1
    /\ UNCHANGED <<vpc, hits, frame_id, window, naming, videos, failed>>

Full(s) == Len(s) > Window

\* Mutant of Push: the oldest mark is kept when the oldest frame is dropped.
PushKeepMark ==
    /\ vpc = "idle"
    /\ arrived < MaxFrame
    /\ arrived' = arrived + 1
    /\ vpc' = "regions"
    /\ hits' = 0
    /\ LET frames == Append(result_videos, arrived + 1)
       IN  result_videos' = IF Full(frames) THEN Tail(frames) ELSE frames
    /\ result_condition' = Append(result_condition, Unmarked)
    /\ UNCHANGED <<frame_id, naming, videos, failed>>

\* The frame enters the window, unmarked, and the oldest one leaves it.
Push ==
    /\ vpc = "idle"
    /\ arrived < MaxFrame
    /\ arrived' = arrived + 1
    /\ vpc' = "regions"
    /\ hits' = 0
    /\ LET frames == Append(result_videos, arrived + 1)
           marks == Append(result_condition, Unmarked)
       IN  /\ result_videos' = IF Full(frames) THEN Tail(frames) ELSE frames
           /\ result_condition' = IF Full(frames) THEN Tail(marks) ELSE marks
    /\ UNCHANGED <<frame_id, naming, videos, failed>>

-----------------------------------------------------------------------------
\* Mutant of Raise: the video is named after the id of the next alarm.
RaiseIdFirst(kind) ==
    /\ videoname' = [videoname EXCEPT ![kind] = video_id + 1]
    /\ video_id' = video_id + 1
    /\ result_condition' = [result_condition EXCEPT ![Len(result_condition)] = kind]
    /\ raised' = Append(raised, [kind |-> kind, frame |-> arrived, id |-> video_id])

\* An alarm: it takes a video id and marks the newest frame of the window.
Raise(kind) ==
    /\ videoname' = [videoname EXCEPT ![kind] = video_id]
    /\ video_id' = video_id + 1
    /\ result_condition' = [result_condition EXCEPT ![Len(result_condition)] = kind]
    /\ raised' = Append(raised, [kind |-> kind, frame |-> arrived, id |-> video_id])

\* A person of the frame stands in a rectangle or a polygon.
RegionHit ==
    /\ vpc = "regions"
    /\ hits < MaxHits
    /\ hits' = hits + 1
    /\ alarm_flag' = alarm_flag + 1
    /\ IF (alarm_flag + 1) % SampleP = 1
       THEN Raise(Region)
       ELSE UNCHANGED <<video_id, videoname, result_condition, raised>>
    /\ UNCHANGED <<arrived, vpc, frame_id, result_videos, videos, failed>>

\* All the detections of the frame have been looked at.
RegionsDone ==
    /\ vpc = "regions"
    /\ vpc' = "save1"
    /\ hits' = 0
    /\ UNCHANGED <<arrived, frame_id, window, naming, videos, failed>>

\* A trail crosses a line, in a frame that is checked for lines.
LineCrossed ==
    /\ vpc = "lines"
    /\ frame_id % SampleN = 0
    /\ hits < MaxHits
    /\ hits' = hits + 1
    /\ Raise(Border)
    /\ UNCHANGED <<arrived, vpc, frame_id, result_videos, alarm_flag, videos, failed>>

LinesDone ==
    /\ vpc = "lines"
    /\ vpc' = "save2"
    /\ hits' = 0
    /\ UNCHANGED <<arrived, frame_id, window, naming, videos, failed>>

-----------------------------------------------------------------------------
\* Mutant of Middle: one frame too early.
MiddleEarly == IF Len(result_condition) = Window THEN result_condition[Half] ELSE Unmarked

\* result_center; Unmarked while the window is not full.
Middle == IF Len(result_condition) = Window THEN result_condition[Half + 1] ELSE Unmarked

\* SaveVideoToJpg: all the frames of the window, under the name of the kind.
SaveVideo(kind) ==
    videos' = Append(videos, [kind |-> kind, first |-> result_videos[1],
                              last |-> result_videos[Window],
                              name |-> videoname[kind]])

\* The first look at the middle of the window, for an intrusion.
SaveRegion ==
    /\ vpc = "save1"
    /\ vpc' = "lines"
    /\ IF Middle = Region THEN SaveVideo(Region) ELSE UNCHANGED videos
    /\ UNCHANGED <<arrived, hits, frame_id, window, naming, failed>>

\* SaveVideoToJpg fails: ProcessResult returns before the lines are checked.
SaveRegionFails ==
    /\ vpc = "save1"
    /\ Middle = Region
    /\ vpc' = "idle"
    /\ failed' = failed \union {arrived}
    /\ UNCHANGED <<arrived, hits, frame_id, window, naming, videos>>

\* Mutant of SaveBorder: whatever the mark in the middle is, it is saved.
SaveBorderAny ==
    /\ vpc = "save2"
    /\ vpc' = "idle"
    /\ IF Middle # Unmarked THEN SaveVideo(Border) ELSE UNCHANGED videos
    /\ frame_id' = frame_id + 1
    /\ UNCHANGED <<arrived, hits, window, naming, failed>>

\* Mutant of SaveBorder: the second look is not taken.
SaveBorderNot ==
    /\ vpc = "save2"
    /\ vpc' = "idle"
    /\ frame_id' = frame_id + 1
    /\ UNCHANGED <<arrived, hits, window, naming, videos, failed>>

\* The second look at the middle, for a crossed line, and the end of the frame.
SaveBorder ==
    /\ vpc = "save2"
    /\ vpc' = "idle"
    /\ IF Middle = Border THEN SaveVideo(Border) ELSE UNCHANGED videos
    /\ frame_id' = frame_id + 1
    /\ UNCHANGED <<arrived, hits, window, naming, failed>>

\* SaveVideoToJpg fails: ProcessResult returns without counting the frame.
SaveBorderFails ==
    /\ vpc = "save2"
    /\ Middle = Border
    /\ vpc' = "idle"
    /\ failed' = failed \union {arrived}
    /\ UNCHANGED <<arrived, hits, frame_id, window, naming, videos>>

-----------------------------------------------------------------------------
VideoNext ==
    \/ CoverFails \/ Push
    \/ RegionHit \/ RegionsDone \/ LineCrossed \/ LinesDone
    \/ SaveRegion \/ SaveRegionFails \/ SaveBorder \/ SaveBorderFails

VideoSpec == VideoInit /\ [][VideoNext]_videoVars

-----------------------------------------------------------------------------
(***************************************************************************)
(* Properties.                                                             *)
(***************************************************************************)

AlarmsAt(kind, frame) ==
    {n \in 1..Len(raised) : raised[n].kind = kind /\ raised[n].frame = frame}

\* A border alarm of a frame hides a region alarm of the same frame.
MarkOf(frame) ==
    IF AlarmsAt(Border, frame) # {} THEN Border
    ELSE IF AlarmsAt(Region, frame) # {} THEN Region ELSE Unmarked

\* The two windows stay in step, on every return path: the k-th mark is the
\* mark of the k-th frame, the frames are the last ones that arrived, without
\* a gap, and every alarm of a frame of the window has left its mark.
MarksMatchFrames ==
    /\ Len(result_condition) = Len(result_videos)
    /\ \A k \in 1..Len(result_videos) :
          /\ result_videos[k] = arrived - Len(result_videos) + k
          /\ result_condition[k] = MarkOf(result_videos[k])

\* A saved video shows Half frames before the frame of an alarm of its kind,
\* that frame and the Half - 1 frames after it, whatever has failed in between;
\* and no frame is the middle of two videos, although ProcessResult looks at
\* the middle of the window twice in each frame.
VideoAroundAlarm ==
    \A v \in 1..Len(videos) :
        /\ videos[v].last = videos[v].first + Window - 1
        /\ AlarmsAt(videos[v].kind, videos[v].first + Half) # {}
        /\ \A w \in 1..Len(videos) : videos[v].first = videos[w].first => v = w

\* A video has the id of an alarm of the frame in its middle, unless an alarm
\* of the same kind in one of the frames after it has changed the global name.
NamedAfterItsAlarm ==
    \A v \in 1..Len(videos) :
        LET alarm == videos[v].first + Half
        IN  (\A f \in alarm + 1 .. videos[v].last : AlarmsAt(videos[v].kind, f) = {}) =>
                \E n \in AlarmsAt(videos[v].kind, alarm) : raised[n].id = videos[v].name

\* At the end of a frame, a marked frame in the middle of the full window has
\* had its video saved under the kind of its mark, unless that has failed.
MarkedIsSaved ==
    vpc = "idle" /\ Middle # Unmarked /\ arrived \notin failed =>
        \E v \in 1..Len(videos) : videos[v].kind = Middle
                                  /\ videos[v].first = result_videos[1]

\* All four: what ProcessResult does with frames, marks and videos.
VideosAreRight == MarksMatchFrames /\ VideoAroundAlarm /\ NamedAfterItsAlarm /\ MarkedIsSaved

=============================================================================
