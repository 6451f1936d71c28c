-------------------------- MODULE MCProduct_proofs --------------------------
(***************************************************************************)
(* DstEngine: the window and the videos (AlarmVideo), for any size of the  *)
(* window, any sampling, and any number of frames and alarms; the trails   *)
(* (Trails), for any number of persons, lines and frames; and what holds   *)
(* of both as ProcessResult joins them (Engine).                           *)
(***************************************************************************)
EXTENDS MCProduct, SequenceTheorems, TLAPS

Alarm == [kind : Kind, frame : Nat, id : Nat]
Video == [kind : Kind, first : Nat, last : Nat, name : Nat]

VideoTyped ==
    /\ arrived \in Nat
    /\ vpc \in {"idle", "regions", "save1", "lines", "save2"}
    /\ frame_id \in Nat /\ alarm_flag \in Nat /\ video_id \in Nat /\ hits \in Nat
    /\ result_videos \in Seq(Nat)
    /\ result_condition \in Seq({Unmarked} \union Kind)
    /\ Len(result_videos) <= Window /\ Len(result_condition) = Len(result_videos)
    /\ videoname \in [Kind -> Nat]
    /\ raised \in Seq(Alarm)
    /\ videos \in Seq(Video)
    /\ failed \subseteq Nat

(***************************************************************************)
(* Sequences.                                                              *)
(***************************************************************************)

\* What is left of a window when one more has entered it.
Entered(q, x) == IF Full(Append(q, x)) THEN Tail(Append(q, x)) ELSE Append(q, x)

LEMMA WindowIs ==
  ASSUME ConstantsAreRight
  PROVE  Window \in Nat /\ Half \in Nat /\ Half >= 2 /\ Window = 2 * Half /\ Half + 1 < Window
BY DEF ConstantsAreRight, Window

LEMMA EnteredIs ==
  ASSUME ConstantsAreRight, NEW S, NEW q \in Seq(S), NEW x \in S, Len(q) <= Window
  PROVE  /\ Entered(q, x) \in Seq(S)
         /\ Len(Entered(q, x)) = IF Len(q) = Window THEN Window ELSE Len(q) + 1
         /\ \A k \in 1..Len(Entered(q, x)) : Entered(q, x)[k] =
               IF k = Len(Entered(q, x)) THEN x ELSE q[k + Len(q) + 1 - Len(Entered(q, x))]
<1>1. Window \in Nat /\ Len(q) \in Nat /\ Window >= 4
  BY WindowIs, LenProperties
<1> DEFINE a == Append(q, x)
<1>2. a \in Seq(S) /\ Len(a) = Len(q) + 1
      /\ \A k \in 1..Len(a) : a[k] = IF k = Len(a) THEN x ELSE q[k]
  BY <1>1, AppendProperties
<1> HIDE DEF a
<1>3. CASE Len(a) > Window
  <2>1. a # <<>> /\ Len(q) = Window
    BY <1>1, <1>2, <1>3, EmptySeq
  <2>2. Tail(a) \in Seq(S) /\ Len(Tail(a)) = Len(a) - 1
        /\ \A k \in 1..Len(Tail(a)) : Tail(a)[k] = a[k + 1]
    BY <1>2, <2>1, HeadTailProperties
  <2>3. Entered(q, x) = Tail(a)
    BY <1>3 DEF Entered, Full, a
  <2> QED
    BY <1>1, <1>2, <2>1, <2>2, <2>3
<1>4. CASE Len(a) <= Window
  <2>1. Entered(q, x) = a
    BY <1>1, <1>2, <1>4 DEF Entered, Full, a
  <2> QED
    BY <1>1, <1>2, <1>4, <2>1
<1> QED
  BY <1>1, <1>2, <1>3, <1>4

LEMMA Elements ==
  ASSUME VideoTyped
  PROVE  /\ Len(raised) \in Nat /\ Len(videos) \in Nat
         /\ \A n \in 1..Len(raised) : /\ raised[n].kind \in Kind /\ raised[n].frame \in Nat
                                      /\ raised[n].id \in Nat
         /\ \A v \in 1..Len(videos) : /\ videos[v].kind \in Kind /\ videos[v].first \in Nat
                                      /\ videos[v].last \in Nat
<1>1. Len(raised) \in Nat /\ Len(videos) \in Nat
  BY LenProperties DEF VideoTyped
<1>2. \A n \in 1..Len(raised) : raised[n] \in Alarm
  BY ElementOfSeq DEF VideoTyped
<1>3. \A v \in 1..Len(videos) : videos[v] \in Video
  BY ElementOfSeq DEF VideoTyped
<1> QED
  BY <1>1, <1>2, <1>3 DEF Alarm, Video

\* The last alarm of a sequence.
LEMMA RaisedIs ==
  ASSUME VideoTyped, NEW a \in Alarm, raised' = Append(raised, a)
  PROVE  /\ Len(raised) \in Nat /\ Len(raised') = Len(raised) + 1
         /\ raised' \in Seq(Alarm)
         /\ raised'[Len(raised')] = a
         /\ \A n \in 1..Len(raised) : raised'[n] = raised[n] /\ raised[n] \in Alarm
  BY AppendProperties, LenProperties, ElementOfSeq DEF VideoTyped

(***************************************************************************)
(* The inductive invariant.                                                *)
(***************************************************************************)
HasAlarm(kind, f) == AlarmsAt(kind, f) # {}

\* Alarms are raised in the order of the frames, none ahead of them; and what
\* hides the region alarms of a frame comes after them.
RaisedInOrder ==
    /\ \A n \in 1..Len(raised) : raised[n].frame <= arrived
    /\ \A m, n \in 1..Len(raised) : m < n => raised[m].frame <= raised[n].frame
    /\ vpc \in {"regions", "save1"} => ~HasAlarm(Border, arrived)

\* The frames that were dropped for want of a cover came before all others:
\* as long as the window is not full, ProcessResult does not return early.
Started ==
    /\ vpc = "idle" /\ frame_id = 0 => result_videos = <<>>
    /\ vpc # "idle" => result_videos # <<>>
    /\ vpc # "idle" /\ frame_id = 0 => Len(result_videos) = 1

\* The global names are the ids of the last alarms.
NamesAreLast ==
    \A kind \in Kind :
        (\E n \in 1..Len(raised) : raised[n].kind = kind) =>
        \E n \in 1..Len(raised) :
            /\ raised[n].kind = kind /\ raised[n].id = videoname[kind]
            /\ \A m \in 1..Len(raised) : m > n => raised[m].kind # kind

\* At most one video is saved in a frame: the second look finds the same mark.
SavedOnce ==
    /\ \A v \in 1..Len(videos) :
          /\ videos[v].last <= arrived
          /\ vpc \in {"regions", "save1"} => videos[v].last < arrived
          /\ vpc \in {"lines", "save2"} /\ videos[v].last = arrived => Middle = Region
    /\ vpc \in {"lines", "save2"} /\ Middle = Region =>
          \E v \in 1..Len(videos) : videos[v].kind = Region /\ videos[v].first = result_videos[1]

VideoInv ==
    /\ VideoTyped /\ RaisedInOrder /\ Started /\ NamesAreLast /\ SavedOnce
    /\ VideosAreRight

LEMMA VideoTypedInit == ConstantsAreRight /\ VideoInit => VideoTyped
<1> SUFFICES ASSUME ConstantsAreRight, VideoInit PROVE VideoTyped
  OBVIOUS
<1>1. \A S : <<>> \in Seq(S) /\ Len(<<>>) = 0
  BY EmptySeq
<1> QED
  BY <1>1, WindowIs DEF VideoInit, VideoTyped

LEMMA RaiseType ==
  ASSUME VideoTyped, result_videos # <<>>, NEW kind \in Kind, Raise(kind)
  PROVE  /\ videoname' \in [Kind -> Nat] /\ video_id' \in Nat /\ raised' \in Seq(Alarm)
         /\ result_condition' \in Seq({Unmarked} \union Kind)
         /\ Len(result_condition') = Len(result_condition)
         /\ Len(result_condition) \in 1..Len(result_condition)
         /\ \A k \in 1..Len(result_condition) : result_condition'[k] =
               IF k = Len(result_condition) THEN kind ELSE result_condition[k]
<1>1. Len(result_condition) \in Nat /\ Len(result_condition) > 0
  BY LenProperties, EmptySeq DEF VideoTyped
<1>2. [kind |-> kind, frame |-> arrived, id |-> video_id] \in Alarm
  BY DEF VideoTyped, Alarm
<1>3. raised' \in Seq(Alarm)
  BY <1>2, AppendProperties DEF Raise, VideoTyped
<1>4. result_condition' = [result_condition EXCEPT ![Len(result_condition)] = kind]
  BY DEF Raise
<1>5. /\ result_condition' \in Seq({Unmarked} \union Kind)
      /\ Len(result_condition') = Len(result_condition)
      /\ \A k \in 1..Len(result_condition) : result_condition'[k] =
               IF k = Len(result_condition) THEN kind ELSE result_condition[k]
  BY <1>1, <1>4, ExceptSeq, LenProperties DEF VideoTyped
<1> QED
  BY <1>1, <1>3, <1>5 DEF Raise, VideoTyped

\* The video that is saved from a full window.
LEMMA SaveType ==
  ASSUME ConstantsAreRight, VideoTyped, NEW kind \in Kind, Middle # Unmarked, SaveVideo(kind)
  PROVE  /\ videos' \in Seq(Video) /\ Len(videos) \in Nat /\ Len(videos') = Len(videos) + 1
         /\ videos'[Len(videos')] = [kind |-> kind, first |-> result_videos[1],
                                     last |-> result_videos[Window], name |-> videoname[kind]]
         /\ \A v \in 1..Len(videos) : videos'[v] = videos[v] /\ videos[v] \in Video
         /\ Len(result_videos) = Window
<1>1. Len(result_videos) = Window /\ 1 \in 1..Window /\ Window \in 1..Window
  BY WindowIs DEF Middle, VideoTyped
<1>2. result_videos[1] \in Nat /\ result_videos[Window] \in Nat
  BY <1>1, ElementOfSeq DEF VideoTyped
<1>3. [kind |-> kind, first |-> result_videos[1],
       last |-> result_videos[Window], name |-> videoname[kind]] \in Video
  BY <1>2 DEF Video, VideoTyped
<1> QED
  BY <1>1, <1>3, AppendProperties, LenProperties, ElementOfSeq DEF SaveVideo, VideoTyped

LEMMA VideoTypedStep ==
  ASSUME ConstantsAreRight, VideoTyped, Started, [VideoNext]_videoVars
  PROVE  VideoTyped'
<1>1. CASE CoverFails
  BY <1>1 DEF CoverFails, VideoTyped, window, naming
<1>2. CASE Push
  <2>1. /\ result_videos' = Entered(result_videos, arrived + 1)
        /\ arrived + 1 \in Nat
    BY <1>2 DEF Push, Entered, VideoTyped
  <2>2. /\ Full(Append(result_videos, arrived + 1)) <=> Full(Append(result_condition, Unmarked))
        /\ Unmarked \in {Unmarked} \union Kind
    BY <2>1, AppendProperties DEF Full, VideoTyped
  <2>3. result_condition' = Entered(result_condition, Unmarked)
    BY <1>2, <2>2 DEF Push, Entered
  <2>4. /\ result_videos \in Seq(Nat) /\ result_condition \in Seq({Unmarked} \union Kind)
        /\ Len(result_videos) <= Window /\ Len(result_condition) = Len(result_videos)
        /\ Len(result_videos) \in Nat /\ Window \in Nat
    BY WindowIs, LenProperties DEF VideoTyped
  <2>5. /\ result_videos' \in Seq(Nat) /\ Len(result_videos') <= Window
        /\ Len(result_videos') = IF Len(result_videos) = Window THEN Window
                                ELSE Len(result_videos) + 1
    BY <2>1, <2>4, EnteredIs
  <2>6. /\ result_condition' \in Seq({Unmarked} \union Kind)
        /\ Len(result_condition') = IF Len(result_videos) = Window THEN Window
                                   ELSE Len(result_videos) + 1
    BY <2>2, <2>3, <2>4, EnteredIs
  <2> QED
    BY <1>2, <2>1, <2>5, <2>6 DEF Push, VideoTyped, naming
<1>3. CASE RegionHit
  <2>1. result_videos # <<>> /\ Region \in Kind
    BY <1>3 DEF RegionHit, Started, Kind
  <2>2. CASE Raise(Region)
    BY <1>3, <2>1, <2>2, RaiseType DEF RegionHit, VideoTyped
  <2>3. CASE ~Raise(Region)
    BY <1>3, <2>3 DEF RegionHit, VideoTyped
  <2> QED
    BY <2>2, <2>3
<1>4. CASE LineCrossed
  <2>1. result_videos # <<>> /\ Border \in Kind
    BY <1>4 DEF LineCrossed, Started, Kind
  <2> QED
    BY <1>4, <2>1, RaiseType DEF LineCrossed, VideoTyped
<1>5. CASE RegionsDone
  BY <1>5 DEF RegionsDone, VideoTyped, window, naming
<1>9. CASE LinesDone
  BY <1>9 DEF LinesDone, VideoTyped, window, naming
<1>6. CASE SaveRegion \/ SaveBorder
  <2>1. videos' \in Seq(Video)
    BY <1>6, SaveType DEF SaveRegion, SaveBorder, Region, Border, Unmarked, Kind, VideoTyped
  <2>2. CASE SaveRegion
    BY <2>1, <2>2 DEF SaveRegion, VideoTyped, window, naming
  <2>3. CASE SaveBorder
    BY <2>1, <2>3 DEF SaveBorder, VideoTyped, window, naming
  <2> QED
    BY <1>6, <2>2, <2>3
<1>7. CASE SaveRegionFails \/ SaveBorderFails
  BY <1>7 DEF SaveRegionFails, SaveBorderFails, VideoTyped, window, naming
<1>8. CASE UNCHANGED videoVars
  BY <1>8 DEF videoVars, VideoTyped, window, naming
<1> QED
  BY <1>1, <1>2, <1>3, <1>4, <1>5, <1>6, <1>7, <1>8, <1>9 DEF VideoNext

(***************************************************************************)
(* What a step does to the alarms.                                         *)
(***************************************************************************)
LEMMA HasAlarmIs ==
  ASSUME NEW kind, NEW f
  PROVE  HasAlarm(kind, f) <=> \E n \in 1..Len(raised) : raised[n].kind = kind /\ raised[n].frame = f
BY DEF HasAlarm, AlarmsAt

LEMMA AlarmedAfter ==
  ASSUME VideoTyped, result_videos # <<>>, NEW kind \in Kind, Raise(kind)
  PROVE  \A k \in Kind : \A f : HasAlarm(k, f)' <=> HasAlarm(k, f) \/ (k = kind /\ f = arrived)
<1> DEFINE a == [kind |-> kind, frame |-> arrived, id |-> video_id]
<1>1. a \in Alarm /\ raised' = Append(raised, a)
  BY DEF Raise, VideoTyped, Alarm
<1>2. /\ Len(raised) \in Nat /\ Len(raised') = Len(raised) + 1
      /\ raised'[Len(raised')] = a
      /\ \A n \in 1..Len(raised) : raised'[n] = raised[n]
  BY <1>1, RaisedIs
<1> SUFFICES ASSUME NEW k \in Kind, NEW f
             PROVE  (\E n \in 1..Len(raised') : raised'[n].kind = k /\ raised'[n].frame = f)
                    <=> \/ \E n \in 1..Len(raised) : raised[n].kind = k /\ raised[n].frame = f
                        \/ k = kind /\ f = arrived
  BY DEF HasAlarm, AlarmsAt
<1>3. 1..Len(raised') = 1..Len(raised) \union {Len(raised')} /\ Len(raised') \notin 1..Len(raised)
  BY <1>2
<1>4. a.kind = kind /\ a.frame = arrived
  OBVIOUS
<1> HIDE DEF a
<1> QED
  BY <1>2, <1>3, <1>4

LEMMA AlarmedStays ==
  ASSUME raised' = raised
  PROVE  \A k, f : (HasAlarm(k, f)' <=> HasAlarm(k, f)) /\ MarkOf(f)' = MarkOf(f)
BY DEF HasAlarm, AlarmsAt, MarkOf

LEMMA MarkAfter ==
  ASSUME VideoTyped, result_videos # <<>>, NEW kind \in Kind, Raise(kind),
         kind = Region => ~HasAlarm(Border, arrived)
  PROVE  \A f : MarkOf(f)' = IF f = arrived THEN kind ELSE MarkOf(f)
<1>1. Border \in Kind /\ Region \in Kind
  BY DEF Kind
<1>2. \A f : MarkOf(f)' = IF HasAlarm(Border, f)' THEN Border
                          ELSE IF HasAlarm(Region, f)' THEN Region ELSE Unmarked
  BY DEF MarkOf, HasAlarm
<1>3. \A f : MarkOf(f) = IF HasAlarm(Border, f) THEN Border
                         ELSE IF HasAlarm(Region, f) THEN Region ELSE Unmarked
  BY DEF MarkOf, HasAlarm
<1>4. kind = Border \/ kind = Region
  BY DEF Kind
<1> QED
  BY <1>1, <1>2, <1>3, <1>4, AlarmedAfter DEF Border, Region, Unmarked

\* No alarm is of a frame that has not come yet.
LEMMA NoneAhead ==
  ASSUME VideoTyped, RaisedInOrder
  PROVE  /\ \A k \in Kind : ~HasAlarm(k, arrived + 1)
         /\ MarkOf(arrived + 1) = Unmarked
<1>1. \A n \in 1..Len(raised) : raised[n].frame <= arrived /\ raised[n].frame \in Nat
  BY Elements DEF RaisedInOrder
<1>2. \A k : ~HasAlarm(k, arrived + 1)
  BY <1>1, HasAlarmIs DEF VideoTyped
<1> QED
  BY <1>2 DEF MarkOf, HasAlarm

LEMMA OrderStep ==
  ASSUME ConstantsAreRight, VideoTyped, RaisedInOrder, Started, [VideoNext]_videoVars
  PROVE  RaisedInOrder'
<1>0. /\ Len(raised) \in Nat
      /\ \A n \in 1..Len(raised) : raised[n].frame \in Nat
  BY Elements
<1>1. ASSUME NEW kind \in Kind, Raise(kind), arrived' = arrived, vpc' = vpc, vpc # "idle",
             kind = Border => vpc \notin {"regions", "save1"}
      PROVE  RaisedInOrder'
  <2>1. result_videos # <<>>
    BY <1>1 DEF Started
  <2>2. [kind |-> kind, frame |-> arrived, id |-> video_id] \in Alarm
    BY DEF VideoTyped, Alarm
  <2>3. /\ Len(raised') = Len(raised) + 1
        /\ raised'[Len(raised')].frame = arrived
        /\ \A n \in 1..Len(raised) : raised'[n] = raised[n]
    BY <1>1, <2>2, RaisedIs DEF Raise
  <2>4. \A n \in 1..Len(raised') : n \in 1..Len(raised) \/ n = Len(raised')
    BY <1>0, <2>3
  <2>5. \A n \in 1..Len(raised') : raised'[n].frame <= arrived'
    <3> SUFFICES ASSUME NEW n \in 1..Len(raised') PROVE raised'[n].frame <= arrived
      BY <1>1
    <3>1. CASE n \in 1..Len(raised)
      BY <2>3, <3>1 DEF RaisedInOrder
    <3>2. CASE n = Len(raised')
      BY <2>3, <3>2 DEF VideoTyped
    <3> QED
      BY <2>4, <3>1, <3>2
  <2>6. \A m, n \in 1..Len(raised') : m < n => raised'[m].frame <= raised'[n].frame
    <3> SUFFICES ASSUME NEW m \in 1..Len(raised'), NEW n \in 1..Len(raised'), m < n
                 PROVE  raised'[m].frame <= raised'[n].frame
      OBVIOUS
    <3>1. m \in 1..Len(raised)
      BY <1>0, <2>3
    <3> QED
      BY <2>3, <2>4, <3>1 DEF RaisedInOrder
  <2>7. vpc' \in {"regions", "save1"} => ~HasAlarm(Border, arrived)'
    <3> SUFFICES ASSUME vpc \in {"regions", "save1"} PROVE ~HasAlarm(Border, arrived)'
      BY <1>1
    <3>1. kind # Border /\ Border \in Kind /\ ~HasAlarm(Border, arrived)
      BY <1>1 DEF Kind, RaisedInOrder
    <3>2. \A f : HasAlarm(Border, f)' <=> HasAlarm(Border, f)
      BY <1>1, <2>1, <3>1, AlarmedAfter
    <3> QED
      BY <1>1, <3>1, <3>2
  <2> QED
    BY <1>1, <2>5, <2>6, <2>7 DEF RaisedInOrder
<1>2. ASSUME raised' = raised, arrived' \in {arrived, arrived + 1},
             vpc' \in {"regions", "save1"} =>
                 arrived' = arrived + 1 \/ (arrived' = arrived /\ vpc \in {"regions", "save1"})
      PROVE  RaisedInOrder'
  <2>1. \A n \in 1..Len(raised') : raised'[n].frame <= arrived'
    BY <1>0, <1>2 DEF RaisedInOrder, VideoTyped
  <2>2. vpc' \in {"regions", "save1"} => ~HasAlarm(Border, arrived')
    BY <1>2, NoneAhead DEF RaisedInOrder, Kind
  <2>3. \A f : HasAlarm(Border, f)' <=> HasAlarm(Border, f)
    BY <1>2, AlarmedStays
  <2>4. vpc' \in {"regions", "save1"} => ~HasAlarm(Border, arrived)'
    BY <2>2, <2>3
  <2> QED
    BY <1>2, <2>1, <2>4 DEF RaisedInOrder
<1>3. CASE RegionHit
  BY <1>1, <1>2, <1>3 DEF RegionHit, Kind, Region, Border
<1>4. CASE LineCrossed
  BY <1>1, <1>4 DEF LineCrossed, Kind
<1>5. CASE CoverFails \/ Push
  BY <1>2, <1>5 DEF CoverFails, Push, naming
<1>6. CASE RegionsDone \/ LinesDone
  BY <1>2, <1>6 DEF RegionsDone, LinesDone, naming
<1>7. CASE SaveRegion \/ SaveRegionFails \/ SaveBorder \/ SaveBorderFails
  BY <1>2, <1>7 DEF SaveRegion, SaveRegionFails, SaveBorder, SaveBorderFails, naming
<1>8. CASE UNCHANGED videoVars
  BY <1>2, <1>8 DEF videoVars, naming
<1> QED
  BY <1>3, <1>4, <1>5, <1>6, <1>7, <1>8 DEF VideoNext

\* The frame that Push puts into the window, and its mark.
LEMMA PushIs ==
  ASSUME ConstantsAreRight, VideoTyped, Push
  PROVE  /\ Len(result_videos) \in Nat
         /\ Len(result_videos') = IF Len(result_videos) = Window THEN Window
                                  ELSE Len(result_videos) + 1
         /\ Len(result_condition') = Len(result_videos')
         /\ \A k \in 1..Len(result_videos') :
               /\ result_videos'[k] = IF k = Len(result_videos') THEN arrived + 1
                     ELSE result_videos[k + Len(result_videos) + 1 - Len(result_videos')]
               /\ result_condition'[k] = IF k = Len(result_videos') THEN Unmarked
                     ELSE result_condition[k + Len(result_videos) + 1 - Len(result_videos')]
<1>1. /\ result_videos \in Seq(Nat) /\ result_condition \in Seq({Unmarked} \union Kind)
      /\ Len(result_videos) <= Window /\ Len(result_condition) = Len(result_videos)
      /\ Len(result_videos) \in Nat /\ Window \in Nat
      /\ arrived + 1 \in Nat /\ Unmarked \in {Unmarked} \union Kind
  BY WindowIs, LenProperties DEF VideoTyped
<1>2. Full(Append(result_videos, arrived + 1)) <=> Full(Append(result_condition, Unmarked))
  BY <1>1, AppendProperties DEF Full
<1>3. /\ result_videos' = Entered(result_videos, arrived + 1)
      /\ result_condition' = Entered(result_condition, Unmarked)
  BY <1>2 DEF Push, Entered
<1> DEFINE f == Entered(result_videos, arrived + 1)
           c == Entered(result_condition, Unmarked)
<1>6. /\ Len(f) = IF Len(result_videos) = Window THEN Window ELSE Len(result_videos) + 1
      /\ \A k \in 1..Len(f) : f[k] = IF k = Len(f) THEN arrived + 1
                                    ELSE result_videos[k + Len(result_videos) + 1 - Len(f)]
  BY <1>1, EnteredIs
<1>7. /\ Len(c) = IF Len(result_condition) = Window THEN Window ELSE Len(result_condition) + 1
      /\ \A k \in 1..Len(c) : c[k] = IF k = Len(c) THEN Unmarked
                                    ELSE result_condition[k + Len(result_condition) + 1 - Len(c)]
  <2> DEFINE S == {Unmarked} \union Kind
  <2>1. result_condition \in Seq(S) /\ Unmarked \in S /\ Len(result_condition) <= Window
    BY <1>1
  <2> HIDE DEF S
  <2> QED
    BY <2>1, EnteredIs
<1> HIDE DEF f, c
<1>4. /\ Len(result_videos') = IF Len(result_videos) = Window THEN Window
                               ELSE Len(result_videos) + 1
      /\ \A k \in 1..Len(result_videos') :
               result_videos'[k] = IF k = Len(result_videos') THEN arrived + 1
                     ELSE result_videos[k + Len(result_videos) + 1 - Len(result_videos')]
  BY <1>3, <1>6 DEF f
<1>5. /\ Len(result_condition') = IF Len(result_videos) = Window THEN Window
                               ELSE Len(result_videos) + 1
      /\ \A k \in 1..Len(result_condition') :
               result_condition'[k] = IF k = Len(result_condition') THEN Unmarked
                     ELSE result_condition[k + Len(result_condition) + 1 - Len(result_condition')]
  BY <1>1, <1>3, <1>7 DEF c
<1> QED
  BY <1>1, <1>4, <1>5

LEMMA MiddleIs ==
  ASSUME ConstantsAreRight, VideoTyped
  PROVE  /\ Middle # Unmarked => Len(result_videos) = Window
         /\ result_videos = <<>> => Middle = Unmarked
         /\ Middle \in {Unmarked} \union Kind
<1>1. Len(result_condition) = Window => result_condition[Half + 1] \in {Unmarked} \union Kind
  BY WindowIs, ElementOfSeq DEF VideoTyped
<1>2. result_videos = <<>> => Len(result_condition) = 0
  BY EmptySeq DEF VideoTyped
<1> QED
  BY <1>1, <1>2, WindowIs DEF Middle, VideoTyped

LEMMA StartedStep ==
  ASSUME ConstantsAreRight, VideoTyped, Started, [VideoNext]_videoVars
  PROVE  Started'
<1>1. /\ Len(result_videos) \in Nat /\ (result_videos = <<>> <=> Len(result_videos) = 0)
      /\ Window \in Nat /\ Window > 1
  BY LenProperties, EmptySeq, WindowIs DEF VideoTyped
<1>2. CASE CoverFails
  BY <1>2 DEF CoverFails, Started, window
<1>3. CASE Push
  <2>1. vpc' = "regions" /\ frame_id' = frame_id /\ (frame_id = 0 => Len(result_videos) = 0)
    BY <1>1, <1>3 DEF Push, Started
  <2>2. Len(result_videos') > 0 /\ (Len(result_videos) = 0 => Len(result_videos') = 1)
    BY <1>1, <1>3, PushIs
  <2>3. result_videos' # <<>>
    BY <2>2, EmptySeq
  <2> QED
    BY <2>1, <2>2, <2>3 DEF Started
<1>4. CASE RegionHit \/ LineCrossed
  BY <1>4 DEF RegionHit, LineCrossed, Started
<1>5. CASE RegionsDone \/ LinesDone
  BY <1>5 DEF RegionsDone, LinesDone, Started, window
<1>6. CASE SaveRegion
  BY <1>6 DEF SaveRegion, Started, window
<1>7. CASE SaveBorder
  BY <1>7 DEF SaveBorder, Started, window, VideoTyped
<1>8. CASE SaveRegionFails \/ SaveBorderFails
  <2>1. Len(result_videos) = Window /\ frame_id # 0
    <3>1. Middle # Unmarked /\ vpc # "idle"
      BY <1>8 DEF SaveRegionFails, SaveBorderFails, Region, Border, Unmarked
    <3>2. Len(result_videos) = Window
      BY <3>1, MiddleIs
    <3> QED
      BY <1>1, <3>1, <3>2 DEF Started
  <2> QED
    BY <1>8, <2>1 DEF SaveRegionFails, SaveBorderFails, Started, window
<1>9. CASE UNCHANGED videoVars
  BY <1>9 DEF videoVars, window, Started
<1> QED
  BY <1>2, <1>3, <1>4, <1>5, <1>6, <1>7, <1>8, <1>9 DEF VideoNext

\* The two windows stay in step (the pushes and pops of ProcessResult).
LEMMA MarksStep ==
  ASSUME ConstantsAreRight, VideoTyped, RaisedInOrder, Started, MarksMatchFrames, [VideoNext]_videoVars
  PROVE  MarksMatchFrames'
<1>1. /\ Len(result_videos) \in Nat /\ Len(result_condition) = Len(result_videos)
      /\ \A k \in 1..Len(result_videos) :
             /\ result_videos[k] = arrived - Len(result_videos) + k
             /\ result_condition[k] = MarkOf(result_videos[k])
  BY LenProperties DEF VideoTyped, MarksMatchFrames
<1>2. CASE CoverFails
  <2>1. result_videos' = <<>> /\ Len(result_condition') = Len(result_videos')
    BY <1>1, <1>2 DEF CoverFails, Started, window
  <2> QED
    BY <2>1, EmptySeq DEF MarksMatchFrames
<1>3. CASE Push
  <2>1. \A f : MarkOf(f)' = MarkOf(f)
    BY <1>3, AlarmedStays DEF Push, naming
  <2>2. ASSUME NEW k \in 1..Len(result_videos')
        PROVE  /\ result_videos'[k] = arrived' - Len(result_videos') + k
               /\ result_condition'[k] = MarkOf(result_videos'[k])
    <3>1. CASE k = Len(result_videos')
      BY <1>3, <2>2, <3>1, PushIs, NoneAhead, SMTT(20) DEF Push, VideoTyped
    <3>2. CASE k # Len(result_videos')
      <4> DEFINE j == k + Len(result_videos) + 1 - Len(result_videos')
      <4>1. j \in 1..Len(result_videos)
        BY <1>1, <1>3, <2>2, <3>2, PushIs
      <4>2. result_videos'[k] = result_videos[j] /\ result_condition'[k] = result_condition[j]
        BY <1>3, <2>2, <3>2, PushIs
      <4>3. result_videos[j] = arrived - Len(result_videos) + j
        BY <1>1, <4>1
      <4>4. arrived' = arrived + 1 /\ arrived \in Nat /\ Len(result_videos') \in Nat /\ k \in Nat
        BY <1>1, <1>3, <2>2, PushIs, WindowIs DEF Push, VideoTyped
      <4>5. result_videos'[k] = arrived' - Len(result_videos') + k
        BY <1>1, <4>2, <4>3, <4>4
      <4>6. result_condition'[k] = MarkOf(result_videos[j])
        BY <1>1, <4>1, <4>2
      <4> HIDE DEF j
      <4>7. MarkOf(result_videos[j]) = MarkOf(result_videos'[k])
        BY <4>2
      <4> QED
        BY <4>5, <4>6, <4>7, <2>1
    <3> QED
      BY <3>1, <3>2
  <2> QED
    BY <1>3, <2>1, <2>2, PushIs DEF MarksMatchFrames
<1>4. ASSUME NEW kind \in Kind, Raise(kind), UNCHANGED <<arrived, result_videos>>,
             result_videos # <<>>, kind = Region => ~HasAlarm(Border, arrived)
      PROVE  MarksMatchFrames'
  <2>1. \A f : MarkOf(f)' = IF f = arrived THEN kind ELSE MarkOf(f)
    BY <1>4, MarkAfter
  <2>2. /\ Len(result_condition') = Len(result_condition)
        /\ \A k \in 1..Len(result_condition) : result_condition'[k] =
               IF k = Len(result_condition) THEN kind ELSE result_condition[k]
    BY <1>4, RaiseType
  <2>3. \A k \in 1..Len(result_videos) : result_videos[k] = arrived <=> k = Len(result_videos)
    BY <1>1 DEF VideoTyped
  <2> QED
    BY <1>1, <1>4, <2>1, <2>2, <2>3 DEF MarksMatchFrames
<1>5. ASSUME UNCHANGED <<arrived, window, raised>> PROVE MarksMatchFrames'
  BY <1>1, <1>5, AlarmedStays DEF window, MarksMatchFrames
<1>6. CASE RegionHit
  BY <1>4, <1>5, <1>6 DEF RegionHit, Started, RaisedInOrder, Kind, window
<1>7. CASE LineCrossed
  BY <1>4, <1>7 DEF LineCrossed, Started, Kind, Region, Border
<1>8. CASE RegionsDone \/ LinesDone \/ SaveRegion \/ SaveRegionFails \/ SaveBorder \/ SaveBorderFails
  BY <1>5, <1>8 DEF RegionsDone, LinesDone, SaveRegion, SaveRegionFails, SaveBorder,
       SaveBorderFails, naming
<1>9. CASE UNCHANGED videoVars
  BY <1>5, <1>9 DEF videoVars, naming
<1> QED
  BY <1>2, <1>3, <1>6, <1>7, <1>8, <1>9 DEF VideoNext

LEMMA NamesStep ==
  ASSUME ConstantsAreRight, VideoTyped, Started, NamesAreLast, [VideoNext]_videoVars
  PROVE  NamesAreLast'
<1>1. ASSUME NEW kind \in Kind, Raise(kind) PROVE NamesAreLast'
  <2>1. [kind |-> kind, frame |-> arrived, id |-> video_id] \in Alarm
    BY DEF VideoTyped, Alarm
  <2>2. /\ Len(raised) \in Nat /\ Len(raised') = Len(raised) + 1
        /\ raised'[Len(raised')].kind = kind /\ raised'[Len(raised')].id = video_id
        /\ \A n \in 1..Len(raised) : raised'[n] = raised[n]
        /\ 1..Len(raised') = 1..Len(raised) \union {Len(raised')}
    BY <1>1, <2>1, RaisedIs DEF Raise
  <2>3. videoname'[kind] = video_id /\ \A k \in Kind \ {kind} : videoname'[k] = videoname[k]
    BY <1>1 DEF Raise, VideoTyped
  <2> SUFFICES ASSUME NEW k \in Kind, \E n \in 1..Len(raised') : raised'[n].kind = k
               PROVE  \E n \in 1..Len(raised') :
                         /\ raised'[n].kind = k /\ raised'[n].id = videoname'[k]
                         /\ \A m \in 1..Len(raised') : m > n => raised'[m].kind # k
    BY DEF NamesAreLast
  <2>4. CASE k = kind
    <3>1. /\ Len(raised') \in 1..Len(raised')
          /\ \A m \in 1..Len(raised') : ~(m > Len(raised'))
      BY <2>2
    <3> QED
      BY <2>2, <2>3, <2>4, <3>1
  <2>5. CASE k # kind
    <3>1. \E n \in 1..Len(raised) : raised[n].kind = k
      BY <2>2, <2>5
    <3>2. PICK n \in 1..Len(raised) :
                  /\ raised[n].kind = k /\ raised[n].id = videoname[k]
                  /\ \A m \in 1..Len(raised) : m > n => raised[m].kind # k
      BY <3>1 DEF NamesAreLast
    <3>3. /\ n \in 1..Len(raised')
          /\ raised'[n].kind = k /\ raised'[n].id = videoname'[k]
      BY <2>2, <2>3, <2>5, <3>2
    <3>4. \A m \in 1..Len(raised') : m > n => raised'[m].kind # k
      BY <2>2, <2>5, <3>2
    <3> QED
      BY <3>3, <3>4
  <2> QED
    BY <2>4, <2>5
<1>2. ASSUME UNCHANGED <<raised, videoname>> PROVE NamesAreLast'
  BY <1>2 DEF NamesAreLast
<1>3. CASE RegionHit
  BY <1>1, <1>2, <1>3 DEF RegionHit, Kind
<1>4. CASE LineCrossed
  BY <1>1, <1>4 DEF LineCrossed, Kind
<1>5. CASE ~RegionHit /\ ~LineCrossed
  BY <1>2, <1>5 DEF VideoNext, CoverFails, Push, RegionsDone, LinesDone, SaveRegion, SaveRegionFails,
       SaveBorder, SaveBorderFails, videoVars, naming
<1> QED
  BY <1>3, <1>4, <1>5

\* Raise marks the newest frame, which is not the one in the middle.
LEMMA MiddleStays ==
  ASSUME ConstantsAreRight, VideoTyped, result_videos # <<>>, NEW kind \in Kind, Raise(kind)
  PROVE  Middle' = Middle
<1>1. /\ Len(result_condition') = Len(result_condition) /\ Len(result_condition) \in Nat
      /\ \A k \in 1..Len(result_condition) : result_condition'[k] =
               IF k = Len(result_condition) THEN kind ELSE result_condition[k]
  BY RaiseType, LenProperties DEF VideoTyped
<1>2. Len(result_condition) = Window =>
          Half + 1 \in 1..Len(result_condition) /\ Half + 1 # Len(result_condition)
  BY WindowIs
<1>3. Middle' = IF Len(result_condition') = Window THEN result_condition'[Half + 1] ELSE Unmarked
  BY DEF Middle
<1>4. Middle = IF Len(result_condition) = Window THEN result_condition[Half + 1] ELSE Unmarked
  BY DEF Middle
<1> QED
  BY <1>1, <1>2, <1>3, <1>4

\* The window that is saved: its frames, and the alarm in its middle.
LEMMA SavedIs ==
  ASSUME ConstantsAreRight, VideoTyped, MarksMatchFrames, Middle # Unmarked
  PROVE  /\ Len(result_videos) = Window
         /\ result_videos[1] = arrived - Window + 1
         /\ result_videos[Window] = arrived
         /\ Middle = MarkOf(result_videos[1] + Half)
         /\ HasAlarm(Middle, result_videos[1] + Half)
<1>1. Len(result_videos) = Window /\ Middle = result_condition[Half + 1]
  BY MiddleIs DEF Middle
<1>2. /\ Window \in Nat /\ Half \in Nat /\ 1 \in 1..Window /\ Half + 1 \in 1..Window
      /\ Window \in 1..Window /\ arrived \in Nat
  BY WindowIs DEF VideoTyped
<1>3. /\ result_videos[1] = arrived - Window + 1 /\ result_videos[Window] = arrived - Window + Window
      /\ result_videos[Half + 1] = arrived - Window + (Half + 1)
      /\ result_condition[Half + 1] = MarkOf(result_videos[Half + 1])
  BY <1>1, <1>2 DEF MarksMatchFrames
<1>4. result_videos[Half + 1] = result_videos[1] + Half /\ result_videos[Window] = arrived
  BY <1>2, <1>3
<1>5. Middle = MarkOf(result_videos[1] + Half)
  BY <1>1, <1>3, <1>4
<1>6. \A f : MarkOf(f) # Unmarked => HasAlarm(MarkOf(f), f)
  BY DEF MarkOf, HasAlarm
<1> QED
  BY <1>1, <1>3, <1>4, <1>5, <1>6

\* The name of a video is the id of the alarm in its middle, if that alarm is
\* the last one of its kind.
LEMMA NameIs ==
  ASSUME ConstantsAreRight, VideoTyped, RaisedInOrder, NamesAreLast,
         NEW kind \in Kind, NEW f \in Nat, HasAlarm(kind, f),
         \A g \in f + 1 .. arrived : AlarmsAt(kind, g) = {}
  PROVE  \E n \in AlarmsAt(kind, f) : raised[n].id = videoname[kind]
<1>1. PICK n \in 1..Len(raised) : raised[n].kind = kind /\ raised[n].frame = f
  BY HasAlarmIs
<1>2. PICK l \in 1..Len(raised) :
          /\ raised[l].kind = kind /\ raised[l].id = videoname[kind]
          /\ \A m \in 1..Len(raised) : m > l => raised[m].kind # kind
  BY <1>1 DEF NamesAreLast
<1>3. n <= l
  BY <1>1, <1>2
<1>4. raised[n].frame <= raised[l].frame /\ raised[l].frame <= arrived /\ raised[l].frame \in Nat
  <2>1. raised[n].frame \in Nat /\ raised[l].frame \in Nat
    BY Elements
  <2>2. n = l \/ n < l
    BY <1>3
  <2> QED
    BY <2>1, <2>2 DEF RaisedInOrder
<1>5. l \in AlarmsAt(kind, raised[l].frame)
  BY <1>2 DEF AlarmsAt
<1>6. raised[l].frame \notin f + 1 .. arrived
  BY <1>5
<1>7. raised[l].frame = f
  BY <1>1, <1>4, <1>6 DEF VideoTyped
<1> QED
  BY <1>2, <1>5, <1>7

LEMMA NewVideo ==
  ASSUME VideoInv, ConstantsAreRight, NEW kind \in Kind, Middle = kind, SaveVideo(kind),
         \A v \in 1..Len(videos) : videos[v].last < arrived,
         UNCHANGED <<arrived, window, naming>>
  PROVE  /\ VideoAroundAlarm' /\ NamedAfterItsAlarm'
         /\ \A v \in 1..Len(videos') : videos'[v].last <= arrived
         /\ \E v \in 1..Len(videos') : videos'[v].kind = kind
                                       /\ videos'[v].first = result_videos[1]
<1> DEFINE n == Len(videos')
           f == result_videos[1]
<1>0. VideoTyped /\ RaisedInOrder /\ NamesAreLast /\ VideosAreRight /\ MarksMatchFrames
      /\ VideoAroundAlarm /\ NamedAfterItsAlarm /\ Middle # Unmarked
      /\ Window \in Nat /\ Half \in Nat /\ arrived \in Nat
      /\ kind \in {Border, Region}
  BY WindowIs DEF VideoInv, VideosAreRight, Kind, Unmarked, Region, Border, VideoTyped
<1>1. /\ f = arrived - Window + 1 /\ result_videos[Window] = arrived /\ HasAlarm(kind, f + Half)
  BY <1>0, SavedIs
<1>2. /\ Len(videos) \in Nat /\ n = Len(videos) + 1 /\ 1..n = 1..Len(videos) \union {n}
      /\ videos'[n].kind = kind /\ videos'[n].first = f /\ videos'[n].last = arrived
      /\ videos'[n].name = videoname[kind]
      /\ \A v \in 1..Len(videos) : videos'[v] = videos[v]
      /\ f \in Nat
  <2>1. /\ Len(videos) \in Nat /\ n = Len(videos) + 1
        /\ videos'[n] = [kind |-> kind, first |-> f, last |-> result_videos[Window],
                         name |-> videoname[kind]]
        /\ \A v \in 1..Len(videos) : videos'[v] = videos[v]
        /\ videos' \in Seq(Video)
    BY <1>0, SaveType
  <2>2. 1..n = 1..Len(videos) \union {n} /\ n \in 1..n
    BY <2>1
  <2>3. videos'[n] \in Video
    BY <2>1, <2>2, ElementOfSeq
  <2> QED
    BY <1>1, <2>1, <2>2, <2>3 DEF Video
<1>3. \A k \in Kind : \A g : AlarmsAt(k, g)' = AlarmsAt(k, g)
  BY DEF AlarmsAt, naming
<1> HIDE DEF n, f
<1>4. \A v \in 1..Len(videos) : /\ videos[v].kind \in Kind /\ videos[v].first \in Nat
                                /\ videos[v].last \in Nat
                                /\ videos[v].last = videos[v].first + Window - 1
  BY <1>0, Elements DEF VideoAroundAlarm
<1>5. \A v \in 1..Len(videos) : videos'[v].first # f /\ videos'[v].last < arrived
  <2> SUFFICES ASSUME NEW v \in 1..Len(videos)
               PROVE  videos'[v].first # f /\ videos'[v].last < arrived
    OBVIOUS
  <2>1. videos'[v] = videos[v] /\ videos[v].last < arrived
    BY <1>2
  <2>2. videos[v].first \in Nat /\ videos[v].last = videos[v].first + Window - 1
    BY <1>4
  <2> HIDE <1>2, <1>4
  <2> QED
    BY <1>0, <1>1, <2>1, <2>2
<1>6. \A v \in 1..n :
          /\ videos'[v].last = videos'[v].first + Window - 1
          /\ AlarmsAt(videos'[v].kind, videos'[v].first + Half) # {}
          /\ videos'[v].kind \in Kind
  <2> SUFFICES ASSUME NEW v \in 1..n
               PROVE  /\ videos'[v].last = videos'[v].first + Window - 1
                      /\ AlarmsAt(videos'[v].kind, videos'[v].first + Half) # {}
                      /\ videos'[v].kind \in Kind
    OBVIOUS
  <2>1. CASE v \in 1..Len(videos)
    <3>1. videos'[v] = videos[v]
      BY <1>2, <2>1
    <3> QED
      BY <1>0, <1>4, <2>1, <3>1 DEF VideoAroundAlarm
  <2>2. CASE v = n
    <3>1. videos'[v].kind = kind /\ videos'[v].first = f /\ videos'[v].last = arrived
      BY <1>2, <2>2
    <3>2. arrived = f + Window - 1
      BY <1>0, <1>1, <1>2
    <3> QED
      BY <1>1, <3>1, <3>2 DEF HasAlarm
  <2> QED
    BY <1>2, <2>1, <2>2
<1>7. \A v, w \in 1..n : videos'[v].first = videos'[w].first => v = w
  BY <1>0, <1>2, <1>5 DEF VideoAroundAlarm
<1>8. VideoAroundAlarm'
  BY <1>3, <1>6, <1>7 DEF VideoAroundAlarm, n
<1>9. ASSUME NEW v \in 1..n,
             \A g \in videos'[v].first + Half + 1 .. videos'[v].last : AlarmsAt(videos'[v].kind, g) = {}
      PROVE  \E m \in AlarmsAt(videos'[v].kind, videos'[v].first + Half) :
                 raised[m].id = videos'[v].name
  <2>1. CASE v = n
    <3>1. f + Half \in Nat
      BY <1>0, <1>2
    <3>2. \A g \in (f + Half) + 1 .. arrived : AlarmsAt(kind, g) = {}
      BY <1>2, <1>9, <2>1
    <3>3. HasAlarm(kind, f + Half)
      BY <1>1
    <3>4. \E m \in AlarmsAt(kind, f + Half) : raised[m].id = videoname[kind]
      BY <1>0, <3>1, <3>2, <3>3, NameIs
    <3> QED
      BY <1>2, <2>1, <3>4
  <2>2. CASE v \in 1..Len(videos)
    BY <1>0, <1>2, <1>9, <2>2 DEF NamedAfterItsAlarm
  <2> QED
    BY <1>2, <2>1, <2>2
<1>10. NamedAfterItsAlarm'
  <2>1. raised' = raised
    BY DEF naming
  <2> QED
    BY <1>3, <1>6, <1>9, <2>1 DEF NamedAfterItsAlarm, n
<1>11. \A v \in 1..n : videos'[v].last <= arrived
  BY <1>0, <1>2, <1>4, <1>5
<1> QED
  BY <1>2, <1>8, <1>10, <1>11 DEF n, f

\* Alarms come to what was saved, but none is taken away: what holds of the
\* videos goes on to hold while no video is saved.
LEMMA VideosStay ==
  ASSUME VideoInv, ConstantsAreRight, [VideoNext]_videoVars, videos' = videos
  PROVE  VideoAroundAlarm' /\ NamedAfterItsAlarm'
<1>0. VideoTyped /\ Started /\ VideoAroundAlarm /\ NamedAfterItsAlarm
  BY DEF VideoInv, VideosAreRight
<1>1. /\ Len(raised) \in Nat
      /\ Len(raised') >= Len(raised) /\ Len(raised') \in Nat
      /\ \A n \in 1..Len(raised) : raised'[n] = raised[n]
  <2>1. ASSUME NEW kind \in Kind, Raise(kind)
        PROVE  /\ Len(raised') = Len(raised) + 1 /\ Len(raised) \in Nat
               /\ \A n \in 1..Len(raised) : raised'[n] = raised[n]
    <3>1. [kind |-> kind, frame |-> arrived, id |-> video_id] \in Alarm
      BY <1>0 DEF VideoTyped, Alarm
    <3> QED
      BY <1>0, <2>1, <3>1, RaisedIs DEF Raise
  <2>2. Region \in Kind /\ Border \in Kind
    BY DEF Kind
  <2>3. raised' = raised \/ \E kind \in Kind : Raise(kind)
    BY <2>2 DEF VideoNext, CoverFails, Push, RegionHit, RegionsDone, LineCrossed, LinesDone, SaveRegion,
         SaveRegionFails, SaveBorder, SaveBorderFails, videoVars, naming
  <2>4. Len(raised) \in Nat
    BY <1>0, Elements
  <2> QED
    BY <2>1, <2>3, <2>4
<1>2. \A k, g : AlarmsAt(k, g) \subseteq AlarmsAt(k, g)'
  BY <1>1 DEF AlarmsAt
<1>3. VideoAroundAlarm'
  BY <1>0, <1>2 DEF VideoAroundAlarm
<1>4. \A k, g : \A n \in AlarmsAt(k, g) : n \in AlarmsAt(k, g)' /\ raised'[n].id = raised[n].id
  BY <1>1 DEF AlarmsAt
<1>5. \A k, g : AlarmsAt(k, g)' = {} => AlarmsAt(k, g) = {}
  BY <1>2
<1>6. NamedAfterItsAlarm'
  BY <1>0, <1>4, <1>5 DEF NamedAfterItsAlarm
<1> QED
  BY <1>3, <1>6

LEMMA MiddleSame ==
  ASSUME UNCHANGED window PROVE Middle' = Middle
BY DEF Middle, window

LEMMA VideosStep ==
  ASSUME VideoInv, ConstantsAreRight, [VideoNext]_videoVars
  PROVE  SavedOnce' /\ VideoAroundAlarm' /\ NamedAfterItsAlarm' /\ MarkedIsSaved'
<1>0. /\ VideoTyped /\ Started /\ SavedOnce /\ MarkedIsSaved /\ MarksMatchFrames /\ VideosAreRight
      /\ \A v \in 1..Len(videos) : videos[v].last \in Nat
      /\ arrived \in Nat /\ Middle \in {Unmarked} \union Kind
  BY Elements, MiddleIs DEF VideoInv, VideosAreRight, VideoTyped
<1>1. CASE CoverFails
  <2>1. /\ vpc' = "idle" /\ videos' = videos /\ arrived' = arrived + 1
        /\ \A v \in 1..Len(videos) : videos[v].last <= arrived
    BY <1>0, <1>1 DEF CoverFails, SavedOnce
  <2>2. Middle' = Unmarked
    BY <1>0, <1>1, MiddleIs, MiddleSame DEF CoverFails, Started
  <2>3. SavedOnce' /\ MarkedIsSaved'
    BY <1>0, <2>1, <2>2 DEF SavedOnce, MarkedIsSaved
  <2> QED
    BY <2>1, <2>3, VideosStay
<1>2. CASE Push
  <2>1. /\ vpc' = "regions" /\ videos' = videos /\ arrived' = arrived + 1
        /\ \A v \in 1..Len(videos) : videos[v].last <= arrived
    BY <1>0, <1>2 DEF Push, SavedOnce
  <2>2. SavedOnce' /\ MarkedIsSaved'
    BY <1>0, <2>1 DEF SavedOnce, MarkedIsSaved
  <2> QED
    BY <2>1, <2>2, VideosStay
\* The place moves on without a save.
<1>3. ASSUME UNCHANGED <<arrived, videos, result_videos>>, Middle' = Middle,
             \/ vpc' = vpc /\ vpc # "idle"
             \/ vpc = "regions" /\ vpc' = "save1"
             \/ vpc = "lines" /\ vpc' = "save2"
      PROVE  SavedOnce' /\ VideoAroundAlarm' /\ NamedAfterItsAlarm' /\ MarkedIsSaved'
  <2>1. SavedOnce' /\ MarkedIsSaved'
    BY <1>0, <1>3 DEF SavedOnce, MarkedIsSaved
  <2> QED
    BY <1>3, <2>1, VideosStay
<1>4. CASE RegionHit
  <2>1. Middle' = Middle
    <3>1. CASE Raise(Region)
      BY <1>0, <1>4, <3>1, MiddleStays DEF RegionHit, Started, Kind
    <3>2. CASE ~Raise(Region)
      BY <1>4, <3>2, MiddleSame DEF RegionHit, window
    <3> QED
      BY <3>1, <3>2
  <2> QED
    BY <1>3, <1>4, <2>1 DEF RegionHit
<1>5. CASE LineCrossed
  <2>1. Middle' = Middle
    BY <1>0, <1>5, MiddleStays DEF LineCrossed, Started, Kind
  <2> QED
    BY <1>3, <1>5, <2>1 DEF LineCrossed
<1>6. CASE RegionsDone
  BY <1>3, <1>6, MiddleSame DEF RegionsDone, window
<1>7. CASE LinesDone
  BY <1>3, <1>7, MiddleSame DEF LinesDone, window
<1>8. CASE SaveRegion
  <2>1. /\ vpc = "save1" /\ vpc' = "lines" /\ UNCHANGED <<arrived, result_videos, window, naming>>
        /\ Middle' = Middle
        /\ \A v \in 1..Len(videos) : videos[v].last < arrived
    BY <1>0, <1>8, MiddleSame DEF SaveRegion, SavedOnce, window
  <2>2. MarkedIsSaved'
    BY <2>1 DEF MarkedIsSaved
  <2>3. CASE Middle = Region
    <3>1. /\ VideoAroundAlarm' /\ NamedAfterItsAlarm'
          /\ \A v \in 1..Len(videos') : videos'[v].last <= arrived
          /\ \E v \in 1..Len(videos') : videos'[v].kind = Region
                                        /\ videos'[v].first = result_videos[1]
      BY <1>8, <2>1, <2>3, NewVideo DEF SaveRegion, Kind
    <3> QED
      BY <2>1, <2>2, <2>3, <3>1 DEF SavedOnce
  <2>4. CASE Middle # Region
    <3>1. videos' = videos
      BY <1>8, <2>4 DEF SaveRegion
    <3>2. SavedOnce'
      BY <1>0, <2>1, <2>4, <3>1 DEF SavedOnce
    <3> QED
      BY <2>2, <3>1, <3>2, VideosStay
  <2> QED
    BY <2>3, <2>4
<1>9. CASE SaveBorder
  <2>1. /\ vpc = "save2" /\ vpc' = "idle" /\ UNCHANGED <<arrived, result_videos, window, naming, failed>>
        /\ Middle' = Middle
    BY <1>9, MiddleSame DEF SaveBorder, window
  <2>2. CASE Middle = Border
    <3>1. \A v \in 1..Len(videos) : videos[v].last < arrived
      BY <1>0, <2>1, <2>2 DEF SavedOnce, Border, Region
    <3>2. /\ VideoAroundAlarm' /\ NamedAfterItsAlarm'
          /\ \A v \in 1..Len(videos') : videos'[v].last <= arrived
          /\ \E v \in 1..Len(videos') : videos'[v].kind = Border
                                        /\ videos'[v].first = result_videos[1]
      BY <1>9, <2>1, <2>2, <3>1, NewVideo DEF SaveBorder, Kind
    <3> QED
      BY <2>1, <2>2, <3>2 DEF SavedOnce, MarkedIsSaved
  <2>3. CASE Middle # Border
    <3>1. videos' = videos
      BY <1>9, <2>3 DEF SaveBorder
    <3>2. SavedOnce'
      BY <1>0, <2>1, <3>1 DEF SavedOnce
    <3>3. Middle # Unmarked => Middle = Region
      BY <1>0, <2>3 DEF Kind
    <3>4. MarkedIsSaved'
      BY <1>0, <2>1, <3>1, <3>3 DEF SavedOnce, MarkedIsSaved
    <3> QED
      BY <3>1, <3>2, <3>4, VideosStay
  <2> QED
    BY <2>2, <2>3
<1>10. CASE SaveRegionFails \/ SaveBorderFails
  <2>1. /\ vpc # "idle" /\ vpc' = "idle" /\ UNCHANGED <<arrived, videos>> /\ arrived \in failed'
        /\ \A v \in 1..Len(videos) : videos[v].last <= arrived
    BY <1>0, <1>10 DEF SaveRegionFails, SaveBorderFails, SavedOnce
  <2>2. SavedOnce' /\ MarkedIsSaved'
    BY <2>1 DEF SavedOnce, MarkedIsSaved
  <2> QED
    BY <2>1, <2>2, VideosStay
<1>11. CASE UNCHANGED videoVars
  <2>1. UNCHANGED <<arrived, vpc, result_videos, videos, failed>> /\ Middle' = Middle
    BY <1>11, MiddleSame DEF videoVars, window
  <2>2. SavedOnce' /\ MarkedIsSaved'
    BY <1>0, <2>1 DEF SavedOnce, MarkedIsSaved
  <2> QED
    BY <2>1, <2>2, VideosStay
<1> QED
  BY <1>1, <1>2, <1>4, <1>5, <1>6, <1>7, <1>8, <1>9, <1>10, <1>11 DEF VideoNext

LEMMA VideoInvInit == ConstantsAreRight /\ VideoInit => VideoInv
<1> SUFFICES ASSUME ConstantsAreRight, VideoInit PROVE VideoInv
  OBVIOUS
<1>1. Len(raised) = 0 /\ Len(videos) = 0 /\ Len(result_videos) = 0 /\ Len(result_condition) = 0
  BY EmptySeq DEF VideoInit
<1>2. VideoTyped
  BY VideoTypedInit
<1>3. Middle = Unmarked
  BY <1>2, MiddleIs DEF VideoInit
<1> QED
  BY <1>1, <1>2, <1>3 DEF VideoInit, VideoInv, RaisedInOrder, Started, NamesAreLast, SavedOnce, VideosAreRight,
     MarksMatchFrames, VideoAroundAlarm, NamedAfterItsAlarm, MarkedIsSaved

LEMMA VideoInvStep == ConstantsAreRight /\ VideoInv /\ [VideoNext]_videoVars => VideoInv'
<1> SUFFICES ASSUME ConstantsAreRight, VideoInv, [VideoNext]_videoVars PROVE VideoInv'
  OBVIOUS
<1>1. VideoTyped /\ RaisedInOrder /\ Started /\ NamesAreLast /\ MarksMatchFrames
  BY DEF VideoInv, VideosAreRight
<1> QED
  BY <1>1, VideoTypedStep, OrderStep, StartedStep, NamesStep, MarksStep, VideosStep DEF VideoInv, VideosAreRight

(***************************************************************************)
(* The trails.                                                             *)
(***************************************************************************)
Entries == [frame : Nat, trail : Nat, since : Nat, picture : BOOLEAN, stale : BOOLEAN]

TrailTyped ==
    /\ {frame, left, persons, changes, checked, names} \subseteq Nat /\ frame <= TrailFrames
    /\ tpc \in {"idle", "assign", "lines"}
    /\ tpc # "idle" => frame > 0
    /\ tpc = "assign" => checked = 0 /\ left <= persons
    /\ DOMAIN trails \subseteq 1..names /\ trails \in [DOMAIN trails -> Trail]
    /\ log \in Seq(Entries)

\* Alarms are of trails and frames that have been.
LoggedBefore ==
    \A k \in 1..Len(log) :
        /\ log[k].trail <= names
        /\ log[k].frame <= frame /\ (tpc = "assign" => log[k].frame < frame)

\* A trail with one point crosses nothing, and one that has more has been
\* seen since its last alarm.
SeenSinceAlarm ==
    \A n \in DOMAIN trails :
        /\ trails[n].crosses # {} => trails[n].length > 1
        /\ \A k \in 1..Len(log) : log[k].trail = n /\ trails[n].length > 1 =>
              trails[n].last > log[k].frame

\* A trail that crosses a line and is not stale was extended in this frame,
\* which so shows a person; and of those that were checked none crosses.
CrossesNow ==
    /\ \A n \in DOMAIN trails : trails[n].crosses # {} /\ ~trails[n].stale =>
          tpc # "idle" /\ persons > 0
    /\ tpc = "lines" => \A n \in DOMAIN trails : n <= checked => trails[n].crosses = {}

TrailInv == TrailTyped /\ LoggedBefore /\ SeenSinceAlarm /\ CrossesNow /\ TrailsAreRight

(***************************************************************************)
(* Both.                                                                   *)
(***************************************************************************)

\* Where ProcessResult has got to, as each half sees it; and the window holds
\* the frames that the trails have seen.
InStep ==
    /\ vpc \in {"idle", "save2"} => tpc = "idle"
    /\ vpc \in {"regions", "save1"} => tpc = "assign"
    /\ vpc = "lines" => tpc = IF Sampled THEN "lines" ELSE "idle"
    /\ Len(result_videos) = IF frame < Window THEN frame ELSE Window
    /\ frame <= arrived

\* A crossing is a border alarm, and a border alarm is a crossing.
Matched ==
    /\ \A n \in 1..Len(log) : log[n].frame \in 1..frame /\ AlarmsAt(Border, log[n].frame + Shift) # {}
    /\ \A k \in 1..Len(raised) : raised[k].kind = Border =>
          \E n \in 1..Len(log) : log[n].frame + Shift = raised[k].frame

\* What EachCrossingIsFilmed says of the frames whose video is over and done.
FilmedByNow ==
    \A n \in 1..Len(log) :
        LET last == log[n].frame + Shift + Half - 1
        IN  log[n].frame > Half /\ arrived > last /\ last \notin failed =>
                Filmed(log[n].frame + Shift)

JointInv == InStep /\ Matched /\ FilmedByNow

ProductInv == VideoInv /\ TrailInv /\ (part = "engine" => JointInv)

-----------------------------------------------------------------------------
(***************************************************************************)
(* What the functions of class Trail make of a trail.                      *)
(***************************************************************************)
LEMMA OlderTrail ==
  ASSUME NEW t \in Trail, check_states(t)
  PROVE  LET u == update_states_common(t)
         IN  /\ u \in Trail /\ u.count = t.count + 1 /\ u.open /\ u.length = t.length
             /\ u.crosses = t.crosses /\ u.last = t.last /\ (u.stale <=> t.stale)
<1>1. t.count \in 0..TimeStamp /\ t.count < TimeStamp
  BY DEF Trail, check_states
<1>2. t.count + 1 \in 0..TimeStamp
  BY <1>1, EngineAssumption
<1> QED
  BY <1>2 DEF Trail, update_states_common

LEMMA ExtendedTrail ==
  ASSUME TrailTyped, tpc = "assign", NEW t \in Trail, NEW lines \in SUBSET Line
  PROVE  LET u == Extended(t, lines)
         IN  /\ u \in Trail /\ u.count = 0 /\ ~u.open /\ u.last = frame /\ ~u.stale
             /\ u.crosses # {} => u.length > 1
<1>1. frame \in 1..TrailFrames /\ t.length \in 1..Much /\ 0 \in 0..TimeStamp /\ Much \in Nat
  BY EngineAssumption DEF TrailTyped, Trail
<1>2. CASE t.length + 1 > Much
  <2>1. Extended(t, lines) = [count |-> 0, open |-> FALSE, last |-> frame, stale |-> FALSE,
                              length |-> 1, crosses |-> {}]
    BY <1>2 DEF Extended
  <2>2. 1 \in 1..Much
    BY <1>1
  <2> QED
    BY <1>1, <2>1, <2>2 DEF Trail
<1>3. CASE ~(t.length + 1 > Much)
  <2>1. Extended(t, lines) = [count |-> 0, open |-> FALSE, last |-> frame, stale |-> FALSE,
                              length |-> t.length + 1, crosses |-> lines]
    BY <1>3 DEF Extended
  <2>2. t.length + 1 \in 1..Much /\ t.length + 1 > 1
    BY <1>1, <1>3
  <2> QED
    BY <1>1, <2>1, <2>2 DEF Trail
<1> QED
  BY <1>2, <1>3

LEMMA ClearedTrail ==
  ASSUME NEW t \in Trail, NEW l
  PROVE  LET u == Cleared(t, l)
         IN  /\ u \in Trail /\ u.count = t.count /\ (u.open <=> t.open) /\ u.length = 1
             /\ u.crosses = {} /\ u.last = t.last /\ (u.stale <=> t.stale)
<1>1. 1 \in 1..Much
  BY EngineAssumption
<1> QED
  BY <1>1 DEF Trail, Cleared

LEMMA StaleTrail ==
  ASSUME NEW t \in Trail, NEW b \in BOOLEAN
  PROVE  LET u == [t EXCEPT !.stale = b]
         IN  /\ u \in Trail /\ u.count = t.count /\ (u.open <=> t.open) /\ u.length = t.length
             /\ u.crosses = t.crosses /\ u.last = t.last /\ (u.stale <=> b)
BY DEF Trail

-----------------------------------------------------------------------------
(***************************************************************************)
(* Each action, as what it does to every trail.                            *)
(***************************************************************************)
\* The same trail in every respect but its age and whether it is open or stale.
SameCourse(u, t) ==
    u.length = t.length /\ u.crosses = t.crosses /\ u.last = t.last

LEMMA Frames ==
  ASSUME TrailTyped, NextFrame
  PROVE  /\ trails' \in [DOMAIN trails' -> Trail] /\ DOMAIN trails' \subseteq DOMAIN trails
         /\ \A n \in DOMAIN trails' :
               /\ SameCourse(trails'[n], trails[n]) /\ (trails'[n].stale <=> trails[n].stale)
               /\ trails'[n].count = trails[n].count + 1 /\ trails'[n].open
<1> DEFINE S == {m \in DOMAIN trails : check_states(trails[m])}
<1>1. trails' = [n \in S |-> update_states_common(trails[n])]
  BY DEF NextFrame, Age
<1>2. DOMAIN trails' = S
  BY <1>1
<1>3. ASSUME NEW n \in S
      PROVE  /\ trails'[n] \in Trail
             /\ SameCourse(trails'[n], trails[n]) /\ (trails'[n].stale <=> trails[n].stale)
             /\ trails'[n].count = trails[n].count + 1 /\ trails'[n].open
  <2>1. trails[n] \in Trail /\ check_states(trails[n])
    BY DEF TrailTyped
  <2>2. trails'[n] = update_states_common(trails[n])
    BY <1>1
  <2> QED
    BY <2>1, <2>2, OlderTrail DEF SameCourse
<1> HIDE DEF S
<1>4. trails' \in [S -> Trail]
  BY <1>1, <1>2, <1>3
<1> QED
  BY <1>2, <1>3, <1>4 DEF S

LEMMA Inserts ==
  ASSUME TrailTyped, NEW n \in DOMAIN trails, Insert(n)
  PROVE  /\ trails' \in [DOMAIN trails -> Trail] /\ DOMAIN trails' = DOMAIN trails
         /\ \A m \in DOMAIN trails : m # n => trails'[m] = trails[m]
         /\ trails'[n].count = 0 /\ ~trails'[n].open /\ trails'[n].last = frame
         /\ ~trails'[n].stale /\ (trails'[n].crosses # {} => trails'[n].length > 1)
<1>1. PICK lines \in SUBSET Line : trails' = [trails EXCEPT ![n] = Extended(trails[n], lines)]
  BY DEF Insert
<1>2. trails \in [DOMAIN trails -> Trail] /\ trails[n] \in Trail
  BY DEF TrailTyped
<1>3. trails'[n] = Extended(trails[n], lines)
  BY <1>1, <1>2
<1>4. tpc = "assign"
  BY DEF Insert
<1>5. /\ trails'[n] \in Trail /\ trails'[n].count = 0 /\ ~trails'[n].open /\ trails'[n].last = frame
      /\ ~trails'[n].stale /\ (trails'[n].crosses # {} => trails'[n].length > 1)
  BY <1>2, <1>3, <1>4, ExtendedTrail
<1> QED
  BY <1>1, <1>2, <1>3, <1>5

LEMMA Appends ==
  ASSUME TrailTyped, NewTrail
  PROVE  /\ trails' \in [DOMAIN trails' -> Trail] /\ DOMAIN trails' = DOMAIN trails \union {names + 1}
         /\ \A m \in DOMAIN trails : m # names + 1 /\ trails'[m] = trails[m]
         /\ trails'[names + 1].count = 0 /\ ~trails'[names + 1].open
         /\ trails'[names + 1].last = frame /\ trails'[names + 1].length = 1
         /\ trails'[names + 1].crosses = {}
<1> DEFINE new == [count |-> 0, open |-> FALSE, length |-> 1, crosses |-> {},
                   last |-> frame, stale |-> FALSE]
           e == names + 1
           S == DOMAIN trails \union {e}
<1>1. trails' = [m \in S |-> IF m = e THEN new ELSE trails[m]]
  BY DEF NewTrail
<1>2. DOMAIN trails' = S /\ trails'[e] = new /\ \A m \in S : trails'[m] = IF m = e THEN new ELSE trails[m]
  BY <1>1
<1>3. new \in Trail
  <2>1. 0 \in 0..TimeStamp /\ 1 \in 1..Much /\ frame \in 1..TrailFrames
    BY EngineAssumption DEF TrailTyped, NewTrail
  <2> QED
    BY <2>1 DEF Trail
<1>4. \A m \in DOMAIN trails : m # e /\ trails[m] \in Trail
  BY DEF TrailTyped
<1>5. \A m \in S : trails'[m] \in Trail
  BY <1>2, <1>3, <1>4
<1>6. trails' \in [S -> Trail]
  <2> HIDE DEF S, new, e
  <2> QED
    BY <1>1, <1>2, <1>5
<1>7. \A m \in DOMAIN trails : trails'[m] = trails[m]
  BY <1>2, <1>4
<1> QED
  BY <1>2, <1>4, <1>6, <1>7

LEMMA Skips ==
  ASSUME TrailTyped, Skipped
  PROVE  /\ trails' \in [DOMAIN trails -> Trail] /\ DOMAIN trails' = DOMAIN trails
         /\ \A n \in DOMAIN trails :
               /\ SameCourse(trails'[n], trails[n]) /\ trails'[n].stale
               /\ trails'[n].count = trails[n].count
<1>1. trails' = [n \in DOMAIN trails |-> [trails[n] EXCEPT !.stale = TRUE]]
  BY DEF Skipped
<1>2. ASSUME NEW n \in DOMAIN trails
      PROVE  /\ trails'[n] \in Trail /\ SameCourse(trails'[n], trails[n]) /\ trails'[n].stale
             /\ trails'[n].count = trails[n].count
  <2>1. trails[n] \in Trail /\ trails'[n] = [trails[n] EXCEPT !.stale = TRUE]
    BY <1>1 DEF TrailTyped
  <2> QED
    BY <2>1, StaleTrail DEF SameCourse
<1> QED
  BY <1>1, <1>2

LEMMA Crossings ==
  ASSUME TrailTyped, NEW n \in DOMAIN trails, Crosses(n)
  PROVE  /\ trails' \in [DOMAIN trails -> Trail] /\ DOMAIN trails' = DOMAIN trails
         /\ \A m \in DOMAIN trails : m # n => trails'[m] = trails[m]
         /\ trails'[n].count = trails[n].count /\ (trails'[n].open <=> trails[n].open)
         /\ trails'[n].length = 1 /\ trails'[n].crosses = {} /\ trails'[n].last = trails[n].last
         /\ trails[n].crosses # {}
<1>1. PICK l \in trails[n].crosses : trails' = [trails EXCEPT ![n] = Cleared(trails[n], l)]
  BY DEF Crosses, Alarmed
<1>2. trails \in [DOMAIN trails -> Trail] /\ trails[n] \in Trail
  BY DEF TrailTyped
<1>3. trails'[n] = Cleared(trails[n], l)
  BY <1>1, <1>2
<1>4. /\ trails'[n] \in Trail /\ trails'[n].count = trails[n].count
      /\ (trails'[n].open <=> trails[n].open) /\ trails'[n].length = 1
      /\ trails'[n].crosses = {} /\ trails'[n].last = trails[n].last
  BY <1>2, <1>3, ClearedTrail
<1> QED
  BY <1>1, <1>2, <1>3, <1>4

LEMMA Checks ==
  ASSUME TrailTyped, NEW n \in DOMAIN trails, CrossesNone(n)
  PROVE  /\ trails' \in [DOMAIN trails -> Trail] /\ DOMAIN trails' = DOMAIN trails
         /\ \A m \in DOMAIN trails : m # n => trails'[m] = trails[m]
         /\ SameCourse(trails'[n], trails[n]) /\ trails'[n].count = trails[n].count
         /\ (trails'[n].open <=> trails[n].open) /\ trails[n].crosses = {}
<1>1. trails' = [trails EXCEPT ![n].stale = FALSE] /\ trails[n].crosses = {}
  BY DEF CrossesNone
<1>2. trails \in [DOMAIN trails -> Trail] /\ trails[n] \in Trail
  BY DEF TrailTyped
<1>3. trails'[n] = [trails[n] EXCEPT !.stale = FALSE]
  BY <1>1, <1>2
<1>4. /\ trails'[n] \in Trail /\ SameCourse(trails'[n], trails[n])
      /\ trails'[n].count = trails[n].count /\ (trails'[n].open <=> trails[n].open)
  BY <1>2, <1>3 DEF SameCourse, Trail
<1> QED
  BY <1>1, <1>2, <1>3, <1>4

LEMMA Changes ==
  ASSUME TrailTyped, BordersChange
  PROVE  /\ trails' \in [DOMAIN trails -> Trail] /\ DOMAIN trails' = DOMAIN trails
         /\ \A n \in DOMAIN trails :
               /\ trails'[n].count = trails[n].count /\ trails'[n].length = trails[n].length
               /\ trails'[n].last = trails[n].last /\ trails'[n].stale
               /\ trails'[n].crosses # {} => trails[n].length > 1
<1>1. PICK lines \in [DOMAIN trails -> SUBSET Line] :
          trails' = [n \in DOMAIN trails |->
              [trails[n] EXCEPT !.crosses = IF trails[n].length > 1 THEN lines[n] ELSE {},
                                !.stale = TRUE]]
  BY DEF BordersChange
<1>2. ASSUME NEW n \in DOMAIN trails
      PROVE  /\ trails'[n] \in Trail
             /\ trails'[n].count = trails[n].count /\ trails'[n].length = trails[n].length
             /\ trails'[n].last = trails[n].last /\ trails'[n].stale
             /\ trails'[n].crosses # {} => trails[n].length > 1
  <2>1. trails[n] \in Trail /\ lines[n] \in SUBSET Line
    BY DEF TrailTyped
  <2>2. trails'[n] = [trails[n] EXCEPT !.crosses = IF trails[n].length > 1 THEN lines[n] ELSE {},
                                       !.stale = TRUE]
    BY <1>1
  <2> DEFINE c == IF trails[n].length > 1 THEN lines[n] ELSE {}
  <2>3. c \in SUBSET Line /\ (c # {} => trails[n].length > 1)
    BY <2>1
  <2>4. trails'[n] = [trails[n] EXCEPT !.crosses = c, !.stale = TRUE]
    BY <2>2
  <2> HIDE DEF c
  <2> QED
    BY <2>1, <2>3, <2>4 DEF Trail
<1> QED
  BY <1>1, <1>2

-----------------------------------------------------------------------------
(***************************************************************************)
(* The invariant of the trails, part by part.                              *)
(***************************************************************************)
LEMMA TrailInvInit == TrailInit => TrailInv
<1> SUFFICES ASSUME TrailInit PROVE TrailInv
  OBVIOUS
<1>1. DOMAIN trails = {} /\ trails \in [DOMAIN trails -> Trail]
  BY DEF TrailInit
<1>2. log \in Seq(Entries) /\ Len(log) = 0
  BY EmptySeq DEF TrailInit
<1>3. TrailTyped
  BY <1>1, <1>2, EngineAssumption DEF TrailInit, TrailTyped
<1> QED
  BY <1>1, <1>2, <1>3 DEF TrailInit, TrailInv, LoggedBefore, SeenSinceAlarm, CrossesNow,
     TrailsAreRight, AgeIsSilence, OneAlarmPerCrossing, PictureMissingExplained

\* The alarm that is logged.
LEMMA Logged ==
  ASSUME TrailTyped, NEW n \in DOMAIN trails, Crosses(n)
  PROVE  /\ Len(log) \in Nat /\ Len(log') = Len(log) + 1 /\ log' \in Seq(Entries)
         /\ \A k \in 1..Len(log) : log'[k] = log[k]
         /\ \A k \in 1..Len(log') : k \in 1..Len(log) \/ k = Len(log')
         /\ log'[Len(log')].frame = frame /\ log'[Len(log')].trail = n
         /\ log'[Len(log')].since = trails[n].last
         /\ (log'[Len(log')].picture <=> persons > 0)
         /\ (log'[Len(log')].stale <=> trails[n].stale)
<1> DEFINE e == [frame |-> frame, trail |-> n, since |-> trails[n].last,
                 picture |-> persons > 0, stale |-> trails[n].stale]
<1>1. log' = Append(log, e)
  BY DEF Crosses, Alarmed
<1>2. e \in Entries
  <2>1. n \in Nat /\ frame \in Nat /\ trails[n] \in Trail
    BY DEF TrailTyped
  <2> QED
    BY <2>1, EngineAssumption DEF Entries, Trail
<1>0. /\ e.frame = frame /\ e.trail = n /\ e.since = trails[n].last
      /\ (e.picture <=> persons > 0) /\ (e.stale <=> trails[n].stale)
  OBVIOUS
<1> HIDE DEF e
<1>3. /\ log' \in Seq(Entries) /\ Len(log') = Len(log) + 1 /\ log'[Len(log) + 1] = e
      /\ \A k \in 1..Len(log) : log'[k] = log[k]
  BY <1>1, <1>2, AppendProperties DEF TrailTyped
<1>4. Len(log) \in Nat
  BY LenProperties DEF TrailTyped
<1> QED
  BY <1>0, <1>3, <1>4

LEMMA TrailTypedStep == TrailTyped /\ [TrailNext]_trailVars => TrailTyped'
<1> SUFFICES ASSUME TrailTyped, [TrailNext]_trailVars PROVE TrailTyped'
  OBVIOUS
<1>0. \A n \in DOMAIN trails : n \in Nat /\ n <= names
  BY DEF TrailTyped
<1>1. CASE NextFrame
  <2>1. frame' \in Nat /\ frame' <= TrailFrames /\ frame' > 0
    BY <1>1, EngineAssumption DEF NextFrame, TrailTyped
  <2>2. persons' \in Nat /\ left' \in Nat /\ left' <= persons'
    BY <1>1, EngineAssumption DEF NextFrame
  <2>3. DOMAIN trails' \subseteq 1..names' /\ trails' \in [DOMAIN trails' -> Trail]
    BY <1>1, Frames DEF NextFrame, TrailTyped
  <2> QED
    BY <1>1, <2>1, <2>2, <2>3 DEF NextFrame, TrailTyped
<1>2. CASE NewTrail
  <2>1. names' = names + 1 /\ names' \in Nat /\ left' \in Nat /\ left' <= persons
    BY <1>2 DEF NewTrail, TrailTyped
  <2>2. DOMAIN trails' \subseteq 1..names' /\ trails' \in [DOMAIN trails' -> Trail]
    BY <1>2, <2>1, Appends DEF TrailTyped
  <2> QED
    BY <1>2, <2>1, <2>2 DEF NewTrail, TrailTyped
<1>3. CASE Assigned
  BY <1>3 DEF Assigned, TrailTyped
<1>4. CASE Skipped
  BY <1>4, Skips DEF Skipped, TrailTyped
<1>5. CASE End
  BY <1>5 DEF End, TrailTyped
<1>6. CASE BordersChange
  <2>1. changes' = changes + 1 /\ changes \in Nat
    BY <1>6 DEF BordersChange, TrailTyped
  <2>2. changes' \in Nat
    BY <2>1
  <2>3. UNCHANGED <<frame, tpc, left, persons, checked, names, log>>
    BY <1>6 DEF BordersChange
  <2>4. DOMAIN trails' \subseteq 1..names /\ trails' \in [DOMAIN trails' -> Trail]
    BY <1>6, Changes DEF TrailTyped
  <2> QED
    BY <2>2, <2>3, <2>4 DEF TrailTyped
<1>7. ASSUME NEW n \in DOMAIN trails, Insert(n) PROVE TrailTyped'
  <2>1. left' \in Nat /\ left' <= persons
    BY <1>7 DEF Insert, TrailTyped
  <2> QED
    BY <1>7, <2>1, Inserts DEF Insert, TrailTyped
<1>8. ASSUME NEW n \in DOMAIN trails, Crosses(n) PROVE TrailTyped'
  BY <1>8, Crossings, Logged DEF Crosses, TrailTyped, Turn
<1>9. ASSUME NEW n \in DOMAIN trails, CrossesNone(n) PROVE TrailTyped'
  BY <1>0, <1>9, Checks DEF CrossesNone, TrailTyped, Turn
<1>10. CASE UNCHANGED trailVars
  BY <1>10 DEF trailVars, TrailTyped
<1> QED
  BY <1>1, <1>2, <1>3, <1>4, <1>5, <1>6, <1>7, <1>8, <1>9, <1>10 DEF TrailNext

LEMMA AgeStep == TrailTyped /\ AgeIsSilence /\ [TrailNext]_trailVars => AgeIsSilence'
<1> SUFFICES ASSUME TrailTyped, AgeIsSilence, [TrailNext]_trailVars PROVE AgeIsSilence'
  OBVIOUS
<1>0. \A n \in DOMAIN trails : /\ n \in Nat /\ n <= names /\ trails[n] \in Trail
                               /\ trails[n].last \in Nat /\ trails[n].count \in Nat
                               /\ trails[n].count = frame - trails[n].last
                               /\ trails[n].last <= frame
  BY EngineAssumption DEF TrailTyped, Trail, AgeIsSilence
<1>1. CASE NextFrame
  <2>1. frame' = frame + 1 /\ tpc' = "assign" /\ frame \in Nat
    BY <1>1 DEF NextFrame, TrailTyped
  <2> SUFFICES ASSUME NEW n \in DOMAIN trails'
               PROVE  /\ trails'[n].count = frame' - trails'[n].last
                      /\ trails'[n].open <=> trails'[n].last < frame'
    BY <2>1 DEF AgeIsSilence
  <2>2. /\ n \in DOMAIN trails /\ trails'[n].last = trails[n].last
        /\ trails'[n].count = trails[n].count + 1 /\ trails'[n].open
    BY <1>1, Frames DEF SameCourse
  <2> QED
    BY <1>0, <2>1, <2>2
<1>2. CASE NewTrail
  <2>1. frame' = frame /\ tpc' = tpc /\ tpc = "assign" /\ frame \in Nat
    BY <1>2 DEF NewTrail, TrailTyped
  <2> QED
    BY <1>2, <2>1, Appends DEF AgeIsSilence
<1>3. CASE Assigned
  BY <1>3 DEF Assigned, AgeIsSilence
<1>4. CASE Skipped
  <2>1. frame' = frame /\ tpc' = "idle"
    BY <1>4 DEF Skipped
  <2> QED
    BY <1>4, <2>1, Skips DEF AgeIsSilence, SameCourse
<1>5. CASE End
  BY <1>5 DEF End, AgeIsSilence
<1>6. CASE BordersChange
  <2>1. frame' = frame /\ tpc' = "idle"
    BY <1>6 DEF BordersChange
  <2> QED
    BY <1>6, <2>1, Changes DEF AgeIsSilence
<1>7. ASSUME NEW n \in DOMAIN trails, Insert(n) PROVE AgeIsSilence'
  <2>1. frame' = frame /\ tpc' = tpc /\ frame \in Nat
    BY <1>7 DEF Insert, TrailTyped
  <2> QED
    BY <1>7, <2>1, Inserts DEF AgeIsSilence
<1>8. ASSUME NEW n \in DOMAIN trails, Crosses(n) PROVE AgeIsSilence'
  <2>1. frame' = frame /\ tpc' = tpc
    BY <1>8 DEF Crosses
  <2> QED
    BY <1>8, <2>1, Crossings DEF AgeIsSilence
<1>9. ASSUME NEW n \in DOMAIN trails, CrossesNone(n) PROVE AgeIsSilence'
  <2>1. frame' = frame /\ tpc' = tpc
    BY <1>9 DEF CrossesNone
  <2> QED
    BY <1>9, <2>1, Checks DEF AgeIsSilence, SameCourse
<1>10. CASE UNCHANGED trailVars
  BY <1>10 DEF trailVars, AgeIsSilence
<1> QED
  BY <1>1, <1>2, <1>3, <1>4, <1>5, <1>6, <1>7, <1>8, <1>9, <1>10 DEF TrailNext

LEMMA LoggedStep == TrailTyped /\ LoggedBefore /\ [TrailNext]_trailVars => LoggedBefore'
<1> SUFFICES ASSUME TrailTyped, LoggedBefore, [TrailNext]_trailVars PROVE LoggedBefore'
  OBVIOUS
<1>0. /\ frame \in Nat /\ names \in Nat
      /\ \A k \in 1..Len(log) : log[k].frame \in Nat /\ log[k].trail \in Nat
  <2>1. \A k \in 1..Len(log) : log[k] \in Entries
    BY LenProperties DEF TrailTyped
  <2> QED
    BY <2>1 DEF TrailTyped, Entries
<1>1. CASE NextFrame
  BY <1>0, <1>1 DEF NextFrame, LoggedBefore
<1>2. CASE NewTrail
  BY <1>0, <1>2 DEF NewTrail, LoggedBefore
<1>3. CASE Assigned \/ Skipped \/ End \/ BordersChange \/ UNCHANGED trailVars
  BY <1>3 DEF Assigned, Skipped, End, BordersChange, trailVars, LoggedBefore
<1>4. ASSUME NEW n \in DOMAIN trails, Insert(n) \/ CrossesNone(n) PROVE LoggedBefore'
  BY <1>4 DEF Insert, CrossesNone, LoggedBefore
<1>5. ASSUME NEW n \in DOMAIN trails, Crosses(n) PROVE LoggedBefore'
  <2>1. frame' = frame /\ tpc' = "lines" /\ names' = names /\ n <= names
    BY <1>5 DEF Crosses, Turn, TrailTyped
  <2> SUFFICES ASSUME NEW k \in 1..Len(log')
               PROVE  log'[k].trail <= names /\ log'[k].frame <= frame
    BY <2>1 DEF LoggedBefore
  <2>2. CASE k \in 1..Len(log)
    BY <1>5, <2>2, Logged DEF LoggedBefore
  <2>3. CASE k = Len(log')
    <3>1. log'[k].frame = frame /\ log'[k].trail = n
      BY <1>5, <2>3, Logged
    <3> QED
      BY <1>0, <2>1, <3>1
  <2> QED
    BY <1>5, <2>2, <2>3, Logged
<1> QED
  BY <1>1, <1>2, <1>3, <1>4, <1>5 DEF TrailNext

LEMMA SeenStep ==
  TrailTyped /\ LoggedBefore /\ SeenSinceAlarm /\ [TrailNext]_trailVars => SeenSinceAlarm'
<1> SUFFICES ASSUME TrailTyped, LoggedBefore, SeenSinceAlarm, [TrailNext]_trailVars
             PROVE  SeenSinceAlarm'
  OBVIOUS
<1> DEFINE Seen(n) ==
        /\ trails[n].crosses # {} => trails[n].length > 1
        /\ \A k \in 1..Len(log) : log[k].trail = n /\ trails[n].length > 1 =>
              trails[n].last > log[k].frame
<1>0. (\A n \in DOMAIN trails : Seen(n)) /\ (SeenSinceAlarm' <=> \A n \in DOMAIN trails' : Seen(n)')
  BY DEF SeenSinceAlarm
<1>1. CASE NextFrame
  <2>1. log' = log
    BY <1>1 DEF NextFrame
  <2> QED
    BY <1>0, <1>1, <2>1, Frames DEF SameCourse
<1>2. CASE NewTrail
  <2>1. log' = log /\ \A k \in 1..Len(log) : log[k].trail # names + 1
    <3>1. \A k \in 1..Len(log) : log[k].trail \in Nat /\ log[k].trail <= names /\ names \in Nat
      <4>1. \A k \in 1..Len(log) : log[k] \in Entries
        BY LenProperties DEF TrailTyped
      <4> QED
        BY <4>1 DEF TrailTyped, Entries, LoggedBefore
    <3> QED
      BY <1>2, <3>1 DEF NewTrail
  <2> QED
    BY <1>0, <1>2, <2>1, Appends
<1>3. CASE Assigned \/ End \/ UNCHANGED trailVars
  BY <1>3 DEF Assigned, End, trailVars, SeenSinceAlarm
<1>4. CASE Skipped
  <2>1. log' = log
    BY <1>4 DEF Skipped
  <2> QED
    BY <1>0, <1>4, <2>1, Skips DEF SameCourse
<1>5. CASE BordersChange
  <2>1. log' = log
    BY <1>5 DEF BordersChange
  <2> QED
    BY <1>0, <1>5, <2>1, Changes
<1>6. ASSUME NEW n \in DOMAIN trails, Insert(n) PROVE SeenSinceAlarm'
  <2>1. log' = log /\ \A k \in 1..Len(log) : frame > log[k].frame
    <3>1. \A k \in 1..Len(log) : log[k].frame < frame /\ log[k].frame \in Nat /\ frame \in Nat
      <4>1. \A k \in 1..Len(log) : log[k] \in Entries
        BY LenProperties DEF TrailTyped
      <4> QED
        BY <1>6, <4>1 DEF TrailTyped, Entries, LoggedBefore, Insert
    <3> QED
      BY <1>6, <3>1 DEF Insert
  <2>2. Seen(n)'
    BY <1>6, <2>1, Inserts
  <2> QED
    BY <1>0, <1>6, <2>1, <2>2, Inserts
<1>7. ASSUME NEW n \in DOMAIN trails, Crosses(n) PROVE SeenSinceAlarm'
  <2>1. Seen(n)'
    BY <1>7, Crossings
  <2>2. ASSUME NEW m \in DOMAIN trails, m # n PROVE Seen(m)'
    <3>1. trails'[m] = trails[m] /\ Seen(m)
      BY <1>0, <1>7, <2>2, Crossings
    <3>2. \A k \in 1..Len(log') : log'[k].trail = m => k \in 1..Len(log) /\ log'[k] = log[k]
      BY <1>7, <2>2, Logged
    <3> QED
      BY <3>1, <3>2
  <2> QED
    BY <1>0, <1>7, <2>1, <2>2, Crossings
<1>8. ASSUME NEW n \in DOMAIN trails, CrossesNone(n) PROVE SeenSinceAlarm'
  <2>1. log' = log
    BY <1>8 DEF CrossesNone
  <2>2. \A m \in DOMAIN trails : SameCourse(trails'[m], trails[m])
    BY <1>8, Checks DEF SameCourse
  <2> QED
    BY <1>0, <1>8, <2>1, <2>2, Checks DEF SameCourse
<1> QED
  BY <1>1, <1>2, <1>3, <1>4, <1>5, <1>6, <1>7, <1>8 DEF TrailNext

LEMMA CrossesStep == TrailTyped /\ CrossesNow /\ [TrailNext]_trailVars => CrossesNow'
<1> SUFFICES ASSUME TrailTyped, CrossesNow, [TrailNext]_trailVars PROVE CrossesNow'
  OBVIOUS
<1>0. \A n \in DOMAIN trails : n \in Nat /\ n > 0 /\ checked \in Nat
  BY DEF TrailTyped
<1>1. CASE NextFrame
  <2>1. tpc = "idle" /\ tpc' = "assign"
    BY <1>1 DEF NextFrame
  <2> QED
    BY <1>1, <2>1, Frames DEF SameCourse, CrossesNow
<1>2. CASE NewTrail
  <2>1. tpc = "assign" /\ tpc' = "assign" /\ persons' = persons
    BY <1>2 DEF NewTrail
  <2> QED
    BY <1>2, <2>1, Appends DEF CrossesNow
<1>3. CASE Assigned
  <2>1. tpc = "assign" /\ tpc' = "lines" /\ checked = 0 /\ UNCHANGED <<trails, checked, persons>>
    BY <1>3 DEF Assigned, TrailTyped
  <2> QED
    BY <1>0, <2>1 DEF CrossesNow
<1>4. CASE Skipped
  <2>1. tpc' = "idle"
    BY <1>4 DEF Skipped
  <2> QED
    BY <1>4, <2>1, Skips DEF CrossesNow
<1>5. CASE End
  <2>1. tpc = "lines" /\ tpc' = "idle" /\ trails' = trails
    BY <1>5 DEF End
  <2>2. \A n \in DOMAIN trails : n <= checked
    BY <1>0, <1>5 DEF End, Unchecked
  <2> QED
    BY <2>1, <2>2 DEF CrossesNow
<1>6. CASE BordersChange
  <2>1. tpc' = "idle"
    BY <1>6 DEF BordersChange
  <2> QED
    BY <1>6, <2>1, Changes DEF CrossesNow
<1>7. ASSUME NEW n \in DOMAIN trails, Insert(n) PROVE CrossesNow'
  <2>1. tpc = "assign" /\ tpc' = "assign" /\ persons' = persons /\ persons > 0
    BY <1>7 DEF Insert, TrailTyped
  <2> QED
    BY <1>7, <2>1, Inserts DEF CrossesNow
<1>8. ASSUME NEW n \in DOMAIN trails, Crosses(n) PROVE CrossesNow'
  <2>1. tpc = "lines" /\ UNCHANGED <<tpc, persons, checked>>
    BY <1>8 DEF Crosses, Turn
  <2> QED
    BY <1>8, <2>1, Crossings DEF CrossesNow
<1>9. ASSUME NEW n \in DOMAIN trails, CrossesNone(n) PROVE CrossesNow'
  <2>1. tpc = "lines" /\ UNCHANGED <<tpc, persons>> /\ checked' = n /\ trails[n].crosses = {}
    BY <1>9 DEF CrossesNone, Turn
  <2>2. \A m \in DOMAIN trails : m <= n => m <= checked \/ m = n
    BY <1>0, <1>9 DEF CrossesNone, Turn, Unchecked
  <2>3. trails'[n].crosses = {} /\ \A m \in DOMAIN trails : m # n => trails'[m] = trails[m]
    BY <1>9, <2>1, Checks DEF SameCourse
  <2>4. DOMAIN trails' = DOMAIN trails
    BY <1>9, Checks
  <2> QED
    BY <2>1, <2>2, <2>3, <2>4 DEF CrossesNow
<1>10. CASE UNCHANGED trailVars
  BY <1>10 DEF trailVars, CrossesNow
<1> QED
  BY <1>1, <1>2, <1>3, <1>4, <1>5, <1>6, <1>7, <1>8, <1>9, <1>10 DEF TrailNext

\* Only an alarm adds to the log.
LEMMA LogStays ==
  ASSUME [TrailNext]_trailVars, \A n \in DOMAIN trails : ~Crosses(n)
  PROVE  log' = log
BY DEF TrailNext, NextFrame, NewTrail, Assigned, Skipped, End, BordersChange, Insert,
       CrossesNone, trailVars

LEMMA AlarmsStep ==
  ASSUME TrailTyped, SeenSinceAlarm, CrossesNow, OneAlarmPerCrossing, PictureMissingExplained,
         [TrailNext]_trailVars
  PROVE  OneAlarmPerCrossing' /\ PictureMissingExplained'
<1>1. CASE \A n \in DOMAIN trails : ~Crosses(n)
  BY <1>1, LogStays DEF OneAlarmPerCrossing, PictureMissingExplained
<1>2. ASSUME NEW n \in DOMAIN trails, Crosses(n)
      PROVE  OneAlarmPerCrossing' /\ PictureMissingExplained'
  <2>1. trails[n].crosses # {} /\ trails[n].length > 1 /\ tpc = "lines"
    BY <1>2, Crossings DEF SeenSinceAlarm, Crosses, Turn
  <2>2. OneAlarmPerCrossing'
    <3> SUFFICES ASSUME NEW j \in 1..Len(log'), NEW k \in 1..Len(log'), j < k,
                        log'[j].trail = log'[k].trail
                 PROVE  log'[k].since > log'[j].frame
      BY DEF OneAlarmPerCrossing
    <3>1. CASE k \in 1..Len(log)
      <4>1. j \in 1..Len(log)
        BY <3>1, LenProperties DEF TrailTyped
      <4> QED
        BY <1>2, <3>1, <4>1, Logged DEF OneAlarmPerCrossing
    <3>2. CASE k = Len(log')
      <4>1. j \in 1..Len(log) /\ log'[j] = log[j]
        BY <1>2, <3>2, Logged
      <4>2. log'[k].trail = n /\ log'[k].since = trails[n].last
        BY <1>2, <3>2, Logged
      <4> QED
        BY <2>1, <4>1, <4>2 DEF SeenSinceAlarm
    <3> QED
      BY <1>2, <3>1, <3>2, Logged
  <2>3. PictureMissingExplained'
    <3>1. ~(persons > 0) => trails[n].stale
      BY <2>1 DEF CrossesNow
    <3> QED
      BY <1>2, <3>1, Logged DEF PictureMissingExplained
  <2> QED
    BY <2>2, <2>3
<1> QED
  BY <1>1, <1>2

LEMMA TrailInvStep == TrailInv /\ [TrailNext]_trailVars => TrailInv'
BY TrailTypedStep, AgeStep, LoggedStep, SeenStep, CrossesStep, AlarmsStep
   DEF TrailInv, TrailsAreRight

-----------------------------------------------------------------------------
(***************************************************************************)
(* ProcessResult as a whole.                                               *)
(***************************************************************************)

\* Engine implements both of its halves: a step of it is one of each, or leaves
\* that half alone.
LEMMA EngineImplements == EngineNext => [VideoNext]_videoVars /\ [TrailNext]_trailVars
<1> SUFFICES ASSUME EngineNext PROVE [VideoNext]_videoVars /\ [TrailNext]_trailVars
  OBVIOUS
<1>1. CASE NoCover \/ FrameComes \/ PersonInRegion \/ PersonsDone \/ FrameEnds
  BY <1>1 DEF NoCover, FrameComes, PersonInRegion, PersonsDone, FrameEnds, VideoNext, TrailNext
<1>2. CASE Assign \/ TrailCrossesNone \/ BordersSaved
  BY <1>2 DEF Assign, TrailCrossesNone, BordersSaved, TrailNext
<1>3. CASE RegionFilmed \/ RegionNotFilmed \/ TrailCrosses \/ TrailsDone
  BY <1>3 DEF RegionFilmed, RegionNotFilmed, TrailCrosses, TrailsDone, VideoNext, TrailNext
<1> QED
  BY <1>1, <1>2, <1>3 DEF EngineNext

\* An alarm of a frame Half - 1 frames ago is in the middle of the window, and
\* at the end of the frame its video has been saved.
LEMMA FilmedNow ==
  ASSUME ConstantsAreRight, VideoInv, vpc = "idle", arrived \notin failed,
         Len(result_videos) = Window, NEW f, f = arrived - Half + 1, HasAlarm(Border, f)
  PROVE  Filmed(f)
<1>1. /\ Half + 1 \in 1..Window /\ 1 \in 1..Window /\ Window \in Nat /\ Half \in Nat
      /\ Window = 2 * Half /\ arrived \in Nat
  BY WindowIs DEF VideoInv, VideoTyped
<1>2. /\ result_videos[Half + 1] = arrived - Window + (Half + 1)
      /\ result_videos[1] = arrived - Window + 1
      /\ result_condition[Half + 1] = MarkOf(result_videos[Half + 1])
      /\ Len(result_condition) = Window
  BY <1>1 DEF VideoInv, VideosAreRight, MarksMatchFrames
<1>3. result_videos[Half + 1] = f /\ result_videos[1] + Half = f
  BY <1>1, <1>2
<1>4. MarkOf(f) = Border
  BY DEF MarkOf, HasAlarm
<1>5. Middle = Border /\ Border # Unmarked
  BY <1>2, <1>3, <1>4 DEF Middle, Border, Unmarked
<1>6. PICK v \in 1..Len(videos) : videos[v].kind = Middle /\ videos[v].first = result_videos[1]
  BY <1>5 DEF VideoInv, VideosAreRight, MarkedIsSaved
<1> QED
  BY <1>3, <1>5, <1>6 DEF Filmed

\* Numbers of frames, of alarms and of the log.
LEMMA Numbers ==
  ASSUME VideoTyped, TrailTyped
  PROVE  /\ arrived \in Nat /\ frame \in Nat /\ Shift \in Int /\ arrived = frame + Shift
         /\ Len(log) \in Nat /\ Len(raised) \in Nat /\ Len(videos) \in Nat
         /\ \A n \in 1..Len(log) : log[n].frame \in Nat
         /\ \A n \in 1..Len(raised) : raised[n].frame \in Nat
<1>1. \A n \in 1..Len(log) : log[n] \in Entries
  BY LenProperties DEF TrailTyped
<1>2. \A n \in 1..Len(log) : log[n].frame \in Nat
  BY <1>1 DEF Entries
<1>3. Len(log) \in Nat
  BY LenProperties DEF TrailTyped
<1>4. arrived \in Nat /\ frame \in Nat /\ Shift \in Int /\ arrived = frame + Shift
  BY DEF VideoTyped, TrailTyped, Shift
<1> QED
  BY <1>2, <1>3, <1>4, Elements

LEMMA JointIsFilmed ==
  ASSUME ConstantsAreRight, VideoInv, TrailTyped, JointInv
  PROVE  EachCrossingIsFilmed
<1>0. VideoTyped /\ VideoAroundAlarm
  BY DEF VideoInv, VideosAreRight
<1>1. /\ arrived \in Nat /\ frame \in Nat /\ Shift \in Int /\ arrived = frame + Shift
      /\ \A n \in 1..Len(log) : log[n].frame \in Nat
      /\ Half \in Nat /\ Half >= 2 /\ Window = 2 * Half
  BY <1>0, Numbers, WindowIs
<1>2. ASSUME NEW n \in 1..Len(log), log[n].frame > Half, Over(log[n].frame + Shift + Half - 1),
             log[n].frame + Shift + Half - 1 \notin failed
      PROVE  Filmed(log[n].frame + Shift)
  <2> DEFINE last == log[n].frame + Shift + Half - 1
  <2>1. CASE arrived > last
    BY <1>2, <2>1 DEF JointInv, FilmedByNow
  <2>2. CASE arrived = last /\ vpc = "idle"
    <3>0. log[n].frame \in Nat
      BY <1>1
    <3>1. frame = log[n].frame + Half - 1
      BY <1>1, <2>2, <3>0
    <3>2. Len(result_videos) = Window
      BY <1>1, <1>2, <3>0, <3>1 DEF JointInv, InStep
    <3>3. HasAlarm(Border, log[n].frame + Shift)
      BY DEF JointInv, Matched, HasAlarm
    <3>4. log[n].frame + Shift = arrived - Half + 1
      <4> DEFINE f == log[n].frame
                 c == Shift
      <4>1. f \in Int /\ c \in Int /\ Half \in Int /\ arrived = frame + c /\ frame = f + Half - 1
        BY <1>1, <3>0, <3>1
      <4> SUFFICES f + c = arrived - Half + 1
        OBVIOUS
      <4> HIDE DEF f, c
      <4> QED
        BY <4>1
    <3> QED
      BY <1>2, <2>2, <3>2, <3>3, <3>4, FilmedNow
  <2> QED
    BY <1>2, <2>1, <2>2 DEF Over
<1>3. ASSUME NEW v \in 1..Len(videos), videos[v].kind = Border
      PROVE  \E n \in 1..Len(log) : log[n].frame + Shift = videos[v].first + Half
  <2>1. HasAlarm(Border, videos[v].first + Half)
    BY <1>0, <1>3 DEF VideoAroundAlarm, HasAlarm
  <2>2. PICK k \in 1..Len(raised) :
            raised[k].kind = Border /\ raised[k].frame = videos[v].first + Half
    BY <2>1, HasAlarmIs
  <2> QED
    BY <2>2 DEF JointInv, Matched
<1> QED
  BY <1>1, <1>2, <1>3 DEF EachCrossingIsFilmed

LEMMA InStepStep ==
  ASSUME ConstantsAreRight, VideoInv, TrailTyped, InStep, EngineNext
  PROVE  InStep'
<1>0. /\ arrived \in Nat /\ frame \in Nat /\ Len(result_videos) \in Nat /\ Window \in Nat
      /\ Window > 0 /\ (result_videos = <<>> <=> Len(result_videos) = 0)
  <2>1. arrived \in Nat /\ frame \in Nat /\ result_videos \in Seq(Nat)
    BY DEF VideoInv, VideoTyped, TrailTyped
  <2>2. Window \in Nat /\ Window > 0
    BY WindowIs
  <2> QED
    BY <2>1, <2>2, LenProperties, EmptySeq
<1>1. CASE NoCover
  BY <1>0, <1>1 DEF NoCover, CoverFails, InStep, trailVars, window, Sampled
<1>2. CASE FrameComes
  <2>1. /\ vpc' = "regions" /\ tpc' = "assign" /\ arrived' = arrived + 1 /\ frame' = frame + 1
    BY <1>2 DEF FrameComes, Push, NextFrame
  <2>2. Len(result_videos') = IF Len(result_videos) = Window THEN Window ELSE Len(result_videos) + 1
    BY <1>2, PushIs DEF FrameComes, VideoInv
  <2> QED
    BY <1>0, <2>1, <2>2 DEF InStep
<1>3. CASE PersonInRegion
  BY <1>3 DEF PersonInRegion, RegionHit, InStep, trailVars
<1>4. CASE Assign
  <2>1. UNCHANGED <<vpc, tpc, frame, arrived, result_videos, frame_id>>
    BY <1>4 DEF Assign, NewTrail, Insert, videoVars, window
  <2> QED
    BY <2>1 DEF InStep, Sampled
<1>5. CASE PersonsDone
  BY <1>5 DEF PersonsDone, RegionsDone, InStep, trailVars, window
<1>6. CASE RegionFilmed
  <2>1. vpc' = "lines" /\ UNCHANGED <<arrived, frame_id, result_videos>>
    BY <1>6 DEF RegionFilmed, SaveRegion, window
  <2>2. frame' = frame /\ tpc' = IF Sampled THEN "lines" ELSE "idle"
    BY <1>6 DEF RegionFilmed, Assigned, Skipped
  <2> QED
    BY <2>1, <2>2 DEF InStep, Sampled
<1>7. CASE RegionNotFilmed
  BY <1>7 DEF RegionNotFilmed, SaveRegionFails, Skipped, InStep, window
<1>8. CASE TrailCrosses
  BY <1>8 DEF TrailCrosses, LineCrossed, Crosses, InStep, Sampled
<1>9. CASE TrailCrossesNone
  BY <1>9 DEF TrailCrossesNone, CrossesNone, InStep, Sampled, videoVars, window
<1>10. CASE TrailsDone
  <2>1. vpc = "lines" /\ vpc' = "save2" /\ UNCHANGED <<arrived, result_videos>>
    BY <1>10 DEF TrailsDone, LinesDone, window
  <2>2. frame' = frame /\ tpc' = "idle"
    BY <1>10, <2>1 DEF TrailsDone, End, InStep, trailVars
  <2> QED
    BY <2>1, <2>2 DEF InStep
<1>11. CASE FrameEnds
  <2>1. vpc = "save2" /\ vpc' = "idle" /\ UNCHANGED <<arrived, result_videos>>
    BY <1>11 DEF FrameEnds, SaveBorder, SaveBorderFails, window
  <2>2. frame' = frame /\ tpc' = tpc
    BY <1>11 DEF FrameEnds, trailVars
  <2> QED
    BY <2>1, <2>2 DEF InStep
<1>12. CASE BordersSaved
  BY <1>12 DEF BordersSaved, BordersChange, InStep, Sampled, videoVars, window
<1> QED
  BY <1>1, <1>2, <1>3, <1>4, <1>5, <1>6, <1>7, <1>8, <1>9, <1>10, <1>11, <1>12 DEF EngineNext


\* A crossing raises its border alarm in the frame of both (JudgeCross's alarms
\* and the marks of ProcessResult), and nothing else raises one.
LEMMA MatchedStep ==
  ASSUME ConstantsAreRight, VideoInv, TrailTyped, InStep, Matched, EngineNext
  PROVE  Matched'
<1> DEFINE OfLog(n) == log[n].frame \in 1..frame /\ HasAlarm(Border, log[n].frame + Shift)
           OfAlarm(k) == raised[k].kind = Border =>
                            \E n \in 1..Len(log) : log[n].frame + Shift = raised[k].frame
<1>0. /\ VideoTyped /\ arrived \in Nat /\ frame \in Nat /\ Shift \in Int
      /\ arrived = frame + Shift
      /\ \A n \in 1..Len(log) : log[n].frame \in Nat
      /\ Len(log) \in Nat /\ Len(raised) \in Nat
      /\ Window \in Nat /\ Window > 0
  BY Numbers, WindowIs DEF VideoInv
<1>m. Matched <=> /\ \A n \in 1..Len(log) : OfLog(n)
                  /\ \A k \in 1..Len(raised) : OfAlarm(k)
  BY DEF Matched, HasAlarm
<1>n. Matched' <=> /\ \A n \in 1..Len(log') :
                         /\ log'[n].frame \in 1..frame'
                         /\ \A f : f = log'[n].frame + Shift' => HasAlarm(Border, f)'
                   /\ \A k \in 1..Len(raised') : raised'[k].kind = Border =>
                         \E n \in 1..Len(log') : log'[n].frame + Shift' = raised'[k].frame
  BY ZenonT(20) DEF Matched, HasAlarm, AlarmsAt
<1>q. ASSUME UNCHANGED <<raised, log>>, arrived' = arrived, frame' = frame
      PROVE  Matched'
  BY <1>q DEF Matched, Shift, AlarmsAt
<1>1. CASE NoCover
  <2>1. result_videos = <<>> /\ UNCHANGED <<raised, log>>
    BY <1>1 DEF NoCover, CoverFails, VideoInv, Started, naming, trailVars
  <2>2. frame = 0
    BY <1>0, <2>1, EmptySeq DEF InStep
  <2>3. Len(log) = 0
    <3>1. ASSUME Len(log) # 0 PROVE FALSE
      <4>1. 1 \in 1..Len(log)
        BY <1>0, <3>1
      <4> QED
        BY <2>2, <4>1 DEF Matched
    <3> QED
      BY <3>1
  <2> QED
    BY <1>m, <1>n, <2>1, <2>3
<1>2. CASE FrameComes
  <2>1. /\ UNCHANGED <<raised, log>> /\ arrived' = arrived + 1 /\ frame' = frame + 1
    BY <1>2 DEF FrameComes, Push, NextFrame, naming
  <2>2. Shift' = Shift
    BY <1>0, <2>1 DEF Shift
  <2>3. \A f : HasAlarm(Border, f)' <=> HasAlarm(Border, f)
    BY <2>1, AlarmedStays
  <2>4. \A n \in 1..Len(log) : log[n].frame \in 1..frame'
    BY <1>0, <1>m, <2>1
  <2> QED
    BY <1>m, <1>n, <2>1, <2>2, <2>3, <2>4
<1>3. CASE PersonInRegion
  <2>1. UNCHANGED <<log, arrived, frame>> /\ vpc # "idle"
    BY <1>3 DEF PersonInRegion, RegionHit, trailVars
  <2>2. CASE UNCHANGED raised
    BY <1>q, <2>1, <2>2
  <2>3. CASE Raise(Region)
    <3>1. result_videos # <<>> /\ Border \in Kind /\ Region \in Kind /\ Border # Region
      BY <2>1 DEF VideoInv, Started, Kind, Border, Region
    <3>2. \A f : HasAlarm(Border, f)' <=> HasAlarm(Border, f)
      BY <1>0, <2>3, <3>1, AlarmedAfter
    <3>3. /\ [kind |-> Region, frame |-> arrived, id |-> video_id] \in Alarm
          /\ raised' = Append(raised, [kind |-> Region, frame |-> arrived, id |-> video_id])
      BY <1>0, <2>3, <3>1 DEF Raise, Alarm, VideoTyped
    <3>4. /\ Len(raised') = Len(raised) + 1 /\ raised'[Len(raised')].kind = Region
          /\ \A n \in 1..Len(raised) : raised'[n] = raised[n]
      BY <1>0, <3>3, RaisedIs
    <3>5. Shift' = Shift
      BY <2>1 DEF Shift
    <3>6. \A k \in 1..Len(raised') : raised'[k].kind = Border =>
              k \in 1..Len(raised) /\ raised'[k] = raised[k]
      BY <1>0, <3>1, <3>4
    <3> QED
      BY <1>m, <1>n, <2>1, <3>2, <3>5, <3>6
  <2> QED
    BY <1>3, <2>2, <2>3 DEF PersonInRegion, RegionHit
<1>4. CASE TrailCrosses
  <2>1. PICK n \in DOMAIN trails : Crosses(n)
    BY <1>4 DEF TrailCrosses
  <2>2. UNCHANGED <<arrived, frame>> /\ vpc # "idle" /\ Raise(Border) /\ tpc = "lines"
    BY <1>4, <2>1 DEF TrailCrosses, LineCrossed, Crosses, Turn
  <2>3. Shift' = Shift
    BY <2>2 DEF Shift
  <2>4. result_videos # <<>> /\ Border \in Kind
    BY <2>2 DEF VideoInv, Started, Kind
  <2>5. \A f : HasAlarm(Border, f)' <=> HasAlarm(Border, f) \/ f = arrived
    BY <1>0, <2>2, <2>4, AlarmedAfter
  <2>6. /\ [kind |-> Border, frame |-> arrived, id |-> video_id] \in Alarm
        /\ raised' = Append(raised, [kind |-> Border, frame |-> arrived, id |-> video_id])
    BY <1>0, <2>2, <2>4 DEF Raise, Alarm, VideoTyped
  <2>7. /\ Len(raised') = Len(raised) + 1 /\ raised'[Len(raised')].frame = arrived
        /\ \A k \in 1..Len(raised) : raised'[k] = raised[k]
    BY <1>0, <2>6, RaisedIs
  <2>8. /\ Len(log') = Len(log) + 1 /\ log'[Len(log')].frame = frame
        /\ \A k \in 1..Len(log) : log'[k] = log[k]
    BY <2>1, Logged
  <2>9. frame \in 1..frame
    BY <1>0, <2>2 DEF TrailTyped
  <2>10. ASSUME NEW k \in 1..Len(log')
         PROVE  /\ log'[k].frame \in 1..frame'
                /\ \A f : f = log'[k].frame + Shift' => HasAlarm(Border, f)'
    <3>1. CASE k \in 1..Len(log)
      BY <1>m, <2>2, <2>3, <2>5, <2>8, <3>1
    <3>2. CASE k = Len(log')
      BY <1>0, <2>2, <2>3, <2>5, <2>8, <2>9, <3>2
    <3> QED
      BY <1>0, <2>8, <3>1, <3>2
  <2>11. ASSUME NEW k \in 1..Len(raised'), raised'[k].kind = Border
         PROVE  \E j \in 1..Len(log') : log'[j].frame + Shift' = raised'[k].frame
    <3>1. CASE k \in 1..Len(raised)
      <4>1. PICK j \in 1..Len(log) : log[j].frame + Shift = raised[k].frame
        BY <1>m, <2>7, <2>11, <3>1
      <4> QED
        BY <1>0, <2>3, <2>7, <2>8, <3>1, <4>1
    <3>2. CASE k = Len(raised')
      <4>1. Len(log') \in 1..Len(log')
        BY <1>0, <2>8
      <4> QED
        BY <1>0, <2>3, <2>7, <2>8, <3>2, <4>1
    <3> QED
      BY <1>0, <2>7, <3>1, <3>2
  <2> QED
    BY <1>n, <2>10, <2>11
<1>5. CASE Assign \/ TrailCrossesNone \/ BordersSaved
  BY <1>5, <1>q DEF Assign, NewTrail, Insert, TrailCrossesNone, CrossesNone, BordersSaved, BordersChange,
     videoVars, naming
<1>6. CASE PersonsDone \/ FrameEnds
  BY <1>6, <1>q DEF PersonsDone, RegionsDone, FrameEnds, SaveBorder, SaveBorderFails, trailVars, naming
<1>7. CASE RegionFilmed \/ RegionNotFilmed
  BY <1>7, <1>q DEF RegionFilmed, RegionNotFilmed, SaveRegion, SaveRegionFails, Assigned, Skipped, naming
<1>8. CASE TrailsDone
  BY <1>8, <1>q DEF TrailsDone, LinesDone, End, trailVars, naming
<1> QED
  BY <1>1, <1>2, <1>3, <1>4, <1>5, <1>6, <1>7, <1>8 DEF EngineNext

\* Videos and failures are only added to.
LEMMA VideosGrow ==
  ASSUME ConstantsAreRight, VideoTyped, [VideoNext]_videoVars
  PROVE  failed \subseteq failed' /\ \A f : Filmed(f) => Filmed(f)'
<1>1. videos' = videos \/ \E kind \in Kind : Middle = kind /\ SaveVideo(kind)
  BY DEF VideoNext, CoverFails, Push, RegionHit, RegionsDone, LineCrossed, LinesDone, SaveRegion,
     SaveRegionFails, SaveBorder, SaveBorderFails, videoVars, Kind
<1>2. ASSUME NEW kind \in Kind, Middle = kind, SaveVideo(kind)
      PROVE  /\ Len(videos) \in Nat /\ Len(videos') = Len(videos) + 1
             /\ \A v \in 1..Len(videos) : videos'[v] = videos[v]
  <2>1. Middle # Unmarked
    BY <1>2 DEF Kind, Unmarked, Region, Border
  <2> QED
    BY <1>2, <2>1, SaveType
<1>3. \A v \in 1..Len(videos) : v \in 1..Len(videos') /\ videos'[v] = videos[v]
  BY <1>1, <1>2
<1>4. \A f : Filmed(f) => Filmed(f)'
  BY <1>3 DEF Filmed
<1>5. failed \subseteq failed'
  BY DEF VideoNext, CoverFails, Push, RegionHit, RegionsDone, LineCrossed, LinesDone, SaveRegion,
     SaveRegionFails, SaveBorder, SaveBorderFails, videoVars
<1> QED
  BY <1>4, <1>5

LEMMA FilmedStep ==
  ASSUME ConstantsAreRight, VideoInv, TrailTyped, JointInv, EngineNext
  PROVE  FilmedByNow'
<1>0. /\ arrived \in Nat /\ frame \in Nat /\ Shift \in Int /\ arrived = frame + Shift
      /\ \A n \in 1..Len(log) : log[n].frame \in Nat
      /\ Len(log) \in Nat /\ Half \in Nat /\ Half >= 2
  BY Numbers, WindowIs DEF VideoInv
<1>1. failed \subseteq failed' /\ \A f : Filmed(f) => Filmed(f)'
  BY EngineImplements, VideosGrow DEF VideoInv
\* It is enough to look at each alarm of the log.
<1>2. ASSUME \A n \in 1..Len(log') : \A f, last :
                 /\ f = log'[n].frame + Shift' /\ last = f + Half - 1
                 /\ log'[n].frame > Half /\ arrived' > last /\ last \notin failed'
                 => Filmed(f)'
      PROVE  FilmedByNow'
  BY <1>2 DEF FilmedByNow, Filmed
\* Nothing new is asked for.
<1>3. ASSUME UNCHANGED <<arrived, frame, log>> PROVE FilmedByNow'
  <2>1. Shift' = Shift
    BY <1>3 DEF Shift
  <2> SUFFICES ASSUME NEW n \in 1..Len(log'), NEW f, NEW last,
                      f = log'[n].frame + Shift', last = f + Half - 1,
                      log'[n].frame > Half, arrived' > last, last \notin failed'
               PROVE  Filmed(f)'
    BY <1>2
  <2>2. Filmed(f)
    BY <1>1, <1>3, <2>1 DEF JointInv, FilmedByNow
  <2> QED
    BY <1>1, <2>2
<1>4. CASE NoCover
  <2>1. result_videos = <<>> /\ UNCHANGED log
    BY <1>4 DEF NoCover, CoverFails, VideoInv, Started, trailVars
  <2>2. frame = 0
    BY <1>0, <2>1, EmptySeq, WindowIs DEF JointInv, InStep
  <2>3. \A n \in 1..Len(log') : FALSE
    BY <2>1, <2>2 DEF JointInv, Matched
  <2> QED
    BY <1>2, <2>3
<1>5. CASE FrameComes
  <2>1. /\ UNCHANGED <<log, failed>> /\ arrived' = arrived + 1 /\ frame' = frame + 1 /\ vpc = "idle"
    BY <1>5 DEF FrameComes, Push, NextFrame
  <2>2. Shift' = Shift
    BY <1>0, <2>1 DEF Shift
  <2> SUFFICES ASSUME NEW n \in 1..Len(log'), NEW f, NEW last,
                      f = log'[n].frame + Shift', last = f + Half - 1,
                      log'[n].frame > Half, arrived' > last, last \notin failed'
               PROVE  Filmed(f)'
    BY <1>2
  <2>3. f \in Int /\ last \in Int
    BY <1>0, <2>1, <2>2
  <2>4. Over(last)
    BY <1>0, <2>1, <2>3 DEF Over
  <2>5. Filmed(f)
    BY <2>1, <2>2, <2>4, JointIsFilmed DEF EachCrossingIsFilmed
  <2> QED
    BY <1>1, <2>5
<1>6. CASE TrailCrosses
  <2>1. PICK n \in DOMAIN trails : Crosses(n)
    BY <1>6 DEF TrailCrosses
  <2>2. UNCHANGED <<arrived, frame>>
    BY <1>6 DEF TrailCrosses, LineCrossed, Crosses
  <2>3. Shift' = Shift
    BY <2>2 DEF Shift
  <2>4. /\ Len(log') = Len(log) + 1 /\ log'[Len(log')].frame = frame
        /\ \A k \in 1..Len(log) : log'[k] = log[k]
    BY <2>1, Logged
  <2> SUFFICES ASSUME NEW k \in 1..Len(log'), NEW f, NEW last,
                      f = log'[k].frame + Shift', last = f + Half - 1,
                      log'[k].frame > Half, arrived' > last, last \notin failed'
               PROVE  Filmed(f)'
    BY <1>2
  <2>5. CASE k \in 1..Len(log)
    <3>1. Filmed(f)
      BY <1>1, <2>2, <2>3, <2>4, <2>5 DEF JointInv, FilmedByNow
    <3> QED
      BY <1>1, <3>1
  <2>6. CASE k = Len(log')
    <3>1. f = arrived
      BY <1>0, <2>3, <2>4, <2>6
    <3> QED
      BY <1>0, <2>2, <3>1
  <2> QED
    BY <1>0, <2>4, <2>5, <2>6
<1>7. CASE PersonInRegion \/ PersonsDone \/ FrameEnds
  BY <1>3, <1>7 DEF PersonInRegion, RegionHit, PersonsDone, RegionsDone, FrameEnds, SaveBorder,
     SaveBorderFails, trailVars
<1>8. CASE Assign \/ TrailCrossesNone \/ BordersSaved
  BY <1>3, <1>8 DEF Assign, NewTrail, Insert, TrailCrossesNone, CrossesNone, BordersSaved,
     BordersChange, videoVars
<1>9. CASE RegionFilmed \/ RegionNotFilmed \/ TrailsDone
  BY <1>3, <1>9 DEF RegionFilmed, RegionNotFilmed, SaveRegion, SaveRegionFails, Assigned, Skipped,
     TrailsDone, LinesDone, End, trailVars
<1> QED
  BY <1>4, <1>5, <1>6, <1>7, <1>8, <1>9 DEF EngineNext

LEMMA JointInit ==
  ASSUME ConstantsAreRight, EngineInit PROVE JointInv
<1>1. Len(log) = 0 /\ Len(raised) = 0 /\ Len(result_videos) = 0
  BY EmptySeq DEF EngineInit, VideoInit, TrailInit
<1> QED
  BY <1>1, WindowIs DEF EngineInit, VideoInit, TrailInit, JointInv, InStep, Matched, FilmedByNow

-----------------------------------------------------------------------------
(***************************************************************************)
(* All the parts.                                                          *)
(***************************************************************************)

\* Whichever part it is, the windows and the trails take steps of their own.
LEMMA PartsImplement ==
  [ProductNext]_productVars => [VideoNext]_videoVars /\ [TrailNext]_trailVars
<1>1. OfServer => [VideoNext]_videoVars /\ [TrailNext]_trailVars
  BY DEF OfServer
<1>2. OfVideo => [VideoNext]_videoVars /\ [TrailNext]_trailVars
  BY DEF OfVideo
<1>3. OfTrails => [VideoNext]_videoVars /\ [TrailNext]_trailVars
  BY DEF OfTrails
<1>4. OfEngine => [VideoNext]_videoVars /\ [TrailNext]_trailVars
  BY EngineImplements DEF OfEngine
<1>5. UNCHANGED productVars => [VideoNext]_videoVars /\ [TrailNext]_trailVars
  BY DEF productVars
<1> QED
  BY <1>1, <1>2, <1>3, <1>4, <1>5 DEF ProductNext

LEMMA ProductInvInit == ProductInit => ProductInv
BY EngineAssumption, VideoInvInit, TrailInvInit, JointInit DEF ProductInit, EngineInit, ProductInv

LEMMA ProductInvStep == ProductInv /\ [ProductNext]_productVars => ProductInv'
<1> SUFFICES ASSUME ProductInv, [ProductNext]_productVars PROVE ProductInv'
  OBVIOUS
<1>1. VideoInv' /\ TrailInv'
  BY EngineAssumption, PartsImplement, VideoInvStep, TrailInvStep DEF ProductInv
<1>2. ASSUME part' = "engine" PROVE JointInv'
  <2>1. part = "engine" /\ JointInv /\ TrailTyped
    BY <1>2 DEF ProductNext, productVars, ProductInv, TrailInv
  <2>2. CASE EngineNext
    BY <2>1, <2>2, EngineAssumption, InStepStep, MatchedStep, FilmedStep DEF ProductInv, JointInv
  <2>3. CASE UNCHANGED <<videoVars, trailVars>>
    BY <2>1, <2>3 DEF JointInv, InStep, Matched, FilmedByNow, Filmed, Sampled, Shift, AlarmsAt,
       videoVars, trailVars, window, naming
  <2> QED
    BY <2>1, <2>2, <2>3 DEF ProductNext, productVars, OfServer, OfVideo, OfTrails, OfEngine
<1> QED
  BY <1>1, <1>2 DEF ProductInv

\* ProductInv holds of every behaviour.
LEMMA ProductInvHolds == ProductSpec => []ProductInv
BY ProductInvInit, ProductInvStep, PTL DEF ProductSpec

\* The windows stay in step on every return path of ProcessResult; a saved
\* video is the right frames, once, with the id of its alarm; and an alarm
\* that reaches the middle of the window is saved unless that fails.
THEOREM VideosHold == ProductSpec => []VideosAreRight
<1>1. ProductInv => VideosAreRight
  BY DEF ProductInv, VideoInv
<1> QED
  BY <1>1, ProductInvHolds, PTL

\* The age of a trail is its silence, it is open until the frame has given it a
\* person, it raises one alarm per crossing, and an alarm without a picture is
\* one of a stale trail (the trail loops of ProcessResult and class Trail).
THEOREM TrailsHold == ProductSpec => []TrailsAreRight
<1>1. ProductInv => TrailsAreRight
  BY DEF ProductInv, TrailInv
<1> QED
  BY <1>1, ProductInvHolds, PTL

\* A frame in which ProcessResult found a trail crossing a line is the middle of
\* a border video Half - 1 frames later, unless saving failed just then, and no
\* other frame is.
THEOREM CrossingsHold == ProductSpec => []CrossingIsFilmed
<1>1. ProductInv => CrossingIsFilmed
  BY EngineAssumption, JointIsFilmed DEF ProductInv, TrailInv, CrossingIsFilmed
<1> QED
  BY <1>1, ProductInvHolds, PTL

\* ProcessResult with the windows, the videos and the trails together implements
\* the specification of the windows and videos and that of the trails.
THEOREM PartsAreImplemented == ProductSpec => VideoSpec /\ TrailSpec
<1>1. ProductInit => VideoInit /\ TrailInit
  BY DEF ProductInit, EngineInit
<1> QED
  BY <1>1, PartsImplement, PTL DEF ProductSpec, VideoSpec, TrailSpec

=============================================================================
