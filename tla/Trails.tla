-------------------------------- MODULE Trails --------------------------------
(***************************************************************************)
(* The trails of the persons one camera sees (DstEngine::ProcessResult and *)
(* class Trail): in each frame the old trails are dropped, every detected  *)
(* person is put into a trail, and every trail is checked against every    *)
(* line of the borders file.                                               *)
(*                                                                         *)
(* Coordinates are left out.  Which open trail is the nearest, and which   *)
(* lines the points of a trail cross, are chosen; but a trail crosses the  *)
(* same lines as long as its points and the lines are the same.            *)
(***************************************************************************)
EXTENDS Integers, Sequences

CONSTANTS
    TimeStamp,   \* TIME_STAMP: frames after which a trail is dropped
    Much,        \* MUCH: the number of points a trail may have
    TrailFrames, \* how many frames are processed (a bound, not in the code)
    MaxPerson,   \* how many persons a frame shows (a bound)
    MaxChange,   \* how often the borders file changes (a bound)
    Line         \* the lines and broken lines of the borders file

VARIABLES
    frame,      \* number of frames processed, the current one included
    tpc,        \* where ProcessResult has got to
    left,       \* detected persons that are not yet in a trail
    persons,    \* persons detected in the current frame
    changes,    \* how often the borders file has changed
    trails,     \* DstEngine::trails, by number
    checked,    \* trails up to this one have been checked for lines
    (***********************************************************************)
    (* What has happened.                                                  *)
    (***********************************************************************)
    names,      \* number of trails made so far
    log         \* the border alarms: their frame, trail, and what was seen

trailVars == <<frame, tpc, left, persons, changes, trails, checked, names, log>>

(***************************************************************************)
(* A trail.  count, open (insertable_) and length (the number of points_)  *)
(* are the members of class Trail; crosses is the set of lines that its    *)
(* points cross.  last is history: the frame of its last detection.        *)
(* stale tells that the trail has not been checked against the lines since *)
(* its last detection or since the lines changed, because that frame or    *)
(* the file was not looked at in time.                                     *)
(*                                                                         *)
(* Trails are numbered as they are made.  New ones are pushed to the back  *)
(* of the vector and old ones are erased from within, so that the order of *)
(* the vector is that of the numbers.                                      *)
(***************************************************************************)
Trail == [count : 0..TimeStamp, open : BOOLEAN, length : 1..Much, crosses : SUBSET Line,
          last : 1..TrailFrames, stale : BOOLEAN]

TrailInit ==
    /\ frame = 0 /\ tpc = "idle" /\ left = 0 /\ persons = 0 /\ changes = 0
    /\ trails = <<>> /\ checked = 0 /\ names = 0 /\ log = <<>>

-----------------------------------------------------------------------------
\* Of class Trail, on one trail.
check_states(t) == t.count < TimeStamp

update_states_common(t) == [t EXCEPT !.count = @ + 1, !.open = TRUE]

\* The trails that are not too old, each of them open again.
Age(ts) == [n \in {m \in DOMAIN ts : check_states(ts[m])} |-> update_states_common(ts[n])]

\* A frame arrives, with some persons in it.
NextFrame ==
    /\ tpc = "idle"
    /\ frame < TrailFrames
    /\ frame' = frame + 1
    /\ tpc' = "assign"
    /\ \E n \in 0..MaxPerson : persons' = n /\ left' = n
    /\ trails' = Age(trails)
    /\ checked' = 0
    /\ UNCHANGED <<changes, names, log>>

\* Mutant of Extended: the age of the trail is not reset.
ExtendedOld(t, lines) ==
    LET full == t.length + 1 > Much
    IN  [count |-> t.count, open |-> FALSE, last |-> frame, stale |-> FALSE,
         length |-> IF full THEN 1 ELSE t.length + 1,
         crosses |-> IF full THEN {} ELSE lines]

\* The trail with one more detection.  One that has grown too long starts
\* again at this detection; with one point it crosses nothing.
Extended(t, lines) ==
    LET full == t.length + 1 > Much
    IN  [count |-> 0, open |-> FALSE, last |-> frame, stale |-> FALSE,
         length |-> IF full THEN 1 ELSE t.length + 1,
         crosses |-> IF full THEN {} ELSE lines]

\* A person is put into the nearest open trail: Trail::insert.
Insert(n) ==
    /\ tpc = "assign"
    /\ left > 0
    /\ trails[n].open
    /\ left' = left - 1
    /\ \E lines \in SUBSET Line : trails' = [trails EXCEPT ![n] = Extended(@, lines)]
    /\ UNCHANGED <<frame, tpc, persons, changes, checked, names, log>>

\* A person is taken for a new one: no trail is open, or the detection is far
\* from all of them and near the edge of the picture.
NewTrail ==
    /\ tpc = "assign"
    /\ left > 0
    /\ left' = left - 1
    /\ names' = names + 1
    /\ trails' = [n \in DOMAIN trails \union {names'} |->
          IF n = names' THEN [count |-> 0, open |-> FALSE, length |-> 1, crosses |-> {},
                              last |-> frame, stale |-> FALSE]
          ELSE trails[n]]
    /\ UNCHANGED <<frame, tpc, persons, changes, checked, log>>

\* Every person of the frame is in a trail: on to the lines.
Assigned ==
    /\ tpc = "assign"
    /\ left = 0
    /\ tpc' = "lines"
    /\ UNCHANGED <<frame, left, persons, changes, trails, checked, names, log>>

\* The video of an intrusion cannot be saved: ProcessResult returns before
\* the lines are checked (DstEngine.cpp:370-375).
Skipped ==
    /\ tpc = "assign"
    /\ left = 0
    /\ tpc' = "idle"
    /\ trails' = [n \in DOMAIN trails |-> [trails[n] EXCEPT !.stale = TRUE]]
    /\ UNCHANGED <<frame, left, persons, changes, checked, names, log>>

-----------------------------------------------------------------------------
\* Trail n is the next one that is checked for lines.
Unchecked == {n \in DOMAIN trails : n > checked}
Turn(n) == tpc = "lines" /\ n \in Unchecked /\ \A m \in Unchecked : n <= m

\* Mutant of Cleared: the points are kept.
ClearedNot(t, l) == [t EXCEPT !.crosses = @ \ {l}]

\* Trail::clear_ after line l was crossed: only the last point is left, and
\* with one point a trail crosses nothing.
Cleared(t, l) == [t EXCEPT !.length = 1, !.crosses = {}]

\* The border alarm of trail n, which a line finds crossing it.
Alarmed(n) ==
    /\ log' = Append(log, [frame |-> frame, trail |-> n, since |-> trails[n].last,
                           picture |-> persons > 0, stale |-> trails[n].stale])
    /\ \E l \in trails[n].crosses : trails' = [trails EXCEPT ![n] = Cleared(@, l)]

\* Mutant of Crosses: the alarm ends the check of all the trails.
CrossesBreak(n) ==
    /\ Turn(n)
    /\ Alarmed(n)
    /\ checked' = names
    /\ UNCHANGED <<frame, tpc, left, persons, changes, names>>

\* The next trail crosses a line: a border alarm, and the trail starts again,
\* so that no other line of the frame finds it crossing.  The alarm is
\* reported only if the frame shows a person (GetJpg).
Crosses(n) ==
    /\ Turn(n)
    /\ Alarmed(n)
    /\ UNCHANGED <<frame, tpc, left, persons, changes, checked, names>>

\* The next trail crosses no line, or no further one.
CrossesNone(n) ==
    /\ Turn(n)
    /\ trails[n].crosses = {}
    /\ trails' = [trails EXCEPT ![n].stale = FALSE]
    /\ checked' = n
    /\ UNCHANGED <<frame, tpc, left, persons, changes, names, log>>

\* Every trail has been checked: the frame is over.
End ==
    /\ tpc = "lines"
    /\ Unchecked = {}
    /\ tpc' = "idle"
    /\ UNCHANGED <<frame, left, persons, changes, trails, checked, names, log>>

\* The borders file is written (DeServImpl::set_border_info).  It is read
\* again by every frame, so that any trail may cross a line now.
BordersChange ==
    /\ tpc = "idle"
    /\ changes < MaxChange
    /\ changes' = changes + 1
    /\ \E lines \in [DOMAIN trails -> SUBSET Line] :
          trails' = [n \in DOMAIN trails |->
              [trails[n] EXCEPT !.crosses = IF trails[n].length > 1 THEN lines[n] ELSE {},
                                !.stale = TRUE]]
    /\ UNCHANGED <<frame, tpc, left, persons, checked, names, log>>

TrailNext ==
    \/ NextFrame \/ NewTrail \/ Assigned \/ Skipped \/ End \/ BordersChange
    \/ \E n \in DOMAIN trails : Insert(n) \/ Crosses(n) \/ CrossesNone(n)

TrailSpec == TrailInit /\ [][TrailNext]_trailVars

-----------------------------------------------------------------------------
(***************************************************************************)
(* Properties.                                                             *)
(***************************************************************************)

\* The age of a trail is the number of frames since its last detection, and
\* it is open exactly if the current frame has given it no person yet.
AgeIsSilence ==
    \A n \in DOMAIN trails :
        /\ trails[n].count = frame - trails[n].last
        /\ tpc # "idle" => (trails[n].open <=> trails[n].last < frame)

\* A trail that raises a border alarm does not raise another one before it
\* has been given a detection in a later frame, however many lines it crosses
\* and however the lines are changed.
OneAlarmPerCrossing ==
    \A j, k \in 1..Len(log) :
        j < k /\ log[j].trail = log[k].trail => log[k].since > log[j].frame

\* A border alarm is raised without a picture, and so is not reported, only
\* if the lines have changed, or were not checked in the frame of the trail's
\* last detection because a video could not be saved.
PictureMissingExplained ==
    \A k \in 1..Len(log) : ~log[k].picture => log[k].stale

\* All three: what ProcessResult and class Trail do with the persons.
TrailsAreRight == AgeIsSilence /\ OneAlarmPerCrossing /\ PictureMissingExplained

=============================================================================
