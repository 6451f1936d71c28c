------------------------------ MODULE LogTime ------------------------------
(* The time that every line of a log begins with (LogTime of base/log.cc).  *)
(* It is kept as text, and moved on by the seconds that have passed since   *)
(* it was asked for; only when an hour ends, or the clock was set, is the   *)
(* time of day worked out again.                                            *)
LOCAL INSTANCE Integers

CONSTANT Sixty   \* seconds of a minute and minutes of an hour

\* localtime_r: the day and the hour together, the minute, the second.
Local(now) ==
    [hour |-> now \div (Sixty * Sixty), min |-> (now \div Sixty) % Sixty, sec |-> now % Sixty]

\* start, tm and the fields of the text.
reset(now) == [start |-> now, tm |-> Local(now), buf |-> Local(now)]

\* sec is tm_sec with the seconds that passed.
Rolled(t, now, sec) ==
    IF t.tm.min = Sixty - 1 /\ sec > Sixty - 1 THEN reset(now)
    ELSE IF sec < Sixty
    THEN [t EXCEPT !.start = now, !.tm.sec = sec, !.buf.sec = sec]
    ELSE [t EXCEPT !.start = now, !.tm.min = @ + 1, !.tm.sec = sec - Sixty,
                   !.buf.min = t.tm.min + 1, !.buf.sec = sec - Sixty]
update(t, now) ==
    IF now = t.start THEN t
    ELSE IF now - t.start \notin 0..Sixty THEN reset(now)
    ELSE Rolled(t, now, t.tm.sec + (now - t.start))
=============================================================================
