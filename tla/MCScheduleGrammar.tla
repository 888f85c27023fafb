-------------------------- MODULE MCScheduleGrammar --------------------------
(***************************************************************************)
(* Inputs for checking ScheduleGrammar.  Each set holds a valid value, a   *)
(* value at or just past a boundary the code checks, and one it rejects.   *)
(***************************************************************************)
EXTENDS ScheduleGrammar

\* N of "every N": negative, zero, positive.
MCNumbers == {-1, 0, 2}
\* Duration literals: "-1h", "0s", "2h".
MCDurations == {-3600, 0, 7200}
\* A plain unit, a weekday and midday.
MCUnitWords == {"hours", "monday", "midday"}
\* "9:30", "12:00", "24:00" (matches the regex, fails time.Parse), "9h".
MCClocks ==
    {[re |-> TRUE, h |-> 9, m |-> 30], [re |-> TRUE, h |-> 12, m |-> 0],
     [re |-> TRUE, h |-> 24, m |-> 0], [re |-> FALSE, h |-> 9, m |-> 0]}
\* Day items -1, 1, 28, 29 and a non-number.
MCDayItems ==
    {[ok |-> TRUE, n |-> -1], [ok |-> TRUE, n |-> 1], [ok |-> TRUE, n |-> 28],
     [ok |-> TRUE, n |-> 29], [ok |-> FALSE, n |-> 0]}
Star == Kw("*")
\* "@daily", six fields, five fields, six fields after a zone, and "".
MCCronExprs ==
    {<<Kw("@daily")>>,
     <<Num(0), Star, Star, Star, Star, Star>>,
     <<Num(0), Star, Star, Star, Star>>,
     <<Kw("TZ=UTC"), Num(0), Star, Star, Star, Star, Star>>,
     <<Kw("")>>}
\* 09:30 in seconds.
MCTimesOfDay == {34200}

=============================================================================
