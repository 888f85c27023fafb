--------------------------- MODULE ScheduleGrammar ---------------------------
(***************************************************************************)
(* The schedule grammar: ParseSchedule (scheduler/scheduling_units.go) and *)
(* the builders it calls (Every, At, Cron, Months, Weekday, addRunAtTime   *)
(* in api.go and time_utils.go), followed by the validation that           *)
(* Schedule() does before it writes anything (api.go).                     *)
(*                                                                         *)
(* A schedule string is modelled by what strings.Split(s, " ") makes of    *)
(* it: a sequence of words.  A word is a record whose kind says which      *)
(* parsers accept it, so no string is built character by character:       *)
(*   Kw(s)       a word that is neither a number nor a duration ("every",  *)
(*               "hours", "*", "" for an empty word, ...)                  *)
(*   Num(n)      a word strconv.Atoi accepts                               *)
(*   Dur(d)      a word time.ParseDuration accepts (and Atoi does not),    *)
(*               d in seconds                                              *)
(*   Times(l)    a ';'-separated list of clock words for At                *)
(*   DayList(l)  a ','-separated list of at least two day words            *)
(* Letter case is left out: every keyword is already lower case.           *)
(***************************************************************************)
EXTENDS Integers, Sequences, SequencesExt, FiniteSets

CONSTANTS
    Numbers,      \* integers written as words, e.g. the N of "every N"
    Durations,    \* durations (seconds) written as Go duration literals
    UnitWords,    \* words tried after "every N" (keys of the unit table)
    Clocks,       \* clock words for "at": [re, h, m]
    MaxTimes,     \* longest ';' list of clocks
    DayItems,     \* items of a ',' day list: [ok, n]
    MaxDays,      \* longest ',' day list
    CronExprs,    \* the word sequences following "cron"
    TimesOfDay    \* the time of day (seconds) at which "now" is parsed

\* common.SchedulingUnit, with common.Months named MonthsUnit; 0 is the
\* zero value of a new task's Unit.
Once == 1
Milliseconds == 2
Seconds == 3
Minutes == 4
Hours == 5
Days == 6
Weeks == 7
MonthsUnit == 8
Duration == 9
Crontab == 10
Units == 0..10

Kw(s) == [k |-> "kw", v |-> s]
Num(n) == [k |-> "num", v |-> n]
Dur(d) == [k |-> "dur", v |-> d]
Times(l) == [k |-> "times", v |-> l]
DayList(l) == [k |-> "days", v |-> l]
IsKw(x, s) == x.k = "kw" /\ x.v = s

\* The unit table of ParseSchedule: each word calls a unit setter, a
\* weekday setter (time.Weekday, Sunday = 0) or Midday.
UnitOf ==
    [w \in {"millisecond", "milliseconds"} |-> Milliseconds] @@
    [w \in {"second", "seconds"} |-> Seconds] @@
    [w \in {"minute", "minutes"} |-> Minutes] @@
    [w \in {"hour", "hours"} |-> Hours] @@
    [w \in {"day", "days"} |-> Days] @@
    [w \in {"week", "weeks"} |-> Weeks]
WeekdayOf ==
    [w \in {"sunday"} |-> 0] @@ [w \in {"monday"} |-> 1] @@
    [w \in {"tuesday"} |-> 2] @@ [w \in {"wednesday"} |-> 3] @@
    [w \in {"thursday"} |-> 4] @@ [w \in {"friday"} |-> 5] @@
    [w \in {"saturday"} |-> 6]
UnitTableKeys == DOMAIN UnitOf \cup DOMAIN WeekdayOf \cup {"midday"}

\* The fields of db.Task that parsing sets; err is "s.error != nil".
Blank == [unit |-> 0, interval |-> 0, duration |-> 0, runAt |-> <<>>,
          weekdays |-> <<>>, monthDays |-> <<>>, err |-> FALSE]
WithErr(s) == [s EXCEPT !.err = TRUE]

setSchedulingUnit(s, u) ==
    IF s.unit \in {Duration, Crontab} THEN WithErr(s)
                                      ELSE [s EXCEPT !.unit = u]

(***************************************************************************)
(* parseTime: the regex admits one or two hour digits and two minute       *)
(* digits (re); time.Parse with layout "15:04" then rejects an hour above  *)
(* 23 or a minute above 59.  A clock is its offset from midnight.          *)
(***************************************************************************)
ParseTimeRegexOnly(c) == c.re
ParseTime(c) == c.re /\ c.h <= 23 /\ c.m <= 59
Offset(c) == c.h * 3600 + c.m * 60

(***************************************************************************)
(* addRunAtTime: sort.Search over RunAt, where the predicate also records  *)
(* in exist whether the element it last found >= t equals t; the new time *)
(* is inserted at the index found unless it exists.  Search is Go's        *)
(* binary search with 0-based indices i, j.                                *)
(***************************************************************************)
RECURSIVE SearchGreater(_, _, _, _, _)
SearchGreater(r, t, i, j, exist) ==
    IF i >= j THEN [idx |-> i, exist |-> exist]
    ELSE LET h == (i + j) \div 2
         IN IF r[h + 1] > t THEN SearchGreater(r, t, i, h, r[h + 1] = t)
                            ELSE SearchGreater(r, t, h + 1, j, exist)
RECURSIVE Search(_, _, _, _, _)
Search(r, t, i, j, exist) ==
    IF i >= j THEN [idx |-> i, exist |-> exist]
    ELSE LET h == (i + j) \div 2
         IN IF r[h + 1] >= t THEN Search(r, t, i, h, r[h + 1] = t)
                             ELSE Search(r, t, h + 1, j, exist)

addRunAtTime(s, t) ==
    IF s.runAt = <<>> THEN [s EXCEPT !.runAt = <<t>>]
    ELSE LET found == Search(s.runAt, t, 0, Len(s.runAt), FALSE)
         IN IF found.exist THEN s
            ELSE [s EXCEPT !.runAt = InsertAt(@, found.idx + 1, t)]

\* At(string): each ';'-separated clock in order; the first that fails to
\* parse sets the error and returns, keeping the times added before it.
\* A word that is not a clock list fails on its first (only) element.
RECURSIVE AtClocks(_, _)
AtClocks(s, l) ==
    IF l = <<>> THEN s
    ELSE IF ~ParseTime(Head(l)) THEN WithErr(s)
    ELSE AtClocks(addRunAtTime(s, Offset(Head(l))), Tail(l))

At(s, x) == IF x.k = "times" THEN AtClocks(s, x.v) ELSE WithErr(s)

\* Every(int): the interval, an error unless it is positive.
EveryInt(s, n) == [s EXCEPT !.interval = n, !.err = @ \/ n <= 0]

\* Every(string): time.ParseDuration; on failure d is 0 and the error is
\* kept; the unit becomes Duration either way.
EveryString(s, x) ==
    setSchedulingUnit([s EXCEPT !.duration = IF x.k = "dur" THEN x.v ELSE 0,
                                !.err = @ \/ x.k # "dur"], Duration)

\* ParseDaysOfMonth: split on ',' and Atoi each item; nil on the first
\* item that is not a number.
ParseDaysOfMonth(x) ==
    CASE x.k = "num" -> [err |-> FALSE, days |-> <<x.v>>]
      [] x.k = "days" /\ \A i \in DOMAIN x.v : x.v[i].ok ->
            [err |-> FALSE, days |-> [i \in DOMAIN x.v |-> x.v[i].n]]
      [] OTHER -> [err |-> TRUE, days |-> <<>>]

DayInRange29(d) == d >= 1 /\ d <= 29
DayInRange(d) == d >= 1 /\ d <= 28

\* The checks of Months: no day; a single day that is neither -1 nor in
\* range; or, of several, one out of range, already in the task, or
\* repeated.  The loop breaks at its first error, which only skips checks
\* whose outcome no longer matters.
MonthsInvalid(existing, days) ==
    CASE Len(days) = 0 -> TRUE
      [] Len(days) = 1 -> days[1] # -1 /\ ~DayInRange(days[1])
      [] OTHER -> \E i \in 1..Len(days) :
                    \/ ~DayInRange(days[i])
                    \/ days[i] \in Range(existing)
                    \/ \E j \in 1..(i - 1) : days[j] = days[i]

\* Months appends the days even when they are invalid.
Months(s, days) ==
    setSchedulingUnit([s EXCEPT !.err = @ \/ MonthsInvalid(s.monthDays, days),
                                !.monthDays = @ \o days], MonthsUnit)

Weekday(s, d) ==
    setSchedulingUnit(IF d \in Range(s.weekdays) THEN s
                      ELSE [s EXCEPT !.weekdays = Append(@, d)], Weeks)

Midday(s) == At(s, Times(<<[re |-> TRUE, h |-> 12, m |-> 0]>>))

ApplyUnit(s, u) ==
    CASE u \in DOMAIN UnitOf -> setSchedulingUnit(s, UnitOf[u])
      [] u \in DOMAIN WeekdayOf -> Weekday(s, WeekdayOf[u])
      [] OTHER -> Midday(s)

(***************************************************************************)
(* Cron: the expression gets a "CRON_TZ=<location>" prefix unless it has   *)
(* one; the parser (robfig/cron with Second|...|Dow|Descriptor, so exactly *)
(* six fields) drops the zone word and accepts a descriptor or six valid   *)
(* fields.  The unit is set to Crontab directly, with no setSchedulingUnit.*)
(***************************************************************************)
IsZone(x) == x.k = "kw" /\ x.v \in {"TZ=UTC", "CRON_TZ=UTC"}
StripZone(e) == IF e # <<>> /\ IsZone(e[1]) THEN Tail(e) ELSE e
CronField(x) == x.k = "num" \/ IsKw(x, "*")
CronParses(e) ==
    LET f == StripZone(e)
    IN \/ Len(f) = 1 /\ IsKw(f[1], "@daily")
       \/ Len(f) = 6 /\ \A i \in 1..6 : CronField(f[i])

Cron(s, e) == [s EXCEPT !.unit = Crontab, !.err = @ \/ ~CronParses(e)]

\* ParseSchedule after "every": Every(int) if the word is a number, else
\* Every(string), then the optional unit word.
ParseEvery(w) ==
    LET s == IF w[2].k = "num" THEN EveryInt(Blank, w[2].v)
                               ELSE EveryString(Blank, w[2])
    IN IF Len(w) = 2 THEN s
       ELSE IF IsKw(w[3], "monthdays")
            THEN IF Len(w) < 4 THEN WithErr(s)
                 ELSE LET pd == ParseDaysOfMonth(w[4])
                      IN Months([s EXCEPT !.err = @ \/ pd.err], pd.days)
       ELSE IF w[3].k = "kw" /\ w[3].v \in UnitTableKeys
            THEN ApplyUnit(s, w[3].v)
       ELSE WithErr(s)

\* ParseSchedule on the words of the string; "" splits into one empty
\* word.  "now" sets Unit = Once and calls Now(), which adds the time of
\* day as the only run time.  "at" and "cron" read only the second word.
ParseSchedule(w, tod) ==
    IF Len(w) = 1 /\ (IsKw(w[1], "") \/ IsKw(w[1], "now"))
    THEN addRunAtTime(setSchedulingUnit([Blank EXCEPT !.unit = Once], Once), tod)
    ELSE IF Len(w) < 2 THEN WithErr(Blank)
    ELSE IF IsKw(w[1], "every") THEN ParseEvery(w)
    ELSE IF IsKw(w[1], "at") THEN At(Blank, w[2])
    ELSE IF IsKw(w[1], "cron") THEN Cron(Blank, <<w[2]>>)
    ELSE WithErr(Blank)

\* The checks at the top of Schedule(): weekdays need unit Weeks, and a
\* task with no interval must be a Crontab, Duration or Once task.
ScheduleRejects(s) ==
    \/ s.err
    \/ s.weekdays # <<>> /\ s.unit # Weeks
    \/ s.unit # Crontab /\ s.interval = 0 /\ s.unit \notin {Duration, Once}

\* What Schedule() goes on to do: a Once task is sent to the dispatch
\* queue, any other gets a scheduled run.
Outcome(s) ==
    IF ScheduleRejects(s) THEN "rejected"
    ELSE IF s.unit = Once THEN "dispatched" ELSE "stored"

(***************************************************************************)
(* The inputs: every word sequence the families below build from the       *)
(* constants, grammatical or not.                                          *)
(***************************************************************************)
NumWords == {Num(n) : n \in Numbers}
DurWords == {Dur(d) : d \in Durations}
TimeWords == {Times(l) : l \in SeqOf(Clocks, MaxTimes) \ {<<>>}}
DayWords ==
    {Num(i.n) : i \in {j \in DayItems : j.ok}} \cup {Kw("x")} \cup
    {DayList(l) : l \in {l \in SeqOf(DayItems, MaxDays) : Len(l) >= 2}}
Inputs ==
    {<<Kw("")>>, <<Kw("now")>>, <<Kw("every")>>, <<Kw("x"), Kw("x")>>}
    \cup {<<Kw("every"), n>> : n \in NumWords \cup DurWords \cup {Kw("x")}}
    \cup {<<Kw("every"), n, Kw(u)>> :
            n \in NumWords \cup DurWords, u \in UnitWords \cup {"monthdays", "x"}}
    \cup {<<Kw("every"), n, Kw("monthdays"), d>> : n \in NumWords, d \in DayWords}
    \cup {<<Kw("at"), t>> : t \in TimeWords \cup {Kw("x")}}
    \cup {<<Kw("cron")>> \o e : e \in CronExprs}

(***************************************************************************)
(* The grammar of spec section 4.1, read independently of the code; the    *)
(* reference the parser is checked against.                                *)
(***************************************************************************)
PositiveN(x) == x.k = "num" /\ x.v > 0
SpecDayList(x) ==
    CASE x.k = "num" -> <<x.v>>
      [] x.k = "days" /\ \A i \in DOMAIN x.v : x.v[i].ok ->
            [i \in DOMAIN x.v |-> x.v[i].n]
      [] OTHER -> <<>>
ValidMonthDays(l) ==
    \/ l = <<-1>>
    \/ l # <<>> /\ Range(l) \subseteq 1..28 /\ IsInjective(l)
SpecEvery(w) ==
    /\ Len(w) >= 2
    /\ IsKw(w[1], "every")
    /\ \/ Len(w) = 2 /\ w[2].k = "dur"
       \/ Len(w) = 3 /\ PositiveN(w[2]) /\ w[3].k = "kw" /\ w[3].v \in UnitTableKeys
       \/ /\ Len(w) = 4 /\ PositiveN(w[2]) /\ IsKw(w[3], "monthdays")
          /\ ValidMonthDays(SpecDayList(w[4]))
SpecClock(c) == c.re /\ c.h \in 0..23 /\ c.m \in 0..59
SpecAt(w) ==
    /\ Len(w) = 2 /\ IsKw(w[1], "at") /\ w[2].k = "times"
    /\ \A i \in DOMAIN w[2].v : SpecClock(w[2].v[i])

\* The canonical form the spec gives an "every" schedule.
EveryFormMatches(w, s) ==
    CASE Len(w) = 2 -> s.unit = Duration /\ s.duration = w[2].v
      [] Len(w) = 3 /\ w[3].v \in DOMAIN UnitOf ->
            s.interval = w[2].v /\ s.unit = UnitOf[w[3].v]
      [] Len(w) = 3 /\ w[3].v \in DOMAIN WeekdayOf ->
            /\ s.interval = w[2].v /\ s.unit = Weeks
            /\ s.weekdays = <<WeekdayOf[w[3].v]>>
      [] Len(w) = 3 -> s.interval = w[2].v /\ s.runAt = <<12 * 3600>>
      [] OTHER ->
            /\ s.interval = w[2].v /\ s.unit = MonthsUnit
            /\ s.monthDays = SpecDayList(w[4])

(***************************************************************************)
(* The request handler parses and validates one schedule per request       *)
(* (request_handler.go: NewScheduledTask(...).ParseSchedule(..).Schedule). *)
(* input is the last schedule received, task what parsing built, outcome   *)
(* what Schedule() did with it.                                            *)
(***************************************************************************)
VARIABLES input, task, outcome

vars == <<input, task, outcome>>

Init ==
    /\ input = <<>>
    /\ task = Blank
    /\ outcome = "none"

HandleSchedule(w, tod) ==
    /\ input' = w
    /\ task' = ParseSchedule(w, tod)
    /\ outcome' = Outcome(task')

Next == \E w \in Inputs, tod \in TimesOfDay : HandleSchedule(w, tod)

Spec == Init /\ [][Next]_vars

-----------------------------------------------------------------------------
TypeOK ==
    /\ task.unit \in Units
    /\ task.interval \in Int
    /\ task.duration \in Int
    /\ task.runAt \in Seq(0..(24 * 3600 - 1))
    /\ task.weekdays \in Seq(0..6)
    /\ task.monthDays \in Seq(Int)
    /\ task.err \in BOOLEAN
    /\ outcome \in {"none", "rejected", "dispatched", "stored"}

\* Spec P4, "at" half: parsing a grammatical "at" list succeeds and leaves
\* RunAt equal to its offsets sorted and without duplicates, whatever the
\* order and repetition of the clocks; this is addRunAtTime's binary
\* search and insertion, applied once per clock.
RunAtSortedUnique ==
    SpecAt(input) =>
        /\ ~task.err
        /\ task.runAt = SetToSortSeq({Offset(c) : c \in Range(input[2].v)}, <)

\* Spec 4.1 and P4, "every" half: every "every" schedule of the grammar is
\* accepted by Schedule() and stored with the spec's canonical unit,
\* interval, duration, weekdays or month days; and a "monthdays" schedule
\* Schedule() accepts has days the grammar allows (1..28 or a single -1,
\* no repeats).  This is about ParseSchedule, Every, Months, Weekday and
\* the validation in Schedule() together.
EveryGrammarRoundTrip ==
    /\ SpecEvery(input) => outcome = "stored" /\ EveryFormMatches(input, task)
    /\ (outcome = "stored" /\ Len(input) = 4 /\ IsKw(input[3], "monthdays"))
            => SpecEvery(input)

=============================================================================
