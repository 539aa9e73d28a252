------------------------------ MODULE WallClock ------------------------------
(***************************************************************************)
(* The schedule engine of scheduler.rs: the next firing of a schedule      *)
(* strictly after an instant, in a time zone whose clock springs forward   *)
(* or falls back.  An instant and a wall-clock time are integers, in       *)
(* minutes; an hour has Hour of them and a day has Day, so that TLC can    *)
(* use a short day.  Seconds are dropped: every kind drops them too.       *)
(* Cron schedules belong to the croner crate and are not modelled.         *)
(***************************************************************************)
EXTENDS Integers, FiniteSets, FiniteSetsExt

CONSTANTS
    Hour,       \* minutes in an hour
    Day,        \* minutes in a day
    Week,       \* days in a week
    ShortMonth, \* months alternate between two lengths, in days
    LongMonth

ASSUME CalendarAssumption ==
    /\ {Hour, Day, Week, ShortMonth, LongMonth} \subseteq Nat \ {0}
    /\ Day % Hour = 0
    /\ ShortMonth <= LongMonth

-----------------------------------------------------------------------------
\* Time zones with one transition: the offset is base before the instant z.at,
\* and base + shift from then on.  shift > 0 makes a gap, shift < 0 a fold, which
\* in no zone is longer than a day.
ZoneType == {z \in [base : Int, at : Int, shift : Int] : z.shift >= -Day}

Local(z, t) == t + z.base + (IF t < z.at THEN 0 ELSE z.shift)

\* from_local_datetime: none in a gap, two in a fold, one elsewhere.
Instants(z, w) == {t \in {w - z.base, w - z.base - z.shift} : Local(z, t) = w}

\* Mutants: the later offset of a fold; the offset before the gap.
ResolveToLatest(z, w) == IF Instants(z, w) = {} THEN z.at ELSE Max(Instants(z, w))
ResolveUnshifted(z, w) ==
    IF Instants(z, w) = {} THEN w - z.base ELSE Min(Instants(z, w))

\* resolve_wall_clock: the earlier offset of a fold; in a gap, the first later
\* minute that exists exactly once.
ResolveWallClock(z, w) ==
    IF Instants(z, w) # {} THEN Min(Instants(z, w))
    ELSE LET probes == {u \in (w + 1)..(w + z.shift) : Cardinality(Instants(z, u)) = 1}
         IN Min(Instants(z, Min(probes)))

\* The boundary of size every next after a position within its period.
NextBoundary(every, position) == (position \div every + 1) * every

NextMinuteAligned(z, everyMinutes, t) ==
    LET wall == Local(z, t)
        minute == wall % Hour
    IN ResolveWallClock(z, wall - minute + NextBoundary(everyMinutes, minute))

NextHourAligned(z, everyHours, t) ==
    LET wall == Local(z, t)
        midnight == wall - (wall % Day)
        hour == (wall % Day) \div Hour
    IN ResolveWallClock(z, midnight + NextBoundary(everyHours, hour) * Hour)

-----------------------------------------------------------------------------
\* Calendar schedules: dates and months are counted from zero.

MonthLength(m) == IF m % 2 = 0 THEN ShortMonth ELSE LongMonth
MonthStart(m)  == (m \div 2) * (ShortMonth + LongMonth) + (m % 2) * ShortMonth
MonthOf(d)     == CHOOSE m \in {2 * (d \div (ShortMonth + LongMonth)) + i : i \in 0..1} :
                    MonthStart(m) <= d /\ d < MonthStart(m) + MonthLength(m)

\* calendar_fires_on; s.days holds numbers of weekdays.
CalendarFiresOn(s, d) == d % Week \in s.days

\* The target day of a month, if the month has it.
MonthlyDates(s, m) ==
    LET day == IF s.lastDay THEN MonthLength(m) ELSE s.onDay
    IN IF day <= MonthLength(m) THEN {MonthStart(m) + day - 1} ELSE {}

\* The dates the walk of next_calendar visits, from today's date or month on: a
\* week or four months always hold one that is late enough.
DatesFrom(s, today) ==
    IF s.monthly
    THEN UNION {MonthlyDates(s, m) : m \in MonthOf(today)..(MonthOf(today) + 4)}
    ELSE {d \in today..(today + 2 * Week) : CalendarFiresOn(s, d)}

\* Mutant: a candidate at `after` itself is accepted.
NextCalendarInclusive(z, s, t) ==
    LET candidate(d) == ResolveWallClock(z, d * Day + s.time)
        later == {d \in DatesFrom(s, Local(z, t) \div Day) : candidate(d) >= t}
    IN candidate(Min(later))

\* The first of those dates whose instant is strictly after t.
NextCalendar(z, s, t) ==
    LET candidate(d) == ResolveWallClock(z, d * Day + s.time)
        later == {d \in DatesFrom(s, Local(z, t) \div Day) : candidate(d) > t}
    IN candidate(Min(later))

\* The rules that validation lets pass and normalisation makes: intervals divide the
\* hour or the day, days are named, a day of the month is one some month has.
RuleType ==
    [kind : {"minute"}, every : {n \in 1..Hour : Hour % n = 0}] \cup
    [kind : {"hour"}, every : {n \in 1..(Day \div Hour) : (Day \div Hour) % n = 0}] \cup
    [kind : {"calendar"}, monthly : {FALSE},
     days : (SUBSET (0..(Week - 1))) \ {{}}, time : 0..(Day - 1)] \cup
    [kind : {"calendar"}, monthly : {TRUE}, lastDay : {FALSE},
     onDay : 1..LongMonth, time : 0..(Day - 1)] \cup
    [kind : {"calendar"}, monthly : {TRUE}, lastDay : {TRUE},
     onDay : {0}, time : 0..(Day - 1)]

\* next_occurrence
NextOccurrence(z, s, t) ==
    CASE s.kind = "minute"   -> NextMinuteAligned(z, s.every, t)
      [] s.kind = "hour"     -> NextHourAligned(z, s.every, t)
      [] s.kind = "calendar" -> NextCalendar(z, s, t)

-----------------------------------------------------------------------------
\* The reference: what a schedule means on a clock on the wall

\* Whether the schedule names the wall-clock time w.
Names(s, w) ==
    CASE s.kind = "minute"   -> (w % Hour) % s.every = 0
      [] s.kind = "hour"     -> w % Hour = 0 /\ ((w % Day) \div Hour) % s.every = 0
      [] s.kind = "calendar" ->
           /\ w % Day = s.time
           /\ LET d == w \div Day
              IN IF s.monthly THEN d \in MonthlyDates(s, MonthOf(d)) ELSE CalendarFiresOn(s, d)

\* A time on the wall is reached at the first instant, among those of the
\* horizon, whose clock shows it or has jumped past it.
Reached(z, w, horizon) == Min({t \in horizon : Local(z, t) >= w})

\* The firings within the horizon: each named time that is reached, once.
Firings(z, s, horizon) ==
    LET walls == {Local(z, t) : t \in horizon}
        named == {w \in Min(walls)..Max(walls) : Names(s, w)}
    IN {Reached(z, w, horizon) : w \in named}

\* Where the aligned kinds keep their contract: a fold repeats the wall-clock
\* times from z.at + z.base + z.shift up to z.at + z.base, and none inside may be
\* named.  Calendar schedules keep theirs everywhere.
FoldRepeatsNone(z, s) ==
    s.kind = "calendar" \/
    \A w \in (z.at + z.base + z.shift + 1)..(z.at + z.base - 1) : ~Names(s, w)
=============================================================================
