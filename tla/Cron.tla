--------------------------------- MODULE Cron ---------------------------------
(***************************************************************************)
(* The first minute at which a cron expression fires (nextFire,            *)
(* src/src/modules/ops/cron.ts), which is where a schedule's next tick     *)
(* comes from.  nextFire does not try each minute: it jumps to the next    *)
(* local midnight, or the next local hour, when the day or the hour does   *)
(* not match, and a jump is counted in minutes of a day of full length -   *)
(* in a zone whose clock may be moved in between.  The sizes of the        *)
(* calendar are parameters, so that every expression can be tried on a     *)
(* small one.                                                              *)
(***************************************************************************)
EXTENDS Scheduler, FiniteSetsExt

CONSTANTS
    MinutesPerHour, HoursPerDay, DaysPerMonth, MonthsPerYear, DaysPerWeek,
    Changes   \* full hours at which the zones that move their clock move it

MinutesPerDay == MinutesPerHour * HoursPerDay

ASSUME CalendarAssumption ==
    /\ MinutesPerHour \in Nat \ {0} /\ HoursPerDay \in Nat \ {0}
    /\ DaysPerMonth \in Nat \ {0} /\ MonthsPerYear \in Nat \ {0} /\ DaysPerWeek \in Nat \ {0}
    /\ Changes \subseteq Nat /\ \A at \in Changes : at % MinutesPerHour = 0

\* Bound: the expressions are followed for one year and a day, and an
\* expression that does not fire by then never fires.
LastTime == MinutesPerDay * (DaysPerMonth * MonthsPerYear + 1)
Time == 0 .. LastTime
Never == LastTime + 1

\* A parsed expression (parseCron): the values of each field, and whether a
\* day field was anything but "*".
Field(n) == (SUBSET (0 .. n - 1)) \ {{}}
DayField(n) == [values : Field(n), restricted : {TRUE}] \union {[values |-> 0 .. n - 1, restricted |-> FALSE]}
CronSpec ==
    [minutes : Field(MinutesPerHour), hours : Field(HoursPerDay), months : Field(MonthsPerYear),
     daysOfMonth : DayField(DaysPerMonth), daysOfWeek : DayField(DaysPerWeek)]

\* A zone is its offset at each instant, in minutes.  It keeps one offset, or
\* the clock goes back or on by an hour at a full hour.
Uniform == [t \in Time |-> 0]
Moved(at, by) == [t \in Time |-> IF t < at THEN MinutesPerHour ELSE MinutesPerHour + by]
Autumn == {Moved(at, -MinutesPerHour) : at \in Changes}
Spring == {Moved(at, MinutesPerHour) : at \in Changes}

\* localParts: the fields of the wall clock.
LocalParts(zone, t) ==
    LET m == t + zone[t]
        day == m \div MinutesPerDay
    IN  [minute |-> m % MinutesPerHour, hour |-> (m \div MinutesPerHour) % HoursPerDay,
         day |-> day % DaysPerMonth, weekday |-> day % DaysPerWeek,
         month |-> (day \div DaysPerMonth) % MonthsPerYear]

\* dayMatches: either day field when both are restricted, otherwise both.
DayMatches(spec, p) ==
    LET dom == p.day \in spec.daysOfMonth.values
        dow == p.weekday \in spec.daysOfWeek.values
    IN  IF spec.daysOfMonth.restricted /\ spec.daysOfWeek.restricted THEN dom \/ dow ELSE dom /\ dow

\* cronMatches.
CronMatches(spec, p) ==
    /\ p.month \in spec.months /\ DayMatches(spec, p)
    /\ p.hour \in spec.hours /\ p.minute \in spec.minutes

\* (mutant of ToNextHour: a whole hour from any minute of it)
ToNextHour_whole(p) == MinutesPerHour

ToNextHour(p) == MinutesPerHour - p.minute
ToMidnight(p) == MinutesPerDay - (p.hour * MinutesPerHour + p.minute)

\* nextFire's loop, from each minute it may stand at.
Search(spec, zone) ==
    LET find[t \in 0 .. LastTime + MinutesPerDay] ==
            IF t > LastTime THEN Never
            ELSE LET p == LocalParts(zone, t) IN
                 IF p.month \notin spec.months \/ ~DayMatches(spec, p) THEN find[t + ToMidnight(p)]
                 ELSE IF p.hour \notin spec.hours THEN find[t + ToNextHour(p)]
                 ELSE IF p.minute \notin spec.minutes THEN find[t + 1]
                 ELSE t
    IN  find

\* The first instant strictly after t at which the expression matches.
FirstMatch(spec, zone, t) ==
    LET later == {u \in Time : u > t /\ CronMatches(spec, LocalParts(zone, u))}
    IN  IF later = {} THEN Never ELSE Min(later)

EveryDay(spec) ==
    /\ spec.months = 0 .. MonthsPerYear - 1
    /\ ~spec.daysOfMonth.restricted /\ ~spec.daysOfWeek.restricted

\* nextFire of an expression in a zone gives the first match after t.
FiresFirst(spec, zone, t) == Search(spec, zone)[t + 1] = FirstMatch(spec, zone, t)

\* From which minutes every expression's next tick is its first match: in a
\* zone of one offset, where the clock goes back, and, if the expression
\* fires every day, where it goes on.  (On a day of 23 hours that does not
\* match, the jump lands an hour after midnight.)
CronRight ==
    [t \in 0 .. LastTime - 1 |->
        \A spec \in CronSpec :
            /\ \A zone \in {Uniform} \union Autumn : FiresFirst(spec, zone, t)
            /\ EveryDay(spec) => \A zone \in Spring : FiresFirst(spec, zone, t)]

\* Whenever a worker asks for the tick after a reading of the clock, now or
\* later, nextFire passes over no tick and invents none, whatever the
\* expression (cron.ts nextFire against cronMatches).
NextFireIsFirst == \A t \in DOMAIN CronRight : t >= now => CronRight[t]
=============================================================================
