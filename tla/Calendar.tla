------------------------------ MODULE Calendar ------------------------------
(* When a schedule runs next (scheduler/next.go), as it is asked by whoever  *)
(* makes or edits a schedule (scheduleFromInput), and by the engine after a  *)
(* run (automation/engine.go).                                               *)
(*                                                                           *)
(* The calendar is a parameter: so many seconds a minute, minutes an hour,   *)
(* hours a day, the days of the months, and a day more in the second month   *)
(* of every so many years. An instant is a number of seconds from the start  *)
(* of a leap year.                                                           *)
EXTENDS Integers, Sequences, FiniteSets, FiniteSetsExt

CONSTANTS
  Second,       \* seconds of a minute
  Minute,       \* minutes of an hour
  Hour,         \* hours of a day
  Months,       \* days of each month of a common year
  Week,         \* days of a week; the week's first day is 0 and also Week
  Leap,         \* every so many years is a leap year
  Schedules,    \* the cadences that are asked for
  MaxTime,      \* bound: the last instant something is asked at
  Late          \* bound: how late the engine is

ASSUME CalendarCounts ==
  /\ {Second, Minute, Hour, Week, Leap, Late} \subseteq Nat \ {0} /\ MaxTime \in Nat
  /\ Months \in Seq(Nat \ {0}) /\ Len(Months) >= 2

VARIABLES
  schedule,   \* the cadence: [interval |-> n] or the five fields
  now,        \* the clock
  next,       \* next_run_at, or none
  asked,      \* the instant it was computed from
  stage,      \* idle, parse, search, refused
  candidate,  \* the minute that is tried
  tries,      \* how many have been
  asker       \* owner, who has to be given an instant; or engine

calendarVars == <<schedule, now, next, asked, stage, candidate, tries, asker>>

Never == -1

------------------------------------------------------------------------------
(* The calendar.                                                             *)

DaySeconds == Second * Minute * Hour

\* The first year of a cycle is a leap year; the days of a year, by month.
Length(m, year) == Months[m] + (IF m = 2 /\ year = 0 THEN 1 ELSE 0)
DaysOf(year) == UNION {{m} \X (1..Length(m, year)) : m \in DOMAIN Months}

CommonYear == Cardinality(DaysOf(1))
CycleDays == Leap * CommonYear + 1

DayOf(t) == (t \div DaySeconds) % CycleDays
YearOf(d) == IF d <= CommonYear THEN 0 ELSE (d - 1) \div CommonYear
YearDay(d) == IF d <= CommonYear THEN d ELSE (d - 1) % CommonYear
Before(m, year) == Cardinality({d \in DaysOf(year) : d[1] < m})
MonthOf(d) ==
  Max({m \in DOMAIN Months : Before(m, YearOf(d)) <= YearDay(d)})
DayOfMonth(d) == YearDay(d) - Before(MonthOf(d), YearOf(d)) + 1
WeekdayOf(t) == (t \div DaySeconds) % Week

Face(t) ==
  [minute |-> (t \div Second) % Minute, hour |-> (t \div (Second * Minute)) % Hour,
   day |-> DayOfMonth(DayOf(t)), month |-> MonthOf(DayOf(t)), weekday |-> WeekdayOf(t)]

------------------------------------------------------------------------------
(* An expression: each field is "*" or a set of parts, and a part an item, a *)
(* range or "*", with a step. Descriptors stand for such an expression.      *)

FieldNames == {"minute", "hour", "day", "month", "weekday"}
Lowest(f) == IF f \in {"day", "month"} THEN 1 ELSE 0
Highest(f) ==
  CASE f = "minute" -> Minute - 1
    [] f = "hour" -> Hour - 1
    [] f = "day" -> Max({Months[k] : k \in DOMAIN Months})
    [] f = "month" -> Len(Months)
    [] f = "weekday" -> Week

Parts == [base : {"*", "item", "range"}, lo : Int, hi : Int, step : Int]
IsInterval(s) == "interval" \in DOMAIN s

ASSUME CadencesAreRead == \A s \in Schedules : IsInterval(s) \/ s \in [FieldNames -> SUBSET Parts]

\* A part that says nothing of its bounds takes those of the field.
Start(f, p) == IF p.base = "*" THEN Lowest(f) ELSE p.lo
End(f, p) == IF p.base = "*" THEN Highest(f) ELSE p.hi

PartOK(f, p) ==
  /\ p.step > 0
  /\ p.base = "item" => p.step = 1
  /\ Lowest(f) <= Start(f, p) /\ Start(f, p) <= End(f, p) /\ End(f, p) <= Highest(f)

Normal(f, v) == IF f = "weekday" /\ v = Week THEN 0 ELSE v

\* parseField
ParseField(f, field) ==
  UNION {{Normal(f, Start(f, p) + k * p.step) : k \in 0..((End(f, p) - Start(f, p)) \div p.step)} : p \in field}

\* fieldMatcher.matches
Matches(f, field, value) == field = {} \/ value \in ParseField(f, field)

FieldsOK(s) == \A f \in FieldNames : \A p \in s[f] : PartOK(f, p)

------------------------------------------------------------------------------
(* Next, which is asked for a schedule at an instant.                        *)

\* (mutant) The minute that has begun is tried too.
ThisMinute(t) == (t \div Second) * Second

FirstMinute(t) == (t \div Second) * Second + Second

\* maximumSearchMinutes: a leap year.
SearchMinutes == (CommonYear + 1) * Hour * Minute

\* IntervalSeconds, @every; or the first minute to try.
Ask(s, t) ==
  /\ asked' = t /\ tries' = 0
  /\ IF IsInterval(s) THEN stage' = "idle" /\ next' = t + s.interval /\ candidate' = 0
     ELSE stage' = "search" /\ candidate' = FirstMinute(t) /\ UNCHANGED next

Search ==
  /\ stage = "search"
  /\ LET face == Face(candidate)
     IN IF tries = SearchMinutes
        THEN /\ stage' = IF asker = "owner" THEN "refused" ELSE "idle"
             /\ next' = Never /\ UNCHANGED <<candidate, tries>>
        ELSE IF \A f \in FieldNames : Matches(f, schedule[f], face[f])
        THEN stage' = "idle" /\ next' = candidate /\ UNCHANGED <<candidate, tries>>
        ELSE candidate' = candidate + Second /\ tries' = tries + 1 /\ UNCHANGED <<stage, next>>
  /\ UNCHANGED <<schedule, now, asked, asker>>

\* scheduleFromInput: a cadence that cannot be read, or never comes, is refused.
Create ==
  /\ stage = "parse"
  /\ IF IsInterval(schedule) \/ FieldsOK(schedule) THEN Ask(schedule, now)
     ELSE stage' = "refused" /\ UNCHANGED <<next, asked, candidate, tries>>
  /\ UNCHANGED <<schedule, now, asker>>

\* RunDue: the engine comes after next_run_at, and asks from when it is done.
Run(t) ==
  /\ stage = "idle" /\ next # Never /\ t \in next..(next + Late) /\ t <= MaxTime
  /\ now' = t /\ asker' = "engine"
  /\ Ask(schedule, t)
  /\ UNCHANGED schedule

------------------------------------------------------------------------------

CalendarInit ==
  /\ schedule \in Schedules /\ now \in 0..MaxTime
  /\ next = Never /\ asked = now /\ stage = "parse" /\ asker = "owner"
  /\ candidate = 0 /\ tries = 0

CalendarNext == Create \/ Search \/ \E t \in 0..MaxTime : Run(t)
CalendarSpec == CalendarInit /\ [][CalendarNext]_calendarVars

------------------------------------------------------------------------------
(* Properties.                                                               *)

\* What a field says of a value, read item by item. The week's first day has
\* two numbers.
Says(f, field, v) ==
  field = {} \/ \E p \in field, w \in {v} \cup (IF f = "weekday" /\ v = 0 THEN {Week} ELSE {}) :
    Start(f, p) <= w /\ w <= End(f, p) /\ (w - Start(f, p)) % p.step = 0

Occurs(t) == t % Second = 0 /\ LET face == Face(t) IN \A f \in FieldNames : Says(f, schedule[f], face[f])

\* next_run_at is the first occurrence strictly after the instant it was asked
\* at, however late the engine came, in the middle of a minute, over the ends
\* of months and years; and a cadence is refused, or runs dry, only if it has
\* no occurrence for a year.
NextIsFirst ==
  stage \in {"idle", "refused"} =>
    IF IsInterval(schedule) THEN stage = "idle" /\ next = asked + schedule.interval
    ELSE LET hits == {t \in (asked + 1)..(asked + SearchMinutes * Second) : Occurs(t)}
         IN IF stage = "refused" THEN FieldsOK(schedule) => hits = {}
            ELSE IF next = Never THEN hits = {} ELSE hits # {} /\ next = Min(hits)
=============================================================================
