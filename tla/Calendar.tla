-------------------------------- MODULE Calendar --------------------------------
(***************************************************************************)
(* When the New York market is open, computed twice: by the agent's        *)
(* calendar (packages/core/src/session.ts, with the platform's time-zone   *)
(* data) and by its on-chain twin (NyseMarketCalendar.sol, with NyseTime's *)
(* integer arithmetic); and when a plan is due next (schedule.ts).         *)
(*                                                                         *)
(* An instant is a number of minutes since 1970-01-01 00:00 UTC (both      *)
(* drop the seconds), a date is the number yyyymmdd.                       *)
(***************************************************************************)
EXTENDS Integers, FiniteSetsExt

Sessions == {"regular", "pre", "post", "overnight", "weekend", "holiday"}
Day == 1440
Hour == 60
Ymd(y, m, d) == 10000 * y + 100 * m + d

-----------------------------------------------------------------------------
(* NyseTime.sol: Hinnant's dates, for days since 1970-01-01                *)

DaysFromCivil(year, m, d) ==
    LET doy == (153 * ((m + 9) % 12) + 2) \div 5 + d - 1
        inEra(era, yoe) == era * 146097 + yoe * 365 + yoe \div 4 - yoe \div 100 + doy - 719468
        inYear(y) == inEra(y \div 400, y % 400)
    IN inYear(IF m <= 2 THEN year - 1 ELSE year)

CivilFromDays(day) ==
    LET ofMonth(y, doy, mp) == [y |-> IF mp < 10 THEN y ELSE y + 1,
                                m |-> IF mp < 10 THEN mp + 3 ELSE mp - 9,
                                d |-> doy - (153 * mp + 2) \div 5 + 1]
        ofYear(y, doy) == ofMonth(y, doy, (5 * doy + 2) \div 153)
        ofYoe(era, doe, yoe) == ofYear(era * 400 + yoe, doe - (365 * yoe + yoe \div 4 - yoe \div 100))
        ofEra(era, doe) == ofYoe(era, doe,
            (doe - doe \div 1460 + doe \div 36524 - doe \div 146096) \div 365)
        ofDay(z) == ofEra(z \div 146097, z % 146097)
    IN ofDay(day + 719468)

Weekday(day) == (day + 4) % 7    \* 0 = Sunday

NthSunday(y, m, n) ==
    LET from(first) == first + ((7 - Weekday(first)) % 7) + 7 * (n - 1)
    IN from(DaysFromCivil(y, m, 1))

\* From 02:00 EST on March's second Sunday to 02:00 EDT on November's first.
IsDaylightSaving(t) ==
    LET in(y) == NthSunday(y, 3, 2) * Day + 7 * Hour <= t /\ t < NthSunday(y, 11, 1) * Day + 6 * Hour
    IN in(CivilFromDays(t \div Day).y)

NewYork(t) ==
    LET split(local) == [day |-> local \div Day, minute |-> local % Day]
    IN split(t - (IF IsDaylightSaving(t) THEN 4 * Hour ELSE 5 * Hour))

UtcOf(day, minute) ==
    LET of(wall) == wall + (IF IsDaylightSaving(wall + 4 * Hour) THEN 4 * Hour ELSE 5 * Hour)
    IN of(day * Day + minute)

-----------------------------------------------------------------------------
(* NyseMarketCalendar.sol: table.kind of some days, the years covered      *)

Deployed ==
    [holiday |-> {20260101, 20260119, 20260216, 20260403, 20260525, 20260619, 20260703, 20260907,
                  20261126, 20261225, 20270101, 20270118, 20270215, 20270326, 20270531, 20270618,
                  20270705, 20270906, 20271125, 20271224},
     early |-> {20261127, 20261224, 20271126},
     covered |-> {2026, 2027}]

\* epochDayOf reverts on a date that does not exist.
RealDate(ymd) ==
    LET y == ymd \div 10000
        m == (ymd \div 100) % 100
        d == ymd % 100
    IN y \in 1970..9999 /\ m \in 1..12 /\ d \in 1..31
       /\ CivilFromDays(DaysFromCivil(y, m, d)) = [y |-> y, m |-> m, d |-> d]

KindOn(table, ymd) == CASE ymd \in table.holiday -> "Holiday"
                        [] ymd \in table.early -> "EarlyClose"
                        [] OTHER -> "Normal"

\* setDays: back to normal, or to one of the two kinds.
SetDay(table, ymd, kind) ==
    [table EXCEPT !.holiday = IF kind = "Holiday" THEN @ \cup {ymd} ELSE @ \ {ymd},
                  !.early = IF kind = "EarlyClose" THEN @ \cup {ymd} ELSE @ \ {ymd}]

DayOf(t) == NewYork(t).day

\* The minute of a trading day that closes at `close`.
TradingDay(day, minute, close) ==
    LET closed(session) == [session |-> session, openedAt |-> 0]
    IN CASE minute \in 4 * Hour .. 9 * Hour + 29 -> closed("pre")
         [] minute \in 9 * Hour + 30 .. close - 1 ->
              [session |-> "regular", openedAt |-> UtcOf(day, 9 * Hour + 30)]
         [] minute \in close .. 20 * Hour - 1 -> closed("post")
         [] OTHER -> closed("overnight")
SessionAt(table, t) ==
    LET closed(session) == [session |-> session, openedAt |-> 0]
        onDate(day, year, kind) ==
            IF year \notin table.covered \/ kind = "Holiday" THEN closed("holiday")
            ELSE TradingDay(day, NewYork(t).minute,
                            IF kind = "EarlyClose" THEN 13 * Hour ELSE 16 * Hour)
        onDay(day, date) ==
            IF Weekday(day) \in {0, 6} THEN closed("weekend")
            ELSE onDate(day, date.y, KindOn(table, Ymd(date.y, date.m, date.d)))
        on(day) == onDay(day, CivilFromDays(day))
    IN on(DayOf(t))

-----------------------------------------------------------------------------
(* The platform's dates and its America/New_York, as the tz database       *)
(* defines it since 2007                                                   *)

\* (Functions over a bounded range, so that TLC tabulates them once: 1970 to 2099, and the
\* days of 2025 to 2028.)
Years == 1970..2099
Leap(y) == y % 4 = 0 /\ (y % 100 # 0 \/ y % 400 = 0)
MonthDays(y, m) == CASE m = 2 -> (IF Leap(y) THEN 29 ELSE 28)
                     [] m \in {4, 6, 9, 11} -> 30
                     [] OTHER -> 31
\* The day numbers of the first of January, and of each month.
YearStart == [y \in Years |-> 365 * (y - 1970) + Cardinality({l \in 1970 .. y - 1 : Leap(l)})]
MonthStart == [y \in Years, m \in 1..12 |->
                 YearStart[y] + MapThenSumSet(LAMBDA k : MonthDays(y, k), 1 .. m - 1)]
\* Date.UTC counts on past a month's end.
DayNumber(ymd) == MonthStart[ymd \div 10000, (ymd \div 100) % 100] + (ymd % 100) - 1
Dates == [day \in YearStart[2025] - 1 .. YearStart[2029] |->
            LET y == Max({y \in Years : YearStart[y] <= day})
                m == Max({m \in 1..12 : MonthStart[y, m] <= day})
            IN Ymd(y, m, day - MonthStart[y, m] + 1)]

Sunday(day) == day % 7 = 3   \* 1970-01-04 was one
SummerOf == [y \in Years |->
    LET sunday(m, days) == CHOOSE d \in {MonthStart[y, m] + k - 1 : k \in days} : Sunday(d)
    IN [from |-> sunday(3, 8..14) * Day + 7 * Hour, to |-> sunday(11, 1..7) * Day + 6 * Hour]]
Summer(t) == LET in(s) == s.from <= t /\ t < s.to IN in(SummerOf[Dates[t \div Day] \div 10000])

newYorkParts(t) ==
    LET parts(day, minute) ==
            [date |-> Dates[day], weekend |-> Sunday(day) \/ Sunday(day + 1), minutes |-> minute]
        of(local) == parts(local \div Day, local % Day)
    IN of(t - (IF Summer(t) THEN 4 ELSE 5) * Hour)

-----------------------------------------------------------------------------
(* session.ts                                                              *)

NyseHolidays ==
    {20260101, 20260119, 20260216, 20260403, 20260525, 20260619, 20260703, 20260907, 20261126,
     20261225, 20270101, 20270118, 20270215, 20270326, 20270531, 20270618, 20270705, 20270906,
     20271125, 20271224}
NyseEarlyClose == {20261127, 20261224, 20271126}
KnownYears == {2026, 2027}
closedDate(date) == date \in NyseHolidays \/ date \div 10000 \notin KnownYears
OpenMinutes == 9 * Hour + 30
CloseMinutes(date) == IF date \in NyseEarlyClose THEN 13 * Hour ELSE 16 * Hour

usSession(t) ==
    LET session(at) ==
          CASE at.weekend -> "weekend"
            [] ~at.weekend /\ closedDate(at.date) -> "holiday"
            [] ~at.weekend /\ ~closedDate(at.date) ->
                 CASE at.minutes >= 4 * Hour /\ at.minutes < OpenMinutes -> "pre"
                   [] at.minutes >= OpenMinutes /\ at.minutes < CloseMinutes(at.date) -> "regular"
                   [] at.minutes >= CloseMinutes(at.date) /\ at.minutes < 20 * Hour -> "post"
                   [] OTHER -> "overnight"
    IN session(newYorkParts(t))

\* Exactly one of the two offsets lands on the wanted wall time.
newYorkTimeOn(ymd, minutes) ==
    LET lands(parts) == parts.date = ymd /\ parts.minutes = minutes
        of(wall) == IF lands(newYorkParts(wall + 4 * Hour)) THEN wall + 4 * Hour ELSE wall + 5 * Hour
    IN of(DayNumber(ymd) * Day + minutes)

regularClose(t) ==
    LET on(date) == newYorkTimeOn(date, CloseMinutes(date)) IN on(newYorkParts(t).date)

NoSession == 0   \* the search throws
\* The first session day's open after t, stepping from noon to noon.
nextRegularOpen(t, searchDays) ==
    LET opens(noon) == IF noon.weekend \/ closedDate(noon.date) THEN {}
                       ELSE {newYorkTimeOn(noon.date, OpenMinutes)}
        from(noon) == UNION {opens(newYorkParts(noon + i * Day)) : i \in 0 .. searchDays - 1}
        first(later) == IF later = {} THEN NoSession ELSE Min(later)
    IN first({open \in from(newYorkTimeOn(newYorkParts(t).date, 12 * Hour)) : open > t})

addNewYorkDays(ymd, days) == Dates[DayNumber(ymd) + days]
firstOpenOnOrAfter(ymd) == nextRegularOpen(newYorkTimeOn(ymd, 0) - 1, 14)

-----------------------------------------------------------------------------
(* schedule.ts: a cadence other than once, whose cycle was not deferred    *)

OpenSettle == 2
\* Mutant of StepDays: a plan that ran before the open runs again after it.
SameDay(cadence) == IF cadence = "weekly" THEN 7 ELSE 0
StepDays(cadence) == IF cadence = "weekly" THEN 7 ELSE 1
nextDue(cadence, t) ==
    LET settled(open) == IF open = NoSession THEN NoSession ELSE open + OpenSettle
    IN settled(firstOpenOnOrAfter(addNewYorkDays(newYorkParts(t).date, StepDays(cadence))))

-----------------------------------------------------------------------------
(* calendar-vectors.ts: both sides of every boundary of every date between *)
(* two, and of the switches to and from daylight time                      *)

Boundaries == {0, 239, 240, 569, 570, 779, 780, 959, 960, 1199, 1200, 1439}
Vectors(first, last) ==
    UNION {{newYorkTimeOn(Dates[day], minute) : minute \in Boundaries} :
             day \in DayNumber(first) .. DayNumber(last)}
    \cup UNION {{t - 1, t} : t \in {UtcOf(NthSunday(y, 3, 2), 3 * Hour) : y \in {2026, 2027}}
                               \cup {NthSunday(y, 11, 1) * Day + 6 * Hour : y \in {2026, 2027}}}

===============================================================================
