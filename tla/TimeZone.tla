------------------------------ MODULE TimeZone ------------------------------
(***************************************************************************)
(* The calendar of base/Date and the local times of base/TimeZone.  Days are *)
(* walked with a calendar that only knows the lengths of the months; a zone  *)
(* file is loaded and a clock moved around its changes of offset.  C++'s     *)
(* division and remainder round towards zero, TLA+'s downwards.              *)
(***************************************************************************)
EXTENDS Integers, Sequences, FiniteSets

CONSTANTS
  LastYear,  \* end of the walk
  Files,     \* zone files
  Around     \* seconds before and after a change of offset, a day at most

ASSUME TimeZoneAssumption ==
  LastYear \in Nat /\ Around \subseteq Int /\ \A d \in Around : -86400 <= d /\ d <= 86400

VARIABLES
  date,   \* a date [year, month, day]
  jdn,    \* its distance from 1970-01-01, plus kJulianDayOf1970_01_01
  zone,   \* data_ of the TimeZone, or NotLoaded or Invalid
  clock   \* seconds since the epoch

clockVars == <<date, jdn, zone, clock>>

-----------------------------------------------------------------------------
(* Date *)

getJulianDayNumber(d) ==
  LET a == (14 - d.month) \div 12
      y == d.year + 4800 - a
      m == d.month + 12 * a - 3
  IN d.day + (153 * m + 2) \div 5 + y * 365 + y \div 4 - y \div 100 + y \div 400 - 32045

getYearMonthDay(julianDayNumber) ==
  LET a == julianDayNumber + 32044
      b == (4 * a + 3) \div 146097
      c == a - (b * 146097) \div 4
      d == (4 * c + 3) \div 1461
      e == c - (1461 * d) \div 4
      m == (5 * e + 2) \div 153
  IN [year |-> b * 100 + d - 4800 + m \div 10,
      month |-> m + 3 - 12 * (m \div 10),
      day |-> e - (153 * m + 2) \div 5 + 1]

kSecondsPerDay == 24 * 60 * 60
kJulianDayOf1970_01_01 == getJulianDayNumber([year |-> 1970, month |-> 1, day |-> 1])

-----------------------------------------------------------------------------
(* DateTime *)

TruncatedDiv(a, b) == IF a >= 0 THEN a \div b ELSE -((-a) \div b)
TruncatedMod(a, b) == a - b * TruncatedDiv(a, b)

fillHMS(seconds) ==
  [second |-> seconds % 60, minute |-> (seconds \div 60) % 60, hour |-> seconds \div 3600]

\* Faulty: the day of a negative time is not put right.
RoundedToZero(t) == <<(TruncatedMod(t, kSecondsPerDay) + kSecondsPerDay) % kSecondsPerDay,
                      TruncatedDiv(t, kSecondsPerDay)>>

\* BreakTime: second of the day, and days since the epoch.
SecondsAndDays(t) ==
  LET seconds == TruncatedMod(t, kSecondsPerDay)
      days == TruncatedDiv(t, kSecondsPerDay)
  IN IF seconds < 0 THEN <<seconds + kSecondsPerDay, days - 1>> ELSE <<seconds, days>>

BreakTime(t) ==
  LET sd == SecondsAndDays(t)
  IN [date |-> getYearMonthDay(sd[2] + kJulianDayOf1970_01_01), time |-> fillHMS(sd[1])]

fromUtcTime(dt) ==
  (getJulianDayNumber(dt.date) - kJulianDayOf1970_01_01) * kSecondsPerDay
    + dt.time.hour * 3600 + dt.time.minute * 60 + dt.time.second

-----------------------------------------------------------------------------
(* TimeZone::Data.  A zone has localtimes, the offsets, and transitions. *)

NotLoaded == [status |-> "not loaded"]
Invalid == [status |-> "invalid"]

\* readDataBlock: the counters it refuses and, at the throw of localtimes.at, an
\* index without a localtime; then the localtimes and, for each transition, its
\* time and the index of its localtime (from 1 here).
readDataBlock(block) ==
  IF \/ block.leapcnt # 0 \/ block.short
     \/ block.isutccnt \notin {0, Len(block.offsets)}
     \/ block.isstdcnt \notin {0, Len(block.offsets)}
     \/ \E i \in DOMAIN block.trans : block.trans[i][2] \notin DOMAIN block.offsets
  THEN Invalid
  ELSE [status |-> "valid", localtimes |-> block.offsets,
        transitions |-> [i \in DOMAIN block.trans |->
          LET t == block.trans[i]
          IN [utctime |-> t[1], localtime |-> t[1] + block.offsets[t[2]], localtimeIdx |-> t[2]]]]

\* readTimeZoneFile: a file of version 2 has a second head and block, which is used.
readTimeZoneFile(file) ==
  IF file.head # "TZif" \/ (file.version = "2" /\ file.head2 # "TZif") THEN Invalid
  ELSE readDataBlock(IF file.version = "2" THEN file.v2 ELSE file.v1)

\* Offsets of a day at most, and times far from those at which the integers of
\* Date overflow or turn negative.
TimesInRange(data) ==
  /\ \A h \in DOMAIN data.localtimes :
       -kSecondsPerDay <= data.localtimes[h] /\ data.localtimes[h] <= kSecondsPerDay
  /\ \A i \in DOMAIN data.transitions :
       LET day == data.transitions[i].utctime \div kSecondsPerDay
       IN -2400000 <= day /\ day <= 2400000

\* What the searches below rely on.  Of it the reader tests the indexes only; it
\* does not test that there is an offset, that the changes of offset are in order,
\* or that each is over, on the clocks it turns, before the next one begins.
WellFormed(data) ==
  LET Utc(i) == data.transitions[i].utctime
      Offset(i) == IF i = 0 THEN data.localtimes[1]
                   ELSE data.localtimes[data.transitions[i].localtimeIdx]
      Begins(i) == Utc(i) - 1 + Offset(i - 1)
      Ends(i) == Utc(i) + Offset(i)
  IN /\ data.localtimes \in Seq(Int) /\ data.localtimes # <<>>
     /\ data.transitions \in Seq([utctime : Int, localtime : Int,
                                  localtimeIdx : DOMAIN data.localtimes])
     /\ TimesInRange(data)
     /\ \A i, j \in DOMAIN data.transitions :
          i < j => /\ Utc(i) < Utc(j)
                   /\ Begins(i) < Begins(j) /\ Begins(i) < Ends(j)
                   /\ Ends(i) < Begins(j) /\ Ends(i) < Ends(j)

ASSUME ZoneFilesAssumption ==
  \A file \in Files :
    readTimeZoneFile(file) = Invalid \/ WellFormed(readTimeZoneFile(file))

\* std::upper_bound: the first of the times that is later, or one past the end.
UpperBound(times, t) ==
  CHOOSE i \in 1..Len(times) + 1 :
    /\ i <= Len(times) => t < times[i]
    /\ \A j \in 1..i - 1 : times[j] <= t

\* What the two comparators look at.
UtcTimes == [i \in DOMAIN zone.transitions |-> zone.transitions[i].utctime]
LocalTimes == [i \in DOMAIN zone.transitions |-> zone.transitions[i].localtime]

OffsetAt(i) == zone.localtimes[zone.transitions[i].localtimeIdx]

\* findLocalTime(utcTime), as the offset.
findLocalTime(utcTime) ==
  LET i == UpperBound(UtcTimes, utcTime)
  IN IF i = 1 THEN zone.localtimes[1] ELSE OffsetAt(i - 1)

\* The local time of the second before transition i, i > 1.
PriorSecond(i) == zone.transitions[i].utctime - 1 + OffsetAt(i - 1)

\* Faulty: the second at which a skip begins is part of it.
SkipFromPrior(i, localtime) == PriorSecond(i) <= localtime

IsSkip(i, localtime) == PriorSecond(i) < localtime

\* findLocalTime(local, postTransition), as the offset.
findLocalOffset(dt, postTransition) ==
  LET localtime == fromUtcTime(dt)
      i == UpperBound(LocalTimes, localtime)
      n == Len(zone.transitions)
      Either(j) == OffsetAt(IF postTransition THEN j ELSE j - 1)
  IN CASE i = 1 -> zone.localtimes[1]
       [] i > 1 /\ i = n + 1 -> OffsetAt(n)
       [] i > 1 /\ i <= n /\ IsSkip(i, localtime) -> Either(i)
       [] i > 1 /\ i <= n /\ ~IsSkip(i, localtime) ->
            IF i - 1 > 1 /\ localtime <= PriorSecond(i - 1) THEN Either(i - 1)
            ELSE OffsetAt(i - 1)

toLocalTime(seconds) == BreakTime(seconds + findLocalTime(seconds))
fromLocalTime(dt, postTransition) == fromUtcTime(dt) - findLocalOffset(dt, postTransition)

-----------------------------------------------------------------------------
LoadZoneFile(file) ==
  /\ zone = NotLoaded /\ jdn = kJulianDayOf1970_01_01
  /\ zone' = readTimeZoneFile(file)
  /\ UNCHANGED <<date, jdn, clock>>

\* The clock is read near a change of offset, or far from all of them.
ReadClock(t) ==
  /\ zone \notin {NotLoaded, Invalid}
  /\ clock' = t
  /\ UNCHANGED <<date, jdn, zone>>

IsLeap(y) == y % 4 = 0 /\ (y % 100 # 0 \/ y % 400 = 0)
DaysIn(y, m) == CASE m \in {4, 6, 9, 11} -> 30
                  [] m = 2 -> IF IsLeap(y) THEN 29 ELSE 28
                  [] OTHER -> 31
NextDay ==
  /\ zone = NotLoaded /\ date.year <= LastYear
  /\ jdn' = jdn + 1
  /\ date' = IF date.day < DaysIn(date.year, date.month) THEN [date EXCEPT !.day = @ + 1]
             ELSE IF date.month < 12 THEN [date EXCEPT !.day = 1, !.month = @ + 1]
             ELSE [year |-> date.year + 1, month |-> 1, day |-> 1]
  /\ UNCHANGED <<zone, clock>>

ClockInit ==
  /\ date = [year |-> 1970, month |-> 1, day |-> 1]
  /\ jdn = 2440588 /\ zone = NotLoaded /\ clock = 0

Moments == {0} \cup {zone.transitions[i].utctime + d :
                       i \in DOMAIN zone.transitions, d \in Around}
ClockNext ==
  \/ \E file \in Files : LoadZoneFile(file)
  \/ zone \notin {NotLoaded, Invalid} /\ \E t \in Moments : ReadClock(t)
  \/ NextDay

ClockSpec == ClockInit /\ [][ClockNext]_clockVars

-----------------------------------------------------------------------------
\* Both conversions of Date agree with the calendar, day by day.
CalendarAgrees ==
  getJulianDayNumber(date) = jdn /\ getYearMonthDay(jdn) = date

\* The moments at which clocks of the zone show dt.
Shows(dt) == {u \in {fromUtcTime(dt) - zone.localtimes[i] : i \in DOMAIN zone.localtimes} :
                toLocalTime(u) = dt}

\* fromLocalTime gives the moment back that toLocalTime was given, when no other
\* shows the same time; of two, the earlier or the later one as asked for, but
\* always the later one at the first and at the last change of the zone.
RoundTrips ==
  LET dt == toLocalTime(clock)
      shows == Shows(dt)
      earlier == CHOOSE u \in shows : \A v \in shows : u <= v
      later == CHOOSE u \in shows : \A v \in shows : v <= u
      i == UpperBound(UtcTimes, later) - 1
  IN /\ clock \in shows /\ Cardinality(shows) <= 2
     /\ fromLocalTime(dt, TRUE) = later
     /\ fromLocalTime(dt, FALSE) =
          IF i \in {1, Len(zone.transitions)} THEN later ELSE earlier

\* A local time that a change of offset after the first one skips is read with
\* the offset before or after the change, as asked for.
SkippedTimes ==
  \A i \in 2..Len(zone.transitions), d \in Around :
    LET local == zone.transitions[i].localtime + d
        dt == BreakTime(local)
    IN (PriorSecond(i) < local /\ d < 0) =>
         /\ Shows(dt) = {}
         /\ fromLocalTime(dt, TRUE) = local - OffsetAt(i)
         /\ fromLocalTime(dt, FALSE) = local - OffsetAt(i - 1)

\* Dates and local times are converted back and forth without error.
TimesConvert ==
  /\ CalendarAgrees
  /\ zone \notin {NotLoaded, Invalid} =>
       RoundTrips /\ SkippedTimes /\ fromUtcTime(BreakTime(-clock)) = -clock
=============================================================================
