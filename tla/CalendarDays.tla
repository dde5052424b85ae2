---------------------------- MODULE CalendarDays ----------------------------
(***************************************************************************)
(* The calendar arithmetic that orders the dates of an algorithm           *)
(* acceptance report (rfc3339_epoch_nanos in app/service/src/main.rs),     *)
(* against the calendar itself: a walk from day to day that counts.        *)
(***************************************************************************)
EXTENDS Integers

CONSTANTS
  CalStarts,  \* first days of the walk, with their number of days since 1970-01-01
  MaxCalDays  \* length of the walk

VARIABLE calDay

calVars == <<calDay>>

CalInit == calDay \in {[s EXCEPT !.walked = 0] : s \in CalStarts}

LeapYear(y) == y % 4 = 0 /\ (y % 100 # 0 \/ y % 400 = 0)

DaysInMonth(y, m) ==
  CASE m \in {1, 3, 5, 7, 8, 10, 12} -> 31
    [] m \in {4, 6, 9, 11} -> 30
    [] m = 2 -> IF LeapYear(y) THEN 29 ELSE 28

EpochDaysJulian(y, m, d) ==
  LET year == IF m <= 2 THEN y - 1 ELSE y
      month == IF m > 2 THEN m - 3 ELSE m + 9
  IN 365 * year + year \div 4 + (153 * month + 2) \div 5 + d - 1 - 719483

\* rfc3339_epoch_nanos: days since 1970-01-01 of a date.
EpochDays(y, m, d) ==
  LET year == IF m <= 2 THEN y - 1 ELSE y
      era == year \div 400
      yearOfEra == year - era * 400
      month == IF m > 2 THEN m - 3 ELSE m + 9
      dayOfYear == (153 * month + 2) \div 5 + d - 1
      dayOfEra == yearOfEra * 365 + yearOfEra \div 4 - yearOfEra \div 100 + dayOfYear
  IN era * 146097 + dayOfEra - 719468

\* The next day of the calendar.
NextDate(y, m, d) ==
  IF d < DaysInMonth(y, m) THEN <<y, m, d + 1>>
  ELSE IF m < 12 THEN <<y, m + 1, 1>> ELSE <<y + 1, 1, 1>>

CalNext ==
  LET n == NextDate(calDay.y, calDay.m, calDay.d)
  IN /\ calDay.walked < MaxCalDays
     /\ calDay' = [y |-> n[1], m |-> n[2], d |-> n[3], count |-> calDay.count + 1, walked |-> calDay.walked + 1]

\* A walk begins on a day of the calendar, at the number the formula gives it.
ASSUME CalAssumption ==
  \A s \in CalStarts :
    /\ s \in [y : Int, m : 1 .. 12, d : 1 .. 31, count : Int, walked : Nat]
    /\ s.d <= DaysInMonth(s.y, s.m) /\ EpochDays(s.y, s.m, s.d) = s.count

CalSpec == CalInit /\ [][CalNext]_calVars

\* The formula counts days as the calendar does, across months, leap years,
\* centuries and the era boundary of 1 March 2000 (rfc3339_epoch_nanos).
CountsDays == EpochDays(calDay.y, calDay.m, calDay.d) = calDay.count

=============================================================================
