------------------------------ MODULE CivilDates ------------------------------
(***************************************************************************)
(* The day a payout is counted on (contract/src/dates.rs): the number of    *)
(* whole days since 1970-01-01, turned into a Gregorian date.  The spend     *)
(* counter and the vendor's Idempotency-Key are both named by that date.     *)
(*                                                                         *)
(* \div rounds down, so the adjustment the code makes before it divides a   *)
(* negative number is not needed.                                          *)
(***************************************************************************)
EXTENDS Integers

Cycle == 146097  \* days in 400 years, after which the calendar repeats
Epoch == [year |-> 1970, month |-> 1, day |-> 1]

\* Variant: a year of the cycle is found without its century corrections.
YearOfEraJulian(doe) == (doe - doe \div 1460) \div 365

\* The year, counted from March, that a day of the 400-year cycle falls in.
YearOfEra(doe) ==
  (doe - doe \div 1460 + doe \div 36524 - doe \div 146096) \div 365

CivilFromDays(z) ==
  LET era == (z + 719468) \div Cycle
      doe == (z + 719468) - era * Cycle
      yoe == YearOfEra(doe)
      doy == doe - (365 * yoe + yoe \div 4 - yoe \div 100)
      mp  == (5 * doy + 2) \div 153
      m   == IF mp < 10 THEN mp + 3 ELSE mp - 9
  IN  [year  |-> yoe + era * 400 + (IF m <= 2 THEN 1 ELSE 0),
       month |-> m,
       day   |-> doy - (153 * mp + 2) \div 5 + 1]

DayKey(secs) == CivilFromDays(secs \div 86400)
-----------------------------------------------------------------------------
(* The calendar itself, as the rule for the day after a given one.          *)

Leap(y) == y % 4 = 0 /\ (y % 100 # 0 \/ y % 400 = 0)

MonthLength(y, m) ==
  CASE m = 2 -> IF Leap(y) THEN 29 ELSE 28
    [] m \in {4, 6, 9, 11} -> 30
    [] OTHER -> 31

DayAfter(date) ==
  IF date.day < MonthLength(date.year, date.month)
  THEN [date EXCEPT !.day = @ + 1]
  ELSE IF date.month < 12
       THEN [date EXCEPT !.month = @ + 1, !.day = 1]
       ELSE [year |-> date.year + 1, month |-> 1, day |-> 1]

\* The days of a whole cycle that are not followed by the calendar's next day.
OffCalendar ==
  {z \in 0 .. Cycle - 1 : CivilFromDays(z + 1) # DayAfter(CivilFromDays(z))}
=============================================================================
