------------------------------ MODULE Calendar ------------------------------
(***************************************************************************)
(* Dates of the Gregorian calendar as the time crate computes with them: a *)
(* date is the number of a day, so that the day before is the number less  *)
(* one.                                                                    *)
(***************************************************************************)
EXTENDS Integers

(* The Julian day number; months are counted from March, so that the leap day is
   the last of its year. *)
from_calendar_date(year, month, day) ==
    LET before == IF month < 3 THEN 1 ELSE 0
        y == year + 4800 - before
        m == month + 12 * before - 3
    IN  day + (153 * m + 2) \div 5 + 365 * y + y \div 4 - y \div 100 + y \div 400 - 32045

Leap(year) == year % 4 = 0 /\ (year % 100 # 0 \/ year % 400 = 0)

(* The length of a month, independently of day numbers. *)
DaysIn(year, month) ==
    CASE month = 2 -> IF Leap(year) THEN 29 ELSE 28
      [] month \in {4, 6, 9, 11} -> 30
      [] OTHER -> 31
=============================================================================
