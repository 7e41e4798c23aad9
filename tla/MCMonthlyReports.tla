-------------------------- MODULE MCMonthlyReports --------------------------
(* Small instances of MonthlyReports for TLC. *)
EXTENDS MonthlyReports

(* The first reports are on a December and a January. *)
MCFirstMonth == <<2028, 1>>

(* A common year, a leap year, and a century of either kind. *)
MCYears == {2027, 2028, 2000, 2100}
=============================================================================
