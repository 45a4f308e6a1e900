--------------------------- MODULE MCWorkCalendar ----------------------------
(***************************************************************************)
(* Instances of WorkCalendar for TLC: the days around a weekend, and a six *)
(* day week beside the usual one.                                          *)
(***************************************************************************)
EXTENDS WorkCalendar, TLC

SixDays == 0..5
TwoWeeks == {DefaultWeek, SixDays}
Symmetry == Permutations(Calendars) \cup Permutations(Rows)
==============================================================================
