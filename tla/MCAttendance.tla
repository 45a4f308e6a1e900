---------------------------- MODULE MCAttendance -----------------------------
(***************************************************************************)
(* An instance of Attendance for TLC: a company behind UTC that moves      *)
(* ahead of it, or back.                                                   *)
(***************************************************************************)
EXTENDS Attendance

BehindAndAhead == {-1, 1}
==============================================================================
