--------------------------- MODULE MCCompensation ----------------------------
(***************************************************************************)
(* Instances of Compensation and PeriodPay for TLC.  Version rows and the  *)
(* requests in flight are interchangeable.                                 *)
(***************************************************************************)
EXTENDS PeriodPay, TLC

Symmetry == Permutations(Versions) \cup Permutations(Requests)
==============================================================================
