---------------------------- MODULE MCWorkFacts ------------------------------
(***************************************************************************)
(* Instances of WorkFacts for TLC.  Days are interchangeable, and so are   *)
(* the requests in flight.                                                 *)
(***************************************************************************)
EXTENDS WorkFacts, TLC

Symmetry == Permutations(FactDays) \cup Permutations(Requests)
==============================================================================
