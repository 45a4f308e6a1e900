---------------------------- MODULE MCPayrollRun -----------------------------
(***************************************************************************)
(* Instances of PayrollRun for TLC.  Employees of whom the same is         *)
(* recorded are interchangeable, and so are the requests in flight.        *)
(***************************************************************************)
EXTENDS PayrollRun, TLC

Symmetry == Permutations(Recorded) \cup Permutations(Employees \ Recorded)
            \cup Permutations(Requests)
==============================================================================
