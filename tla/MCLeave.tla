------------------------------- MODULE MCLeave -------------------------------
(***************************************************************************)
(* Instances of Leave for TLC: dates around the ends of months and years,  *)
(* and terms that differ in what they look at.                             *)
(***************************************************************************)
EXTENDS Leave, TLC

SomeDates == {Date(1, 1, 31), Date(1, 7, 1), Date(2, 2, 28)}
SomeLeaveDates == {Date(1, 7, 1), Date(2, 2, 28)}
SomeServiceDates == {Date(1, 1, 31), Date(1, 7, 1)}
SomeTerms == {[annual |-> 120, method |-> "monthly", prorateOnJoining |-> TRUE,
               prorateOnExit |-> TRUE, probation |-> TRUE, cap |-> 25],
              [annual |-> 13, method |-> "annual", prorateOnJoining |-> FALSE,
               prorateOnExit |-> TRUE, probation |-> FALSE, cap |-> 0]}
SomeSpans == {[from |-> Date(1, 1, 31), to |-> Never], [from |-> Date(1, 7, 1), to |-> Date(1, 7, 1)]}
Symmetry == Permutations(Leaves) \cup Permutations(Policies)
==============================================================================
