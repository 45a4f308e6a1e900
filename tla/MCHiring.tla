------------------------------ MODULE MCHiring -------------------------------
(***************************************************************************)
(* Instances of Hiring for TLC: an opening that asks for one skill, and a  *)
(* model that finds it or not, so that a resume may end in tier A or D.    *)
(***************************************************************************)
EXTENDS Hiring, TLC

Opening == [required |-> {"python"}, preferred |-> {}, years |-> 0]
Readings == {[score |-> 90, skills |-> {"python"}, years |-> 1],
             [score |-> 20, skills |-> {}, years |-> 0]}
Symmetry == Permutations(Applications) \cup Permutations(Slots) \cup Permutations(Visitors)
==============================================================================
