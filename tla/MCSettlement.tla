---------------------------- MODULE MCSettlement -----------------------------
(***************************************************************************)
(* An instance of Settlement for TLC.  The rates are those of the law, the *)
(* caps and ceilings lie within the amounts tried.                         *)
(***************************************************************************)
EXTENDS Settlement, TLC

Epf == [employee |-> 1200, employer |-> 1200, pension |-> 833, pensionCap |-> 2000,
        newMemberCutoff |-> 0, maxAge |-> 58]
Salaries == {416, 1249, 2083}
Symmetry == Permutations(Claims)
==============================================================================
