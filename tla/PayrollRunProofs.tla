-------------------------- MODULE PayrollRunProofs ---------------------------
(***************************************************************************)
(* Theorems about PayrollRun, for every set of employees, every ledger,    *)
(* and, where the statement says so, any number of requests in flight.     *)
(***************************************************************************)
EXTENDS PayrollRun, TLAPS

(***************************************************************************)
(* What the helpers return.                                                *)
(***************************************************************************)
LEMMA LinesType ==
    ASSUME NEW st \in Nat, NEW ot \in Nat, NEW man
    PROVE  LinesFrom(st, ot, man) \in Lines
BY DEF LinesFrom, Lines

LEMMA RebuiltType ==
    ASSUME TypeOK, NEW S
    PROVE  /\ RebuiltStructure(S) \in [Employees -> Nat]
           /\ RebuiltOvertime(S) \in [Employees -> Nat]
BY ConstantsAssumption
   DEF TypeOK, RebuiltStructure, RebuiltOvertime, SeededOvertime, OrdinaryWage, Person

LEMMA DerivedLopType ==
    ASSUME TypeOK, NEW e \in Employees
    PROVE  DerivedLop(e) \in 0..WorkingDays
<1> DEFINE absent == IF fact[e].kind = "absent" /\ fact[e].approved THEN 1 ELSE 0
<1>1. person[e].leave \in Nat /\ absent \in Nat /\ WorkingDays \in Nat
  BY ConstantsAssumption DEF TypeOK, Person
<1> HIDE DEF absent
<1>2. AtMost(person[e].leave + absent, WorkingDays) \in 0..WorkingDays
  BY <1>1 DEF AtMost
<1> QED BY <1>2 DEF DerivedLop, absent

LEMMA LopForType ==
    ASSUME TypeOK, NEW e \in Employees, NEW prior \in Slip
    PROVE  LopFor(e, prior) \in 0..WorkingDays
BY DerivedLopType DEF LopFor, Slip

LEMMA ComputedType ==
    ASSUME TypeOK, NEW e \in Employees, NEW prior \in Slip
    PROVE  Computed(e, prior) \in Figures
<1>1. LinesAfterRebuild(e) \in Lines
  BY LinesType, RebuiltType DEF LinesAfterRebuild
<1> QED BY <1>1, LopForType DEF Computed, FiguresOf, Figures, Slip

LEMMA SlipAfterComputeType ==
    ASSUME TypeOK, NEW e \in Employees, NEW prior \in Slip,
           e \in Payable /\ ~prior.live => slip[e].row < MaxRows
    PROVE  SlipAfterCompute(e, prior) \in Slip
<1>1. slip[e] \in Slip BY DEF TypeOK
<1>2. Computed(e, prior) \in Figures BY ComputedType
<1>3. Computed(e, prior).lop \in 0..WorkingDays BY <1>2 DEF Figures
<1>4. Recomputed(e, prior) \in Slip
  BY <1>1, <1>2, <1>3 DEF Recomputed, Flush, Slip
<1>5. Removed(e, prior) \in Slip
  BY <1>1 DEF Removed, Slip
<1>6. slip[e].row < MaxRows => Inserted(e, prior) \in Slip
  BY <1>1, <1>2, <1>3, ConstantsAssumption DEF Inserted, Slip
<1> QED BY <1>1, <1>4, <1>5, <1>6 DEF SlipAfterCompute

LEMMA TotalsType ==
    ASSUME NEW slips \in [Employees -> Slip]
    PROVE  SumOfSlips(slips) \in Totals
BY DEF SumOfSlips, Totals, Slip

LEMMA ComputedTotalsType ==
    ASSUME TypeOK, NEW prior \in [Employees -> Slip]
    PROVE  /\ ComputedTotals(prior) \in Totals
           /\ ComputedBases(prior) \in Bases
<1>1. \A e \in Employees : Computed(e, prior[e]) \in Figures
  BY ComputedType
<1>2. \A e \in Employees : BasisOf(Computed(e, prior[e])) \in Basis
  BY <1>1 DEF BasisOf, Basis, Figures
<1> QED BY <1>1, <1>2 DEF ComputedTotals, ComputedBases, Totals, Bases

LEMMA AdjustedType ==
    ASSUME TypeOK, NEW t \in Requests, req[t].op = "adjust"
    PROVE  Adjusted(req[t]) \in Slip
<1> DEFINE r == req[t]
<1>1. /\ r.emp \in Employees /\ r.slip \in Slip
      /\ r.lop \in TypedDays \cup {Keep} /\ r.tds \in TaxAmounts \cup {Keep}
  BY DEF TypeOK, Request, Idle
<1> HIDE DEF r
<1>2. CurrentLines(r.emp) \in Lines
  BY <1>1, LinesType DEF TypeOK, CurrentLines
<1>3. (IF r.lop # Keep THEN AtMost(r.lop, WorkingDays) ELSE LopFor(r.emp, r.slip))
         \in 0..WorkingDays
  <2>1. LopFor(r.emp, r.slip) \in 0..WorkingDays
    BY <1>1, LopForType
  <2>2. ASSUME r.lop # Keep PROVE AtMost(r.lop, WorkingDays) \in 0..WorkingDays
    <3>1. r.lop \in Nat /\ WorkingDays \in Nat
      BY <1>1, <2>2, ConstantsAssumption
    <3> QED BY <3>1 DEF AtMost
  <2> QED BY <2>1, <2>2
<1>4. (IF r.tds # Keep THEN r.tds ELSE r.slip.tds) \in Nat
  BY <1>1, ConstantsAssumption DEF Slip
<1>5. Adjusted(r) \in Slip
  BY <1>1, <1>2, <1>3, <1>4 DEF Adjusted, FiguresOf, Figures, Slip
<1> QED BY <1>5 DEF r

-----------------------------------------------------------------------------
(***************************************************************************)
(* Type correctness.                                                       *)
(***************************************************************************)
LEMMA InitType == Init => TypeOK
<1> SUFFICES ASSUME Init PROVE TypeOK OBVIOUS
<1>1. NoSlip \in Slip
  BY ConstantsAssumption DEF NoSlip, Slip, NoFigures, Figures, NoLines, Lines
<1>2. \A p \in [onRoll : {TRUE}, salary : Salaries, leave : {0}] : p \in Person
  BY ConstantsAssumption DEF Person
<1>3. NoFact \in Fact BY DEF NoFact, Fact
<1>4. person \in [Employees -> Person] BY <1>2 DEF Init
<1> QED BY <1>1, <1>3, <1>4
    DEF Init, TypeOK, Totals, Bases, ManualState, Request

\* A handler that only begins: it keeps a well-typed request.
LEMMA BeginType ==
    ASSUME TypeOK, NEW t \in Requests, NEW request \in Request,
           Start(t, request), UNCHANGED <<runVars, ledgerVars, worldVars>>
    PROVE  TypeOK'
BY DEF TypeOK, Start, runVars, ledgerVars, worldVars

\* A request that ends leaves an idle slot.
LEMMA FinishType ==
    ASSUME TypeOK, NEW t \in Requests, Finish(t)
    PROVE  req' \in [Requests -> Request]
BY DEF TypeOK, Finish, Request

LEMMA CommitComputeType ==
    ASSUME TypeOK, NEW t \in Requests, CommitCompute(t)
    PROVE  TypeOK'
<1> DEFINE r == req[t]
<1>1. r.slips \in [Employees -> Slip] /\ r.header \in Totals /\ r.shortfall \in Bases
  BY DEF TypeOK, Request, Idle, CommitCompute
<1>2. slip' \in [Employees -> Slip]
  <2>1. \A e \in Employees : SlipAfterCompute(e, r.slips[e]) \in Slip
    BY <1>1, SlipAfterComputeType DEF CommitCompute
  <2> QED BY <2>1 DEF CommitCompute
<1>3. structure' \in [Employees -> Nat] /\ overtime' \in [Employees -> Nat]
  BY RebuiltType DEF CommitCompute
<1>4. header' \in Totals /\ shortfall' \in Bases
  BY <1>1, ComputedTotalsType DEF CommitCompute, Flush, TypeOK
<1>5. status' \in {"none", "draft", "finalized"}
  BY DEF CommitCompute, StatusAfterCompute, TypeOK
<1>6. req' \in [Requests -> Request]
  BY FinishType DEF CommitCompute
<1> QED BY <1>2, <1>3, <1>4, <1>5, <1>6 DEF CommitCompute, TypeOK, worldVars

LEMMA SumAdjustType ==
    ASSUME TypeOK, NEW t \in Requests, SumAdjust(t)
    PROVE  TypeOK'
<1> DEFINE r == req[t]
           own == slip[r.emp].live /\ slip[r.emp].row = r.slip.row
           seen == IF own THEN [slip EXCEPT ![r.emp] = Adjusted(r)] ELSE slip
<1>1. /\ r.emp \in Employees /\ r.lop \in TypedDays \cup {Keep}
      /\ r.slip \in Slip /\ r.header \in Totals
  BY DEF TypeOK, Request, Idle, SumAdjust
<1>2. Adjusted(r) \in Slip BY AdjustedType DEF SumAdjust
<1>3. SumOfSlips(seen) \in Totals
  BY <1>1, <1>2, TotalsType DEF TypeOK
<1>4. [op |-> "summed", emp |-> r.emp, lop |-> r.lop, slip |-> r.slip, new |-> Adjusted(r),
       header |-> r.header, sum |-> SumOfSlips(seen)] \in Request
  BY <1>1, <1>2, <1>3 DEF Request
<1> QED BY <1>4 DEF SumAdjust, TypeOK, runVars, ledgerVars, worldVars

LEMMA CommitAdjustType ==
    ASSUME TypeOK, NEW t \in Requests, CommitAdjust(t)
    PROVE  TypeOK'
<1> DEFINE r == req[t]
<1>1. /\ r.emp \in Employees /\ r.slip \in Slip /\ r.new \in Slip
      /\ r.header \in Totals /\ r.sum \in Totals
  BY DEF TypeOK, Request, Idle, CommitAdjust
<1>2. slip[r.emp] \in Slip BY <1>1 DEF TypeOK
<1>3. [slip[r.emp] EXCEPT !.lop     = Flush(r.slip.lop, r.new.lop, @),
                          !.over    = Flush(r.slip.over, r.new.over, @),
                          !.tds     = Flush(r.slip.tds, r.new.tds, @),
                          !.figures = Flush(r.slip.figures, r.new.figures, @)] \in Slip
  BY <1>1, <1>2 DEF Slip, Flush
<1>4. slip' \in [Employees -> Slip]
  BY <1>1, <1>3 DEF CommitAdjust, TypeOK
<1>5. header' \in Totals
  BY <1>1 DEF CommitAdjust, Flush, TypeOK
<1>6. req' \in [Requests -> Request]
  BY FinishType DEF CommitAdjust
<1> QED BY <1>4, <1>5, <1>6 DEF CommitAdjust, TypeOK, ledgerVars, worldVars

LEMMA LedgerCommitType ==
    ASSUME TypeOK, NEW t \in Requests, CommitRebuild(t) \/ CommitInput(t)
    PROVE  TypeOK'
<1>1. req' \in [Requests -> Request]
  BY FinishType DEF CommitRebuild, CommitInput
<1>2. CASE CommitRebuild(t)
  BY <1>1, <1>2, RebuiltType DEF CommitRebuild, TypeOK, runVars, worldVars
<1>3. CASE CommitInput(t)
  <2>1. req[t].emp \in Employees /\ req[t].code \in Codes
    BY <1>3 DEF CommitInput, TypeOK, Request, Idle
  <2>2. manual' \in [Employees -> [Codes -> ManualState]]
    BY <1>3, <2>1 DEF CommitInput, TypeOK, ManualState
  <2> QED BY <1>1, <1>3, <2>2 DEF CommitInput, TypeOK, runVars, worldVars
<1> QED BY <1>2, <1>3

LEMMA HandlerType ==
    ASSUME TypeOK, NEW t \in Requests, Handler(t)
    PROVE  TypeOK'
<1>1. CASE BeginCompute(t)
  <2>1. [op |-> "compute", fresh |-> (status = "none"), slips |-> slip,
         header |-> header, shortfall |-> shortfall] \in Request
    BY DEF TypeOK, Request
  <2> QED BY <1>1, <2>1, BeginType DEF BeginCompute
<1>2. CASE CommitCompute(t)
  BY <1>2, CommitComputeType
<1>3. CASE \E e \in Recorded, lop \in TypedDays \cup {Keep}, tds \in TaxAmounts \cup {Keep} :
             BeginAdjust(t, e, lop, tds)
  <2>1. PICK e \in Recorded, lop \in TypedDays \cup {Keep}, tds \in TaxAmounts \cup {Keep} :
             BeginAdjust(t, e, lop, tds)
    BY <1>3
  <2>2. [op |-> "adjust", emp |-> e, lop |-> lop, tds |-> tds,
         slip |-> slip[e], header |-> header] \in Request
    BY ConstantsAssumption DEF TypeOK, Request
  <2> QED BY <2>1, <2>2, BeginType DEF BeginAdjust
<1>4. CASE SumAdjust(t)
  BY <1>4, SumAdjustType
<1>5. CASE CommitAdjust(t)
  BY <1>5, CommitAdjustType
<1>6. CASE BeginFinalize(t)
  <2>1. [op |-> "finalize"] \in Request BY DEF Request
  <2> QED BY <1>6, <2>1, BeginType DEF BeginFinalize
<1>7. CASE CommitFinalize(t)
  BY <1>7, FinishType DEF CommitFinalize, TypeOK, ledgerVars, worldVars
<1>8. CASE \E S \in {Employees} \cup {{e} : e \in Employees} : BeginRebuild(t, S)
  <2>1. PICK S \in {Employees} \cup {{e} : e \in Employees} : BeginRebuild(t, S)
    BY <1>8
  <2>2. [op |-> "rebuild", emps |-> S] \in Request BY DEF Request
  <2> QED BY <2>1, <2>2, BeginType DEF BeginRebuild
<1>9. CASE CommitRebuild(t) \/ CommitInput(t)
  BY <1>9, LedgerCommitType
<1>10. CASE \E op \in {"enter", "approve", "delete"}, e \in Recorded, c \in Codes :
              BeginInput(t, op, e, c)
  <2>1. PICK op \in {"enter", "approve", "delete"}, e \in Recorded, c \in Codes :
              BeginInput(t, op, e, c)
    BY <1>10
  <2>2. [op |-> op, emp |-> e, code |-> c] \in Request BY ConstantsAssumption DEF Request
  <2> QED BY <2>1, <2>2, BeginType DEF BeginInput
<1>11. CASE Rollback(t)
  BY <1>11, FinishType DEF Rollback, TypeOK, runVars, ledgerVars, worldVars
<1> QED BY <1>1, <1>2, <1>3, <1>4, <1>5, <1>6, <1>7, <1>8, <1>9, <1>10, <1>11
    DEF Handler

LEMMA WorldType ==
    ASSUME TypeOK, NEW e \in Employees, World(e)
    PROVE  TypeOK'
<1>1. fact' \in [Employees -> Fact] /\ person' \in [Employees -> Person]
  <2>1. CASE \E kind \in FactKinds : RecordFact(e, kind)
    BY <2>1 DEF RecordFact, TypeOK, Fact
  <2>2. CASE ApproveFact(e)
    BY <2>2 DEF ApproveFact, TypeOK, Fact
  <2>3. CASE DeleteFact(e)
    BY <2>3 DEF DeleteFact, TypeOK, Fact, NoFact
  <2>4. CASE \E amount \in Salaries : SetSalary(e, amount)
    BY <2>4 DEF SetSalary, TypeOK, Person
  <2>5. CASE \E days \in LeaveDays : DecideLeave(e, days)
    BY <2>5 DEF DecideLeave, TypeOK, Person
  <2>6. CASE \E on \in BOOLEAN : SetOnRoll(e, on)
    BY <2>6 DEF SetOnRoll, TypeOK, Person
  <2> QED BY <2>1, <2>2, <2>3, <2>4, <2>5, <2>6 DEF World
<1>2. UNCHANGED <<runVars, ledgerVars, req>>
  BY DEF World, RecordFact, ApproveFact, DeleteFact, SetSalary, DecideLeave, SetOnRoll
<1> QED BY <1>1, <1>2 DEF TypeOK, runVars, ledgerVars

\* Every row, every ledger entry and every request in flight is always of
\* the kind its table says (models.py, workforce.py).
THEOREM TypeCorrect == Spec => []TypeOK
<1>1. Init => TypeOK BY InitType
<1>2. TypeOK /\ [Next]_vars => TypeOK'
  <2> SUFFICES ASSUME TypeOK, [Next]_vars PROVE TypeOK' OBVIOUS
  <2>1. CASE UNCHANGED vars
    BY <2>1 DEF vars, runVars, ledgerVars, worldVars, TypeOK
  <2>2. CASE Next
    BY <2>2, HandlerType, WorldType DEF Next
  <2> QED BY <2>1, <2>2
<1> QED BY <1>1, <1>2, PTL DEF Spec

-----------------------------------------------------------------------------
(***************************************************************************)
(* Whatever is in flight: properties of any number of requests.            *)
(***************************************************************************)
LEMMA WorldLeavesRequests ==
    ASSUME NEW e \in Employees, World(e)
    PROVE  UNCHANGED <<runVars, ledgerVars, req>>
BY DEF World, RecordFact, ApproveFact, DeleteFact, SetSalary, DecideLeave, SetOnRoll

\* Which handler steps write a payslip, the header or the status: the three
\* commits of run requests.
LEMMA RunWriters ==
    ASSUME NEW t \in Requests, Handler(t)
    PROVE  CommitCompute(t) \/ CommitAdjust(t) \/ CommitFinalize(t) \/ UNCHANGED runVars
BY DEF Handler, BeginCompute, BeginAdjust, SumAdjust, BeginFinalize, BeginRebuild,
       CommitRebuild, BeginInput, CommitInput, Rollback

\* A finalized run stays finalized, however requests that read it as a draft
\* interleave: models.py, PayrollRun, "draft -> finalized, one way".
THEOREM FinalizedForGoodHolds == Spec => FinalizedForGood
<1>1. [Next]_vars => [status = "finalized" => status' = "finalized"]_vars
  <2> SUFFICES ASSUME [Next]_vars, status = "finalized" PROVE status' = "finalized"
    OBVIOUS
  <2>1. CASE UNCHANGED vars
    BY <2>1 DEF vars, runVars
  <2>2. ASSUME NEW t \in Requests, Handler(t) PROVE status' = "finalized"
    BY <2>2, RunWriters
       DEF CommitCompute, CommitAdjust, CommitFinalize, StatusAfterCompute, runVars
  <2>3. ASSUME NEW e \in Employees, World(e) PROVE status' = "finalized"
    BY <2>3, WorldLeavesRequests DEF runVars
  <2> QED BY <2>1, <2>2, <2>3 DEF Next
<1> QED BY <1>1, PTL DEF Spec, FinalizedForGood

\* Recomputing never touches the tax of a payslip row, even one it loaded
\* before somebody typed a new figure: build_run's field list leaves it out.
THEOREM OnlyAdjustChangesTaxHolds == Spec => OnlyAdjustChangesTax
<1> DEFINE P == \A e \in Employees :
         slip'[e].row = slip[e].row /\ slip'[e].tds # slip[e].tds =>
            \E t \in Requests : Holds(t, e) /\ req'[t] = Idle
<1>1. TypeOK /\ [Next]_vars => [P]_vars
  <2> SUFFICES ASSUME TypeOK, [Next]_vars, NEW e \in Employees,
                      slip'[e].row = slip[e].row, slip'[e].tds # slip[e].tds
               PROVE  \E t \in Requests : Holds(t, e) /\ req'[t] = Idle
    OBVIOUS
  <2>1. CASE UNCHANGED vars
    BY <2>1 DEF vars, runVars
  <2>2. ASSUME NEW t \in Requests, Handler(t)
        PROVE  Holds(t, e) /\ req'[t] = Idle
    <3>1. CASE CommitCompute(t)
      <4> DEFINE prior == req[t].slips[e]
      <4>1. slip'[e] = SlipAfterCompute(e, prior)
        BY <3>1 DEF CommitCompute
      <4>2. slip[e] \in Slip BY DEF TypeOK
      <4>3. SlipAfterCompute(e, prior).row = slip[e].row
              => SlipAfterCompute(e, prior).tds = slip[e].tds
        BY <4>2 DEF SlipAfterCompute, Recomputed, Inserted, Removed, Slip
      <4> QED BY <4>1, <4>3
    <3>2. CASE CommitAdjust(t)
      <4>1. req[t].op = "summed" /\ req'[t] = Idle
        BY <3>2 DEF CommitAdjust, Finish, TypeOK
      <4>2. req[t].emp # e => slip'[e] = slip[e]
        BY <3>2 DEF CommitAdjust, TypeOK
      <4> QED BY <4>1, <4>2 DEF Holds
    <3>3. CASE CommitFinalize(t)
      BY <3>3 DEF CommitFinalize
    <3> QED BY <2>2, <3>1, <3>2, <3>3, RunWriters DEF runVars
  <2>3. ASSUME NEW w \in Employees, World(w) PROVE FALSE
    BY <2>3, WorldLeavesRequests DEF runVars
  <2> QED BY <2>1, <2>2, <2>3 DEF Next
<1> QED BY <1>1, TypeCorrect, PTL DEF Spec, OnlyAdjustChangesTax

-----------------------------------------------------------------------------
(***************************************************************************)
(* OnlyApprovedLinesPaid.  It is not inductive: a payslip can be written   *)
(* from figures a request computed earlier, so the same must hold of the   *)
(* figures in flight, and of the figures of payslips already removed.      *)
(***************************************************************************)
Approved(e, figures) ==
    \A c \in figures.lines.manual : manual[e][c] \in {"approved", "deleted"}

ApprovedInv ==
    /\ TypeOK
    /\ \A e \in Employees : Approved(e, slip[e].figures)
    /\ \A t \in Requests : req[t].op = "summed" => Approved(req[t].emp, req[t].new.figures)

\* What was ever approved stays approved or is deleted.
LEMMA ApprovalIsKept ==
    ASSUME TypeOK, [Next]_vars, NEW e \in Employees, NEW c \in Codes,
           manual[e][c] \in {"approved", "deleted"}
    PROVE  manual'[e][c] \in {"approved", "deleted"}
<1>1. CASE UNCHANGED vars
  BY <1>1 DEF vars, ledgerVars
<1>2. ASSUME NEW t \in Requests, Handler(t)
      PROVE  manual'[e][c] \in {"approved", "deleted"}
  <2>1. CASE CommitInput(t)
    BY <2>1 DEF CommitInput, TypeOK
  <2>2. CASE ~CommitInput(t)
    <3>1. manual' = manual
      BY <1>2, <2>2 DEF Handler, BeginCompute, CommitCompute, BeginAdjust, SumAdjust,
         CommitAdjust, BeginFinalize, CommitFinalize, BeginRebuild, CommitRebuild,
         BeginInput, Rollback, ledgerVars
    <3> QED BY <3>1
  <2> QED BY <2>1, <2>2
<1>3. ASSUME NEW w \in Employees, World(w)
      PROVE  manual'[e][c] \in {"approved", "deleted"}
  BY <1>3, WorldLeavesRequests DEF ledgerVars
<1> QED BY <1>1, <1>2, <1>3 DEF Next

\* A computation reads approved rows only: inputs_for.
LEMMA ComputedIsApproved ==
    ASSUME TypeOK, NEW e \in Employees, NEW prior \in Slip
    PROVE  Approved(e, Computed(e, prior))
BY DEF Approved, Computed, FiguresOf, LinesAfterRebuild, LinesFrom

LEMMA AdjustedIsApproved ==
    ASSUME TypeOK, NEW t \in Requests, req[t].op = "adjust"
    PROVE  Approved(req[t].emp, Adjusted(req[t]).figures)
<1>1. req[t].slip \in Slip /\ req[t].emp \in Employees
  BY DEF TypeOK, Request, Idle
<1>2. Adjusted(req[t]).figures.lines = CurrentLines(req[t].emp)
  BY <1>1 DEF Adjusted, FiguresOf, Slip
<1> QED BY <1>2 DEF Approved, CurrentLines, LinesFrom

\* Whoever writes a payslip writes figures it already had, figures computed
\* now, or the figures of an adjustment in flight.
LEMMA WrittenFigures ==
    ASSUME TypeOK, [Next]_vars, NEW e \in Employees
    PROVE  \/ slip'[e].figures = slip[e].figures
           \/ \E prior \in Slip : slip'[e].figures = Computed(e, prior)
           \/ \E t \in Requests : /\ req[t].op = "summed" /\ req[t].emp = e
                                  /\ slip'[e].figures = req[t].new.figures
<1>1. CASE UNCHANGED vars
  BY <1>1 DEF vars, runVars
<1>2. ASSUME NEW w \in Employees, World(w) PROVE slip' = slip
  BY <1>2, WorldLeavesRequests DEF runVars
<1>3. ASSUME NEW t \in Requests, CommitCompute(t)
      PROVE  \/ slip'[e].figures = slip[e].figures
             \/ \E prior \in Slip : slip'[e].figures = Computed(e, prior)
  <2>1. req[t].slips[e] \in Slip
    BY <1>3 DEF TypeOK, Request, Idle, CommitCompute
  <2>2. slip'[e] = SlipAfterCompute(e, req[t].slips[e])
    BY <1>3 DEF CommitCompute
  <2>3. slip[e] \in Slip BY DEF TypeOK
  <2>4. \/ slip'[e].figures = slip[e].figures
        \/ slip'[e].figures = Computed(e, req[t].slips[e])
    BY <2>2, <2>3 DEF SlipAfterCompute, Recomputed, Inserted, Removed, Flush, Slip
  <2> QED BY <2>1, <2>4
<1>4. ASSUME NEW t \in Requests, CommitAdjust(t)
      PROVE  \/ slip'[e].figures = slip[e].figures
             \/ /\ req[t].op = "summed" /\ req[t].emp = e
                /\ slip'[e].figures = req[t].new.figures
  <2>1. slip[e] \in Slip BY DEF TypeOK
  <2> QED BY <1>4, <2>1 DEF CommitAdjust, Flush, TypeOK, Slip
<1>5. ASSUME NEW t \in Requests, CommitFinalize(t) PROVE slip' = slip
  BY <1>5 DEF CommitFinalize
<1> QED BY <1>1, <1>2, <1>3, <1>4, <1>5, RunWriters DEF Next, runVars

LEMMA SummedType ==
    ASSUME NEW r \in Request, r.op = "summed"
    PROVE  /\ r.emp \in Employees /\ r.slip \in Slip /\ r.new \in Slip
           /\ r.header \in Totals /\ r.sum \in Totals
BY DEF Request, Idle

\* The figures an adjustment carries are fixed when it sums the run.
LEMMA SummedFigures ==
    ASSUME TypeOK, [Next]_vars, NEW t \in Requests, req'[t].op = "summed"
    PROVE  \/ req'[t] = req[t]
           \/ /\ req[t].op = "adjust" /\ req'[t].emp = req[t].emp
              /\ req'[t].new = Adjusted(req[t])
<1>1. CASE UNCHANGED vars
  BY <1>1 DEF vars
<1>2. ASSUME NEW w \in Employees, World(w) PROVE req' = req
  BY <1>2, WorldLeavesRequests
<1>3. ASSUME NEW u \in Requests, Handler(u), u # t PROVE req'[t] = req[t]
  BY <1>3 DEF Handler, BeginCompute, CommitCompute, BeginAdjust, SumAdjust, CommitAdjust,
     BeginFinalize, CommitFinalize, BeginRebuild, CommitRebuild, BeginInput, CommitInput,
     Rollback, Start, Finish, TypeOK
<1>4. CASE SumAdjust(t)
  BY <1>4 DEF SumAdjust, TypeOK
<1>5. ASSUME Handler(t), ~SumAdjust(t) PROVE req'[t].op # "summed"
  BY <1>5 DEF Handler, BeginCompute, CommitCompute, BeginAdjust, CommitAdjust,
     BeginFinalize, CommitFinalize, BeginRebuild, CommitRebuild, BeginInput, CommitInput,
     Rollback, Start, Finish, TypeOK, Idle
<1> QED BY <1>1, <1>2, <1>3, <1>4, <1>5 DEF Next

\* A payslip never pays a manual input nobody approved, for any number of
\* requests in flight: ledger.py, inputs_for, "Unapproved inputs are
\* deliberately invisible to the engine".
THEOREM OnlyApprovedLinesPaidHolds == Spec => []OnlyApprovedLinesPaid
<1>1. Init => ApprovedInv
  <2> SUFFICES ASSUME Init PROVE ApprovedInv OBVIOUS
  <2>1. \A e \in Employees : slip[e].figures.lines.manual = {}
    BY DEF Init, NoSlip, NoFigures, NoLines
  <2>2. \A t \in Requests : req[t].op # "summed"
    BY DEF Init, Idle
  <2> QED BY <2>1, <2>2, InitType DEF ApprovedInv, Approved
<1>2. TypeOK /\ TypeOK' /\ ApprovedInv /\ [Next]_vars => ApprovedInv'
  <2> SUFFICES ASSUME TypeOK, TypeOK', ApprovedInv, [Next]_vars PROVE ApprovedInv'
    OBVIOUS
  <2>1. ASSUME NEW e \in Employees PROVE Approved(e, slip[e].figures)'
    <3>1. slip'[e].figures \in Figures BY DEF TypeOK, Slip
    <3>2. Approved(e, slip'[e].figures)
      <4>1. CASE slip'[e].figures = slip[e].figures
        BY <4>1 DEF ApprovedInv
      <4>2. CASE \E prior \in Slip : slip'[e].figures = Computed(e, prior)
        BY <4>2, ComputedIsApproved
      <4>3. CASE \E t \in Requests : /\ req[t].op = "summed" /\ req[t].emp = e
                                     /\ slip'[e].figures = req[t].new.figures
        BY <4>3 DEF ApprovedInv
      <4> QED BY <4>1, <4>2, <4>3, WrittenFigures
    <3> DEFINE f == slip'[e].figures
    <3>3. \A c \in f.lines.manual : manual'[e][c] \in {"approved", "deleted"}
      BY <3>1, <3>2, ApprovalIsKept DEF Approved, Figures, Lines
    <3> QED BY <3>3 DEF Approved
  <2>2. ASSUME NEW t \in Requests, req'[t].op = "summed"
        PROVE  Approved(req[t].emp, req[t].new.figures)'
    <3> DEFINE f == req'[t].new.figures
               e == req'[t].emp
    <3>1. f \in Figures /\ e \in Employees
      BY <2>2, SummedType DEF TypeOK, Slip
    <3>2. Approved(e, f)
      BY <2>2, SummedFigures, AdjustedIsApproved DEF ApprovedInv
    <3>3. \A c \in f.lines.manual : manual'[e][c] \in {"approved", "deleted"}
      BY <3>1, <3>2, ApprovalIsKept DEF Approved, Figures, Lines
    <3> QED BY <3>3 DEF Approved
  <2> QED BY <2>1, <2>2 DEF ApprovedInv
<1>3. ApprovedInv => OnlyApprovedLinesPaid
  BY DEF ApprovedInv, Approved, OnlyApprovedLinesPaid
<1> QED BY <1>1, <1>2, <1>3, TypeCorrect, PTL DEF Spec

-----------------------------------------------------------------------------
(***************************************************************************)
(* Requests served in turn: the month is what PaidMonth promises.          *)
(*                                                                         *)
(* The inductive invariant says that what a request loaded when it began   *)
(* is still what is in the tables: nobody else could write.  That is what  *)
(* two requests in flight break, and all that they break.                  *)
(***************************************************************************)
Loaded(r) ==
    /\ r.op # "idle" => status # "finalized"
    /\ r.op = "compute" => /\ r.slips = slip
                           /\ r.header = header
                           /\ r.shortfall = shortfall
                           /\ r.fresh = (status = "none")
    /\ r.op \in {"adjust", "summed"} => /\ status = "draft"
                                        /\ slip[r.emp].live
                                        /\ r.slip = slip[r.emp]
                                        /\ r.header = header
    /\ r.op = "summed" => /\ r.new.live
                          /\ r.new.row = r.slip.row
                          /\ r.slip.over => /\ r.new.over
                                            /\ r.lop = Keep => r.new.lop = r.slip.lop
                          /\ r.sum = SumOfSlips([slip EXCEPT ![r.emp] = r.new])
    /\ r.op = "finalize" => status = "draft" /\ \E e \in Employees : slip[e].live

SerialInv ==
    /\ TypeOK
    /\ header = Paid
    /\ status = "none" => \A e \in Employees : ~slip[e].live
    /\ \A t \in Requests : Loaded(req[t])

\* When nobody else has written, the column the ORM writes is the new one.
LEMMA FlushFresh == \A old, new : Flush(old, new, old) = new
BY DEF Flush

\* A computation that nobody overtook leaves the payslips of the employees
\* it pays, and keeps the days HR typed.
LEMMA ComputeWrites ==
    ASSUME TypeOK, NEW t \in Requests, CommitCompute(t), req[t].slips = slip,
           NEW e \in Employees
    PROVE  /\ slip'[e].live <=> e \in Payable
           /\ e \in Payable => slip'[e].figures = Computed(e, slip[e])
           /\ slip[e].live /\ slip[e].over => slip'[e].over /\ slip'[e].lop = slip[e].lop
<1>1. slip[e] \in Slip BY DEF TypeOK
<1>2. slip'[e] = SlipAfterCompute(e, slip[e])
  BY DEF CommitCompute
<1>3. CASE e \in Payable /\ slip[e].live
  <2>1. slip[e].over => Computed(e, slip[e]).lop = slip[e].lop
    BY <1>3 DEF Computed, FiguresOf, LopFor
  <2> QED BY <1>1, <1>2, <1>3, <2>1, FlushFresh DEF SlipAfterCompute, Recomputed, Slip
<1>4. CASE e \in Payable /\ ~slip[e].live
  BY <1>2, <1>4 DEF SlipAfterCompute, Inserted
<1>5. CASE e \notin Payable
  BY <1>1, <1>2, <1>5 DEF SlipAfterCompute, Removed, Slip
<1> QED BY <1>1, <1>3, <1>4, <1>5 DEF Slip

LEMMA ComputeSumsSlips ==
    ASSUME TypeOK, NEW t \in Requests, CommitCompute(t),
           req[t].slips = slip, req[t].header = header
    PROVE  header' = ComputedTotals(slip) /\ Paid' = ComputedTotals(slip)
<1>1. header' = ComputedTotals(slip)
  BY FlushFresh DEF CommitCompute
<1>2. \A e \in Employees : /\ slip'[e].live <=> e \in Payable
                           /\ e \in Payable => slip'[e].figures = Computed(e, slip[e])
  BY ComputeWrites
<1>3. Paid' = [e \in Employees |-> IF slip'[e].live THEN slip'[e].figures ELSE Unpaid]
  BY DEF Paid
<1> QED BY <1>1, <1>2, <1>3 DEF ComputedTotals

LEMMA AdjustSumsSlips ==
    ASSUME TypeOK, NEW t \in Requests, CommitAdjust(t), Loaded(req[t])
    PROVE  header' = req[t].sum /\ Paid' = req[t].sum
<1> DEFINE r == req[t]
<1>1. r.op = "summed" BY DEF CommitAdjust
<1>2. r.emp \in Employees /\ r.new \in Slip /\ r.slip = slip[r.emp] /\ r.header = header
      /\ slip[r.emp].live
  BY <1>1, SummedType DEF TypeOK, Loaded
<1>3. header' = r.sum
  BY <1>2, FlushFresh DEF CommitAdjust
<1>4. /\ slip'[r.emp].live /\ slip'[r.emp].figures = r.new.figures
      /\ \A e \in Employees \ {r.emp} : slip'[e] = slip[e]
  <2>1. slip[r.emp] \in Slip BY <1>2 DEF TypeOK
  <2> QED BY <1>2, <2>1, FlushFresh DEF CommitAdjust, TypeOK, Slip
<1>5. r.new.live /\ r.sum = SumOfSlips([slip EXCEPT ![r.emp] = r.new])
  BY <1>1 DEF Loaded
<1>6. Paid' = [e \in Employees |-> IF slip'[e].live THEN slip'[e].figures ELSE Unpaid]
  BY DEF Paid
<1> QED BY <1>2, <1>3, <1>4, <1>5, <1>6 DEF SumOfSlips, TypeOK

MonthStep == [Month!Next]_<<status, Paid, header>>

\* A step that leaves the run's tables alone is a stutter of the month.
LEMMA QuietStep ==
    ASSUME SerialInv, TypeOK', UNCHANGED runVars, \A t \in Requests : Loaded(req'[t])
    PROVE  SerialInv' /\ MonthStep
<1>1. Paid' = Paid BY DEF Paid, runVars
<1>2. \A t \in Requests : Loaded(req[t])'
  <2> SUFFICES ASSUME NEW t \in Requests PROVE Loaded(req[t])' OBVIOUS
  <2> QED BY DEF Loaded, runVars, SumOfSlips
<1> QED BY <1>1, <1>2 DEF SerialInv, MonthStep, runVars

LEMMA SerialStep ==
    ASSUME NEW t, Requests = {t}, SerialInv, TypeOK', [Next]_vars
    PROVE  SerialInv' /\ MonthStep
<1> USE DEF SerialInv
<1> DEFINE r == req[t]
<1>0. Loaded(r) /\ t \in Requests /\ Loaded(Idle)
  BY DEF Loaded, Idle
<1>1. CASE UNCHANGED vars
  BY <1>1, QuietStep DEF vars, runVars
<1>2. ASSUME NEW e \in Employees, World(e) PROVE SerialInv' /\ MonthStep
  BY <1>2, WorldLeavesRequests, QuietStep
\* Handlers that begin load what the tables say.
<1>3. CASE BeginCompute(t)
  <2>1. Loaded([op |-> "compute", fresh |-> (status = "none"), slips |-> slip,
                header |-> header, shortfall |-> shortfall])
    BY <1>3 DEF Loaded, BeginCompute
  <2>2. UNCHANGED runVars /\ Loaded(req'[t])
    BY <1>0, <1>3, <2>1 DEF BeginCompute, Start, TypeOK
  <2> QED BY <2>2, QuietStep
<1>4. ASSUME NEW e \in Employees, NEW lop, NEW tds, BeginAdjust(t, e, lop, tds)
      PROVE  SerialInv' /\ MonthStep
  <2>1. Loaded([op |-> "adjust", emp |-> e, lop |-> lop, tds |-> tds,
                slip |-> slip[e], header |-> header])
    BY <1>4 DEF Loaded, BeginAdjust
  <2>2. UNCHANGED runVars /\ Loaded(req'[t])
    BY <1>0, <1>4, <2>1 DEF BeginAdjust, Start, TypeOK
  <2> QED BY <2>2, QuietStep
<1>5. CASE BeginFinalize(t)
  <2>1. Loaded([op |-> "finalize"])
    BY <1>5 DEF Loaded, BeginFinalize
  <2>2. UNCHANGED runVars /\ Loaded(req'[t])
    BY <1>0, <1>5, <2>1 DEF BeginFinalize, Start, TypeOK
  <2> QED BY <2>2, QuietStep
\* The ledger's handlers load nothing of the run, and change nothing of it.
<1>6. ASSUME NEW S, BeginRebuild(t, S) PROVE SerialInv' /\ MonthStep
  <2>1. UNCHANGED runVars /\ Loaded(req'[t])
    BY <1>0, <1>6 DEF BeginRebuild, Start, TypeOK, Loaded
  <2> QED BY <2>1, QuietStep
<1>7. ASSUME NEW op \in {"enter", "approve", "delete"}, NEW e, NEW c, BeginInput(t, op, e, c)
      PROVE  SerialInv' /\ MonthStep
  <2>1. UNCHANGED runVars /\ Loaded(req'[t])
    BY <1>0, <1>7 DEF BeginInput, Start, TypeOK, Loaded
  <2> QED BY <2>1, QuietStep
<1>8. CASE CommitRebuild(t) \/ CommitInput(t) \/ Rollback(t)
  <2>1. UNCHANGED runVars /\ req'[t] = Idle
    BY <1>0, <1>8 DEF CommitRebuild, CommitInput, Rollback, Finish, TypeOK
  <2> QED BY <1>0, <2>1, QuietStep
<1>9. CASE SumAdjust(t)
  <2>1. r.op = "adjust" /\ Adjusted(r) \in Slip /\ r.slip = slip[r.emp] /\ slip[r.emp].live
        /\ status = "draft" /\ r.header = header
    BY <1>0, <1>9, AdjustedType DEF SumAdjust, Loaded
  <2>2. /\ Adjusted(r).live /\ Adjusted(r).row = r.slip.row
        /\ r.slip.over => /\ Adjusted(r).over
                          /\ r.lop = Keep => Adjusted(r).lop = r.slip.lop
    <3>1. r.slip \in Slip
      BY <1>0, <2>1 DEF TypeOK, Request, Idle
    <3>2. r.slip.over => LopFor(r.emp, r.slip) = r.slip.lop
      BY <2>1 DEF LopFor
    <3> QED BY <2>1, <3>1, <3>2 DEF Adjusted, Slip
  <2>3. req'[t] = [op |-> "summed", emp |-> r.emp, lop |-> r.lop, slip |-> r.slip, new |-> Adjusted(r),
                   header |-> r.header,
                   sum |-> SumOfSlips([slip EXCEPT ![r.emp] = Adjusted(r)])]
    BY <1>0, <1>9, <2>1 DEF SumAdjust, TypeOK
  <2>4. UNCHANGED runVars BY <1>9 DEF SumAdjust
  <2>5. Loaded(req'[t]) BY <2>1, <2>2, <2>3 DEF Loaded
  <2> QED BY <2>4, <2>5, QuietStep
\* The commits.
<1>10. CASE CommitCompute(t)
  <2>1. r.op = "compute" /\ r.slips = slip /\ r.header = header
        /\ r.fresh = (status = "none") /\ status # "finalized"
    BY <1>0, <1>10 DEF CommitCompute, Loaded
  <2>2. status' = "draft" /\ req'[t] = Idle
    BY <1>0, <1>10, <2>1 DEF CommitCompute, StatusAfterCompute, Finish, TypeOK
  <2>3. header' = Paid'
    BY <1>0, <1>10, <2>1, ComputeSumsSlips
  <2>4. Loaded(req[t])'
    BY <2>2 DEF Loaded, Idle
  <2> QED BY <1>0, <2>1, <2>2, <2>3, <2>4 DEF MonthStep, Month!Next, Month!Revise
<1>11. CASE CommitAdjust(t)
  <2>1. status = "draft" /\ status' = "draft" /\ req'[t] = Idle
    BY <1>0, <1>11 DEF CommitAdjust, Loaded, Finish, TypeOK
  <2>2. header' = Paid'
    BY <1>0, <1>11, AdjustSumsSlips
  <2>3. Loaded(req[t])'
    BY <2>1 DEF Loaded, Idle
  <2> QED BY <1>0, <2>1, <2>2, <2>3 DEF MonthStep, Month!Next, Month!Revise
<1>12. CASE CommitFinalize(t)
  <2>1. /\ status = "draft" /\ status' = "finalized" /\ req'[t] = Idle
        /\ UNCHANGED <<header, slip>>
        /\ \E e \in Employees : slip[e].live
    BY <1>0, <1>12 DEF CommitFinalize, Loaded, Finish, TypeOK
  <2>2. Paid' = Paid BY <2>1 DEF Paid
  <2>3. \E e \in Employees : Paid[e] # Unpaid
    <3>1. PICK e \in Employees : slip[e].live BY <2>1
    <3>2. slip[e].figures \in Figures BY DEF TypeOK, Slip
    <3>3. slip[e].figures # Unpaid BY <3>2 DEF Figures, Unpaid
    <3> QED BY <3>1, <3>3 DEF Paid
  <2>4. Loaded(req[t])'
    BY <2>1 DEF Loaded, Idle
  <2> QED BY <1>0, <2>1, <2>2, <2>3, <2>4 DEF MonthStep, Month!Next, Month!Close
<1> QED
  BY ConstantsAssumption, <1>0, <1>1, <1>2, <1>3, <1>4, <1>5, <1>6, <1>7, <1>8, <1>9,
     <1>10, <1>11, <1>12
     DEF Next, Handler

LEMMA SerialInit == Init => SerialInv /\ Month!Init
<1> SUFFICES ASSUME Init PROVE SerialInv /\ Month!Init OBVIOUS
<1>1. \A e \in Employees : ~slip[e].live BY DEF Init, NoSlip
<1>2. header = Paid BY <1>1 DEF Init, Paid
<1>3. \A t \in Requests : Loaded(req[t]) BY DEF Init, Loaded, Idle
<1> QED BY <1>1, <1>2, <1>3, InitType DEF Init, SerialInv, Month!Init

InTurn == \E t : Requests = {t}

LEMMA SerialInvariance ==
    ASSUME InTurn
    PROVE  Spec => []SerialInv
<1>1. Init => SerialInv BY SerialInit
<1>2. SerialInv /\ TypeOK' /\ [Next]_vars => SerialInv'
  BY SerialStep DEF InTurn
<1> QED BY <1>1, <1>2, TypeCorrect, PTL DEF Spec

\* Served one at a time, create_run, adjust_payslip and finalize_run
\* implement the abstract month: figures are revised while it is open, the
\* header always sums them, and closing freezes both.
THEOREM SerialMonth ==
    ASSUME InTurn
    PROVE  Spec => ImplementsPaidMonth
<1>1. Init => SerialInv /\ Month!Init BY SerialInit
<1>2. SerialInv /\ TypeOK' /\ [Next]_vars => MonthStep
  BY SerialStep DEF InTurn
<1>3. MonthStep => [Month!Next]_(Month!vars)
  BY DEF MonthStep, Month!vars
<1>4. Spec => Month!Init /\ [][Month!Next]_(Month!vars)
  BY <1>1, <1>2, <1>3, TypeCorrect, SerialInvariance, PTL DEF Spec
<1> QED BY <1>4, PTL DEF ImplementsPaidMonth, Month!Spec

\* Served one at a time, the header never drifts from its payslips.
THEOREM SerialHeader ==
    ASSUME InTurn
    PROVE  Spec => []HeaderMatchesSlips
<1>1. SerialInv => HeaderMatchesSlips
  BY DEF SerialInv, HeaderMatchesSlips
<1> QED BY <1>1, SerialInvariance, PTL DEF Spec

\* Served one at a time, a computation settles the top-up on the payslips it
\* leaves: those it inserted, recomputed, kept and removed alike.
THEOREM SerialShortfall ==
    ASSUME InTurn
    PROVE  Spec => ShortfallSettled
<1>1. ASSUME SerialInv, NEW u \in Requests, CommitCompute(u)
      PROVE  shortfall' = [e \in Employees |->
                             IF slip'[e].live THEN BasisOf(slip'[e].figures) ELSE Unpaid]
  <2>1. req[u].slips = slip /\ req[u].shortfall = shortfall
    BY <1>1 DEF SerialInv, Loaded, CommitCompute
  <2>2. shortfall' = ComputedBases(slip)
    BY <1>1, <2>1, FlushFresh DEF CommitCompute
  <2>3. \A e \in Employees : /\ slip'[e].live <=> e \in Payable
                             /\ e \in Payable => slip'[e].figures = Computed(e, slip[e])
    BY <1>1, <2>1, ComputeWrites DEF SerialInv
  <2> QED BY <2>2, <2>3 DEF ComputedBases
<1>2. SerialInv /\ [Next]_vars =>
        [\A t \in Requests : CommitCompute(t) =>
            shortfall' = [e \in Employees |->
                            IF slip'[e].live THEN BasisOf(slip'[e].figures) ELSE Unpaid]]_vars
  BY <1>1
<1> QED BY <1>2, SerialInvariance, PTL DEF Spec, ShortfallSettled

\* A payslip marked as overridden stays so, with its days, until the commit of
\* an adjustment of that payslip that types the days.
LEMMA StepKeepsTyped ==
    ASSUME SerialInv, [Next]_vars, NEW e \in Employees,
           slip[e].live, slip[e].over
    PROVE  /\ slip'[e].over
           /\ slip'[e].lop # slip[e].lop =>
                 \E t \in Requests : Holds(t, e) /\ req'[t] = Idle /\ req[t].lop # Keep
<1>0. CASE slip' = slip
  BY <1>0
<1>1. CASE slip' # slip
  <2>1. PICK u \in Requests : Handler(u)
    BY <1>1, WorldLeavesRequests DEF Next, vars, runVars
  <2>2. CASE CommitCompute(u)
    <3>1. req[u].slips = slip BY <2>2 DEF SerialInv, Loaded, CommitCompute
    <3> QED BY <2>2, <3>1, ComputeWrites DEF SerialInv
  <2>3. CASE CommitAdjust(u)
    <3> DEFINE r == req[u]
    <3>1. r.op = "summed" /\ req'[u] = Idle
      BY <2>3 DEF CommitAdjust, Finish, SerialInv, TypeOK
    <3>2. /\ r.emp \in Employees /\ r.new \in Slip /\ r.slip = slip[r.emp]
          /\ r.slip.over => /\ r.new.over
                            /\ r.lop = Keep => r.new.lop = r.slip.lop
      BY <3>1, SummedType DEF SerialInv, TypeOK, Loaded
    <3>3. CASE r.emp # e
      BY <2>3, <3>2, <3>3 DEF CommitAdjust, SerialInv, TypeOK
    <3>4. CASE r.emp = e
      <4>1. slip[e] \in Slip BY DEF SerialInv, TypeOK
      <4>2. slip'[e].over = r.new.over /\ slip'[e].lop = r.new.lop
        BY <2>3, <3>2, <3>4, <4>1, FlushFresh DEF CommitAdjust, SerialInv, TypeOK, Slip
      <4> QED BY <3>1, <3>2, <3>4, <4>2 DEF Holds
    <3> QED BY <3>3, <3>4
  <2> QED
    BY <1>1, <2>1, <2>2, <2>3
    DEF Handler, BeginCompute, BeginAdjust, SumAdjust, BeginFinalize, CommitFinalize,
        BeginRebuild, CommitRebuild, BeginInput, CommitInput, Rollback, runVars
<1> QED BY <1>0, <1>1

\* Served one at a time, neither a computation nor a correction of the tax
\* alone derives over the days HR typed.
THEOREM SerialTypedDays ==
    ASSUME InTurn
    PROVE  Spec => TypedDaysSurvive
<1>1. SerialInv /\ [Next]_vars =>
        [\A e \in Employees :
            slip[e].live /\ slip[e].over /\ slip'[e].live /\ slip'[e].row = slip[e].row =>
               /\ slip'[e].over
               /\ slip'[e].lop # slip[e].lop =>
                     \E t \in Requests : Holds(t, e) /\ req'[t] = Idle /\ req[t].lop # Keep]_vars
  BY StepKeepsTyped
<1> QED BY <1>1, SerialInvariance, PTL DEF Spec, TypedDaysSurvive

\* Served one at a time, the ledger of a finalized month is a record: no
\* computation, rebuild, entry, approval or deletion reaches it.
THEOREM SerialLedger ==
    ASSUME InTurn
    PROVE  Spec => LedgerClosedOnceFinalized
<1>1. ASSUME SerialInv, [Next]_vars, status = "finalized" PROVE UNCHANGED ledgerVars
  <2>1. \A u \in Requests : req[u].op = "idle"
    BY <1>1 DEF SerialInv, Loaded
  <2>2. CASE UNCHANGED vars BY <2>2 DEF vars
  <2>3. ASSUME NEW e \in Employees, World(e) PROVE UNCHANGED ledgerVars
    BY <2>3, WorldLeavesRequests
  <2>4. ASSUME NEW u \in Requests, Handler(u) PROVE UNCHANGED ledgerVars
    BY <2>1, <2>4
    DEF Handler, BeginCompute, CommitCompute, BeginAdjust, SumAdjust, CommitAdjust,
        BeginFinalize, CommitFinalize, BeginRebuild, CommitRebuild, BeginInput,
        CommitInput, Rollback
  <2> QED BY <1>1, <2>2, <2>3, <2>4 DEF Next
<1>2. SerialInv /\ [Next]_vars => [status = "finalized" => UNCHANGED ledgerVars]_vars
  BY <1>1
<1> QED BY <1>2, SerialInvariance, PTL DEF Spec, LedgerClosedOnceFinalized
==============================================================================
