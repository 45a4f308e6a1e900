----------------------------- MODULE PayrollRun ------------------------------
(***************************************************************************)
(* One month of payroll for one company (modules/payroll): the run, its    *)
(* payslips, and the input ledger they are computed from.                  *)
(*                                                                         *)
(* Every HTTP request is one READ COMMITTED transaction (core/db.py), no   *)
(* statement of which takes a row lock before writing.  A handler is       *)
(* therefore two steps, the reads its guards decide on (Begin...) and the  *)
(* commit of what it wrote (Commit...), and the steps of several requests  *)
(* interleave.  adjust_payslip has a third between them, because it reads  *)
(* the OTHER payslips to sum them before it commits.  The reads that no    *)
(* guard decides on, of the ledger above all, are taken at the commit:     *)
(* READ COMMITTED, they see what is committed when they run, which is as   *)
(* if they ran last, or another request had begun earlier or ended later.  *)
(* Requests is the set of requests that may be in flight together; with    *)
(* one element they are served in turn.                                    *)
(*                                                                         *)
(* Money is abstracted: the figures of a payslip are a function of the     *)
(* ledger lines, the unpaid days and the tax they were computed from, so   *)
(* those stand for them, and a total stands for the figures it summed.     *)
(***************************************************************************)
EXTENDS Naturals, FiniteSets, Sessions

CONSTANTS
    Employees,
    Salaries,      \* monthly amounts a compensation version can carry; 0: none
    Codes,         \* codes of manual inputs, each one unit of money
    Deductions,    \* the codes that take money away rather than pay it
    FactKinds,     \* what a work fact can say of the day: overtime or absence
    LeaveDays,     \* unpaid leave days an employee can have been granted
    TaxAmounts,    \* TDS amounts HR can type
    TypedDays,     \* unpaid-day totals HR can type
    WorkingDays,   \* working days of the month
    MaxRows,       \* bound: payslip rows ever inserted for one employee
    Recorded,      \* bound: the employees HR enters anything for
    Keep           \* the field is absent from the PATCH body

ASSUME ConstantsAssumption ==
    /\ Salaries \subseteq Nat
    /\ Deductions \subseteq Codes
    /\ IsFiniteSet(Codes)
    /\ FactKinds \subseteq {"overtime", "absent"}
    /\ LeaveDays \subseteq Nat
    /\ 0 \in LeaveDays
    /\ TaxAmounts \subseteq Nat
    /\ TypedDays \subseteq Nat
    /\ WorkingDays \in Nat
    /\ MaxRows \in Nat
    /\ Recorded \subseteq Employees
    /\ Keep \notin Nat

VARIABLES
    status,      \* PayrollRun.status, "none" before the row exists
    header,      \* the run's totals: the figures of each employee summed in
    shortfall,   \* admin_shortfall: the lines and days it was settled on
    slip,        \* the payslip row of each employee, the last one inserted
    structure,   \* ledger: the amount of the "structure" row, 0 for none
    overtime,    \* ledger: the wage the "work_facts" row was rated on, 0 for none
    manual,      \* ledger: the state of each "manual" row
    fact,        \* the work fact of the day
    person       \* what other modules say of an employee

ledgerVars == <<structure, overtime, manual>>
runVars    == <<status, header, shortfall, slip>>
worldVars  == <<fact, person>>
vars       == <<runVars, ledgerVars, worldVars, req>>

-----------------------------------------------------------------------------
(***************************************************************************)
(* Rows.                                                                   *)
(***************************************************************************)
Lines   == [structure : Nat, overtime : Nat, manual : SUBSET Codes]
Figures == [lines : Lines, lop : 0..WorkingDays, tds : Nat]
Basis   == [lines : Lines, lop : 0..WorkingDays]

NoLines   == [structure |-> 0, overtime |-> 0, manual |-> {}]
NoFigures == [lines |-> NoLines, lop |-> 0, tds |-> 0]
NoBasis   == [lines |-> NoLines, lop |-> 0]

\* A payslip row.  Unpaid stands for an employee the header did not sum.
Slip == [live : BOOLEAN, row : 0..MaxRows, lop : 0..WorkingDays,
         over : BOOLEAN, tds : Nat, figures : Figures]
NoSlip == [live |-> FALSE, row |-> 0, lop |-> 0, over |-> FALSE, tds |-> 0,
           figures |-> NoFigures]

Unpaid == [none |-> TRUE]
Totals == [Employees -> Figures \cup {Unpaid}]
Bases  == [Employees -> Basis \cup {Unpaid}]

ManualState == {"none", "pending", "approved", "deleted"}
NoFact == [kind |-> "none", approved |-> FALSE]
Fact   == [kind : FactKinds \cup {"none"}, approved : BOOLEAN]
Person == [onRoll : BOOLEAN, salary : Salaries, leave : LeaveDays]

Request ==
    {Idle}
    \cup [op : {"compute"}, fresh : BOOLEAN, slips : [Employees -> Slip],
          header : Totals, shortfall : Bases]
    \cup [op : {"adjust"}, emp : Employees, lop : TypedDays \cup {Keep},
          tds : TaxAmounts \cup {Keep}, slip : Slip, header : Totals]
    \cup [op : {"summed"}, emp : Employees, lop : TypedDays \cup {Keep}, slip : Slip,
          new : Slip, header : Totals, sum : Totals]
    \cup [op : {"finalize"}]
    \cup [op : {"rebuild"}, emps : SUBSET Employees]
    \cup [op : {"enter", "approve", "delete"}, emp : Employees, code : Codes]

TypeOK ==
    /\ status \in {"none", "draft", "finalized"}
    /\ header \in Totals
    /\ shortfall \in Bases
    /\ slip \in [Employees -> Slip]
    /\ structure \in [Employees -> Nat]
    /\ overtime \in [Employees -> Nat]
    /\ manual \in [Employees -> [Codes -> ManualState]]
    /\ fact \in [Employees -> Fact]
    /\ person \in [Employees -> Person]
    /\ req \in [Requests -> Request]

Init ==
    /\ status = "none"
    /\ header = [e \in Employees |-> Unpaid]
    /\ shortfall = [e \in Employees |-> Unpaid]
    /\ slip = [e \in Employees |-> NoSlip]
    /\ structure = [e \in Employees |-> 0]
    /\ overtime = [e \in Employees |-> 0]
    /\ manual = [e \in Employees |-> [c \in Codes |-> "none"]]
    /\ fact = [e \in Employees |-> NoFact]
    /\ person \in [Employees -> [onRoll : {TRUE}, salary : Salaries, leave : {0}]]
    /\ req = [t \in Requests |-> Idle]

-----------------------------------------------------------------------------
(***************************************************************************)
(* The calculation.                                                        *)
(***************************************************************************)
AtMost(n, bound) == IF n <= bound THEN n ELSE bound

\* The ORM writes a column only when its value differs from the one it
\* loaded; otherwise whatever is in the row by now stays.
Flush(loaded, new, current) == IF new = loaded THEN current ELSE new

\* Mutant: rows nobody has approved yet are paid as well.
MutLinesFrom(st, ot, man) ==
    [structure |-> st, overtime |-> ot,
     manual |-> {c \in Codes : man[c] \in {"pending", "approved"}}]
\* inputs_for: structure rows, and the rows somebody approved.
LinesFrom(st, ot, man) ==
    [structure |-> st, overtime |-> ot, manual |-> {c \in Codes : man[c] = "approved"}]

CurrentLines(e) == LinesFrom(structure[e], overtime[e], manual[e])

Earned(lines)   == lines.structure + lines.overtime + Cardinality(lines.manual \ Deductions)
Withheld(lines) == Cardinality(lines.manual \cap Deductions)

\* validate: no earnings at all, or more to deduct than to pay.
Blocked(lines) == Earned(lines) = 0 \/ Withheld(lines) > Earned(lines)

\* derive_lop, clamped to the month the way compute_payslip clamps it.
\* Only an APPROVED absence is a deduction.
DerivedLop(e) ==
    AtMost(person[e].leave + (IF fact[e].kind = "absent" /\ fact[e].approved THEN 1 ELSE 0),
           WorkingDays)

\* lop_for: a figure HR typed is the total, otherwise derive it afresh.
LopFor(e, prior) == IF prior.live /\ prior.over THEN prior.lop ELSE DerivedLop(e)

FiguresOf(lines, lop, tds) == [lines |-> lines, lop |-> lop, tds |-> tds]
BasisOf(figures) == [lines |-> figures.lines, lop |-> figures.lop]

\* The wage overtime is rated on.  seed_from_structure returns before its
\* flush when the employee has no compensation, so the query that follows
\* still finds the structure row it has just marked as deleted.
OrdinaryWage(e) == IF person[e].salary # 0 THEN person[e].salary ELSE structure[e]

\* seed_from_work_facts: approved overtime, rated on the ordinary wage.
SeededOvertime(e) ==
    IF fact[e].kind = "overtime" /\ fact[e].approved THEN OrdinaryWage(e) ELSE 0

\* The ledger after rebuild has run for the employees of S.
RebuiltStructure(S) ==
    [e \in Employees |-> IF e \in S THEN person[e].salary ELSE structure[e]]
RebuiltOvertime(S) ==
    [e \in Employees |-> IF e \in S THEN SeededOvertime(e) ELSE overtime[e]]

OnRoll == {e \in Employees : person[e].onRoll}

\* What the header says when every payslip is counted once.
SumOfSlips(slips) ==
    [e \in Employees |-> IF slips[e].live THEN slips[e].figures ELSE Unpaid]


-----------------------------------------------------------------------------
(***************************************************************************)
(* create_run: open or recompute the draft.                                *)
(***************************************************************************)
\* Mutant: a finalized run can be recomputed.
MutBeginCompute(t) ==
    /\ Start(t, [op |-> "compute", fresh |-> (status = "none"), slips |-> slip,
                 header |-> header, shortfall |-> shortfall])
    /\ UNCHANGED <<runVars, ledgerVars, worldVars>>
BeginCompute(t) ==
    /\ status # "finalized"
    /\ Start(t, [op |-> "compute", fresh |-> (status = "none"), slips |-> slip,
                 header |-> header, shortfall |-> shortfall])
    /\ UNCHANGED <<runVars, ledgerVars, worldVars>>

\* The employees this computation pays: on the roll, and not blocked by the
\* ledger it has just rebuilt.
LinesAfterRebuild(e) ==
    LinesFrom(RebuiltStructure(OnRoll)[e], RebuiltOvertime(OnRoll)[e], manual[e])
Payable == {e \in OnRoll : ~Blocked(LinesAfterRebuild(e))}

\* What build_run computes for e, from the payslip it loaded at the start.
Computed(e, prior) ==
    FiguresOf(LinesAfterRebuild(e), LopFor(e, prior), IF prior.live THEN prior.tds ELSE 0)

\* Mutant: recomputing resets the tax as well.
MutRecomputed(e, prior) ==
    IF slip[e].row # prior.row THEN slip[e]
    ELSE [slip[e] EXCEPT
            !.lop     = Flush(prior.lop, Computed(e, prior).lop, @),
            !.tds     = 0,
            !.figures = Flush(prior.figures, Computed(e, prior), @)]
\* An UPDATE by id: the loaded row, whatever has become of it by now.
Recomputed(e, prior) ==
    IF slip[e].row # prior.row THEN slip[e]
    ELSE [slip[e] EXCEPT
            !.lop     = Flush(prior.lop, Computed(e, prior).lop, @),
            !.figures = Flush(prior.figures, Computed(e, prior), @)]

Inserted(e, prior) ==
    [live |-> TRUE, row |-> slip[e].row + 1, lop |-> Computed(e, prior).lop,
     over |-> FALSE, tds |-> 0, figures |-> Computed(e, prior)]

\* Mutant: recomputing updates and inserts but never removes.
MutRemoved(e, prior) == slip[e]
\* Anyone who had a payslip and is no longer paid loses it.
Removed(e, prior) ==
    IF slip[e].row # prior.row THEN slip[e] ELSE [slip[e] EXCEPT !.live = FALSE]

SlipAfterCompute(e, prior) ==
    IF e \in Payable
    THEN IF prior.live THEN Recomputed(e, prior) ELSE Inserted(e, prior)
    ELSE IF prior.live THEN Removed(e, prior) ELSE slip[e]

\* The totals build_run accumulates while it computes.
ComputedTotals(prior) ==
    [e \in Employees |-> IF e \in Payable THEN Computed(e, prior[e]) ELSE Unpaid]
\* Mutant: the top-up is settled on the payslips as they were loaded.
MutComputedBases(prior) ==
    [e \in Employees |-> IF prior[e].live THEN BasisOf(prior[e].figures) ELSE Unpaid]
ComputedBases(prior) ==
    [e \in Employees |-> IF e \in Payable THEN BasisOf(Computed(e, prior[e])) ELSE Unpaid]

\* A request that has updated a payslip holds the row until it ends.
Holds(t, e) == req[t].op = "summed" /\ req[t].emp = e

\* Mutant: the draft status read at the start is written back.
MutStatusAfterCompute(fresh) == "draft"
\* Only the insert of a new run writes its status.
StatusAfterCompute(fresh) == IF fresh THEN "draft" ELSE status

CommitCompute(t) ==
    LET r == req[t] IN
    /\ r.op = "compute"
    \* uq_payroll_run_period and uq_payslip_run_employee: an insert that meets
    \* a live row fails, and the request with it.
    /\ r.fresh => status = "none"
    /\ \A e \in Payable : ~r.slips[e].live => ~slip[e].live /\ slip[e].row < MaxRows
    /\ \A e \in Employees, u \in Requests :
          Holds(u, e) => SlipAfterCompute(e, r.slips[e]) = slip[e]
    /\ status' = StatusAfterCompute(r.fresh)
    /\ structure' = RebuiltStructure(OnRoll)
    /\ overtime' = RebuiltOvertime(OnRoll)
    /\ slip' = [e \in Employees |-> SlipAfterCompute(e, r.slips[e])]
    /\ header' = Flush(r.header, ComputedTotals(r.slips), header)
    /\ shortfall' = Flush(r.shortfall, ComputedBases(r.slips), shortfall)
    /\ Finish(t)
    /\ UNCHANGED <<manual, worldVars>>

(***************************************************************************)
(* adjust_payslip: type the unpaid days, the tax, or both, then recompute  *)
(* that payslip from the ledger as it stands and sum the run again.        *)
(***************************************************************************)
BeginAdjust(t, e, lop, tds) ==
    /\ status = "draft"
    /\ slip[e].live
    /\ Start(t, [op |-> "adjust", emp |-> e, lop |-> lop, tds |-> tds,
                 slip |-> slip[e], header |-> header])
    /\ UNCHANGED <<runVars, ledgerVars, worldVars>>

\* Mutant: a correction of the tax alone derives the days afresh.
MutAdjusted(r) ==
    LET over == r.slip.over \/ r.lop # Keep
        lop  == IF r.lop # Keep THEN AtMost(r.lop, WorkingDays) ELSE DerivedLop(r.emp)
        tds  == IF r.tds # Keep THEN r.tds ELSE r.slip.tds
    IN [r.slip EXCEPT !.lop = lop, !.over = over, !.tds = tds,
                      !.figures = FiguresOf(CurrentLines(r.emp), lop, tds)]
\* The payslip this request writes, by the columns it loaded.
Adjusted(r) ==
    LET over == r.slip.over \/ r.lop # Keep
        lop  == IF r.lop # Keep THEN AtMost(r.lop, WorkingDays)
                ELSE LopFor(r.emp, r.slip)
        tds  == IF r.tds # Keep THEN r.tds ELSE r.slip.tds
    IN [r.slip EXCEPT !.lop = lop, !.over = over, !.tds = tds,
                      !.figures = FiguresOf(CurrentLines(r.emp), lop, tds)]

\* The UPDATE of the payslip waits for whoever else has updated it; then the
\* payslips are read back, this request's own change among them.
SumAdjust(t) ==
    LET r == req[t] IN
    /\ r.op = "adjust"
    /\ \A u \in Requests : ~Holds(u, r.emp)
    /\ LET own == slip[r.emp].live /\ slip[r.emp].row = r.slip.row
           seen == IF own THEN [slip EXCEPT ![r.emp] = Adjusted(r)] ELSE slip
       IN req' = [req EXCEPT ![t] = [op |-> "summed", emp |-> r.emp, lop |-> r.lop,
                                     slip |-> r.slip, new |-> Adjusted(r),
                                     header |-> r.header, sum |-> SumOfSlips(seen)]]
    /\ UNCHANGED <<runVars, ledgerVars, worldVars>>

CommitAdjust(t) ==
    LET r == req[t]
        old == r.slip
        cur == slip[r.emp]
    IN
    /\ r.op = "summed"
    /\ slip' = IF cur.row # old.row THEN slip
               ELSE [slip EXCEPT ![r.emp] =
                      [cur EXCEPT !.lop     = Flush(old.lop, r.new.lop, @),
                                  !.over    = Flush(old.over, r.new.over, @),
                                  !.tds     = Flush(old.tds, r.new.tds, @),
                                  !.figures = Flush(old.figures, r.new.figures, @)]]
    /\ header' = Flush(r.header, r.sum, header)
    /\ Finish(t)
    /\ UNCHANGED <<status, shortfall, ledgerVars, worldVars>>

(***************************************************************************)
(* finalize_run: the figures as they stand become what was paid.           *)
(***************************************************************************)
BeginFinalize(t) ==
    /\ status = "draft"
    /\ \E e \in Employees : slip[e].live
    /\ Start(t, [op |-> "finalize"])
    /\ UNCHANGED <<runVars, ledgerVars, worldVars>>

CommitFinalize(t) ==
    /\ req[t].op = "finalize"
    /\ status' = "finalized"
    /\ Finish(t)
    /\ UNCHANGED <<header, shortfall, slip, ledgerVars, worldVars>>

(***************************************************************************)
(* The ledger between runs: rebuild_ledger, create_input, approve_inputs   *)
(* and delete_input.  Each refuses a closed period when it begins.  The    *)
(* approval of a row that is not manual changes nothing payroll reads.     *)
(* A code is entered once: ids are never reused.                           *)
(***************************************************************************)
\* Mutant: the closed period is not checked.
MutBeginRebuild(t, S) ==
    /\ Start(t, [op |-> "rebuild", emps |-> S])
    /\ UNCHANGED <<runVars, ledgerVars, worldVars>>
BeginRebuild(t, S) ==
    /\ status # "finalized"
    /\ Start(t, [op |-> "rebuild", emps |-> S])
    /\ UNCHANGED <<runVars, ledgerVars, worldVars>>

CommitRebuild(t) ==
    /\ req[t].op = "rebuild"
    /\ structure' = RebuiltStructure(req[t].emps \cap OnRoll)
    /\ overtime' = RebuiltOvertime(req[t].emps \cap OnRoll)
    /\ Finish(t)
    /\ UNCHANGED <<runVars, manual, worldVars>>

BeginInput(t, op, e, c) ==
    /\ status # "finalized"
    /\ IF op = "enter" THEN manual[e][c] = "none"
                       ELSE manual[e][c] \in {"pending", "approved"}
    /\ Start(t, [op |-> op, emp |-> e, code |-> c])
    /\ UNCHANGED <<runVars, ledgerVars, worldVars>>

CommitInput(t) ==
    LET r == req[t] IN
    /\ r.op \in {"enter", "approve", "delete"}
    \* uq_payroll_input_slot refuses the second of two entries.
    /\ r.op = "enter" => manual[r.emp][r.code] = "none"
    /\ manual' = [manual EXCEPT ![r.emp][r.code] =
                    CASE r.op = "enter"   -> "pending"
                      [] r.op = "approve" -> IF @ = "deleted" THEN @ ELSE "approved"
                      [] r.op = "delete"  -> "deleted"]
    /\ Finish(t)
    /\ UNCHANGED <<runVars, structure, overtime, worldVars>>

\* Any exception rolls the transaction back: a unique index, a deadlock, a
\* lost connection.
Rollback(t) ==
    /\ req[t] # Idle
    /\ Finish(t)
    /\ UNCHANGED <<runVars, ledgerVars, worldVars>>

(***************************************************************************)
(* The rest of the program, one whole transaction at a time.  The work     *)
(* facts have a module of their own (WorkFacts) for their interleavings.   *)
(***************************************************************************)
RecordFact(e, kind) ==
    /\ status # "finalized"
    /\ fact' = [fact EXCEPT ![e] = [kind |-> kind, approved |-> FALSE]]
    /\ UNCHANGED <<runVars, ledgerVars, person, req>>

ApproveFact(e) ==
    /\ status # "finalized"
    /\ fact[e].kind # "none"
    /\ fact' = [fact EXCEPT ![e].approved = TRUE]
    /\ UNCHANGED <<runVars, ledgerVars, person, req>>

DeleteFact(e) ==
    /\ status # "finalized"
    /\ fact[e].kind # "none"
    /\ fact' = [fact EXCEPT ![e] = NoFact]
    /\ UNCHANGED <<runVars, ledgerVars, person, req>>

\* Compensation, leave and the employee record know nothing of the run's
\* status; a finalized month does not stop them.
SetSalary(e, amount) ==
    /\ person' = [person EXCEPT ![e].salary = amount]
    /\ UNCHANGED <<runVars, ledgerVars, fact, req>>

DecideLeave(e, days) ==
    /\ person' = [person EXCEPT ![e].leave = days]
    /\ UNCHANGED <<runVars, ledgerVars, fact, req>>

SetOnRoll(e, on) ==
    /\ person' = [person EXCEPT ![e].onRoll = on]
    /\ UNCHANGED <<runVars, ledgerVars, fact, req>>

-----------------------------------------------------------------------------
Handler(t) ==
    \/ BeginCompute(t)
    \/ CommitCompute(t)
    \/ \E e \in Recorded, lop \in TypedDays \cup {Keep}, tds \in TaxAmounts \cup {Keep} :
          BeginAdjust(t, e, lop, tds)
    \/ SumAdjust(t)
    \/ CommitAdjust(t)
    \/ BeginFinalize(t)
    \/ CommitFinalize(t)
    \/ \E S \in {Employees} \cup {{e} : e \in Employees} : BeginRebuild(t, S)
    \/ CommitRebuild(t)
    \/ \E op \in {"enter", "approve", "delete"}, e \in Recorded, c \in Codes :
          BeginInput(t, op, e, c)
    \/ CommitInput(t)
    \/ Rollback(t)

World(e) ==
    \/ \E kind \in FactKinds : e \in Recorded /\ RecordFact(e, kind)
    \/ ApproveFact(e)
    \/ DeleteFact(e)
    \/ \E amount \in Salaries : SetSalary(e, amount)
    \/ \E days \in LeaveDays : e \in Recorded /\ DecideLeave(e, days)
    \/ \E on \in BOOLEAN : SetOnRoll(e, on)

Next == (\E t \in Requests : Handler(t)) \/ (\E e \in Employees : World(e))

Spec == Init /\ [][Next]_vars

-----------------------------------------------------------------------------
(***************************************************************************)
(* Properties.                                                             *)
(***************************************************************************)

\* The month as PaidMonth promises it: every step of the requests is a
\* revision of an open month whose header sums its payslips, the one closing,
\* or nothing.  build_run, adjust_payslip and finalize_run keep it when they
\* are served in turn.
Paid == [e \in Employees |-> IF slip[e].live THEN slip[e].figures ELSE Unpaid]
Month == INSTANCE PaidMonth WITH paid <- Paid, total <- header
ImplementsPaidMonth == Month!Spec

\* "A finalized run is never recomputed: it is what was paid": no step
\* changes a payslip, or the totals, of a finalized month.
FrozenOnceFinalized ==
    [][status = "finalized" => UNCHANGED <<status, header, slip>>]_vars

\* Finalizing is one way, whatever is in flight: no request writes back the
\* status it read (the ORM writes only the columns it changed).
FinalizedForGood == [][status = "finalized" => status' = "finalized"]_vars

\* "A closed period is a record": the ledger of a finalized month is closed
\* to manual entry, approval, deletion and rebuild.
LedgerClosedOnceFinalized ==
    [][status = "finalized" => UNCHANGED ledgerVars]_vars

\* adjust_payslip sums the run from its payslips "so the header can't drift
\* away from the rows it is supposed to be summing".
HeaderMatchesSlips == status # "none" => header = Paid

\* build_run keeps the tax HR typed: while a payslip row lives, only the
\* commit of an adjustment of that payslip changes its tax.
OnlyAdjustChangesTax ==
    [][\A e \in Employees :
         slip'[e].row = slip[e].row /\ slip'[e].tds # slip[e].tds =>
            \E t \in Requests : Holds(t, e) /\ req'[t] = Idle]_vars

\* A typed total of unpaid days "survives the next recompute", and a correction
\* of the tax alone: a payslip marked as overridden stays so, with its days,
\* until somebody types the days of that payslip again.
TypedDaysSurvive ==
    [][\A e \in Employees :
         slip[e].live /\ slip[e].over /\ slip'[e].live /\ slip'[e].row = slip[e].row =>
            /\ slip'[e].over
            /\ slip'[e].lop # slip[e].lop =>
                  \E t \in Requests : Holds(t, e) /\ req'[t] = Idle /\ req[t].lop # Keep]_vars

\* The administration top-up "can only be settled once every payslip is
\* known": a computation settles it on the payslips it leaves, those it
\* inserted, recomputed, kept and removed alike.
ShortfallSettled ==
    [][\A t \in Requests : CommitCompute(t) =>
          shortfall' = [e \in Employees |->
                          IF slip'[e].live THEN BasisOf(slip'[e].figures) ELSE Unpaid]]_vars

\* "Unapproved inputs are deliberately invisible to the engine": a payslip
\* never pays a manual code that nobody has approved, whatever requests were
\* in flight when it was computed.
OnlyApprovedLinesPaid ==
    \A e \in Employees : slip[e].live =>
        \A c \in slip[e].figures.lines.manual : manual[e][c] \in {"approved", "deleted"}
==============================================================================
