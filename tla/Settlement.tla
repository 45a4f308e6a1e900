----------------------------- MODULE Settlement ------------------------------
(***************************************************************************)
(* What is owed after a month is closed, and what a contractor bills for   *)
(* it (payroll/adjustments.py, contractors.py and their routes).           *)
(*                                                                         *)
(* A correction is raised against a finalized month, approved into the     *)
(* ledger of a later one, and paid when that is computed.  An invoice is   *)
(* recorded, disputed or approved against what the payslips of the         *)
(* contractor's workers come to.  Of computing and finalizing a month,     *)
(* PayrollRun's subject, only the corrections paid are here.  Handlers     *)
(* read when they begin and write when they commit; Requests may be in     *)
(* flight together.                                                        *)
(***************************************************************************)
EXTENDS FiniteSets, Functions, Statutory, Sessions

CONSTANTS
    Months,     \* consecutive
    Billed,     \* bound: the months the contractor bills for
    Workers,
    Claims,     \* bound: corrections ever raised
    Codes,      \* the codes somebody may give one
    Salary,     \* the gross of a worker without corrections
    EsiCeiling, EsiRate,
    EpfRule, PfCeiling,
    Amounts,    \* bound: what the unit of pay may be
    Figures     \* bound: what an invoice may be for

ASSUME SettlementAssumption ==
    /\ Months \subseteq Nat /\ Billed \subseteq Months
    /\ Codes \cap Months = {}
    /\ IsFiniteSet(Claims) /\ Figures \subseteq Nat /\ Amounts \subseteq Nat
    /\ {Salary, EsiCeiling, EsiRate} \subseteq Nat

VARIABLES
    run,        \* the payroll of each month: the corrections on its payslips,
                \* and whose have a contribution to ESI
    claim,      \* corrections
    ledger,     \* those with a live row in the ledger
    deployed,   \* the workers who are the contractor's now
    invoice     \* of each month

vars == <<run, claim, ledger, deployed, invoice, req>>

Run == [status : {"none", "draft", "finalized"}, claims : SUBSET Claims,
        esi : SUBSET Workers]
Kinds == {"arrear", "recovery"}
Claim == [worker : Workers, source : Months, target : Months, kind : Kinds,
          code : Months \cup Codes, approved : BOOLEAN, cancelled : BOOLEAN]
NoClaim == [worker |-> "none"]
Invoice == [amount : Figures, status : {"received", "disputed", "approved"}, agreed : BOOLEAN]
NoInvoice == [status |-> "none"]

Request ==
    {Idle}
    \cup [op : {"compute"}, month : Months, claims : SUBSET Claims, esi : SUBSET Workers]
    \cup [op : {"finalize"}, month : Months]
    \cup [op : {"approve"}, claim : Claims]
    \cup [op : {"cancel"}, claim : Claims, approved : BOOLEAN]
    \cup [op : {"record"}, month : Billed, amount : Figures, known : BOOLEAN]
    \cup [op : {"agree", "dispute"}, month : Billed]

TypeOK ==
    /\ run \in [Months -> Run]
    /\ claim \in [Claims -> {NoClaim} \cup Claim]
    /\ ledger \in SUBSET Claims
    /\ deployed \in SUBSET Workers
    /\ invoice \in [Billed -> {NoInvoice} \cup Invoice]
    /\ req \in [Requests -> Request]

Init ==
    /\ run = [m \in Months |-> [status |-> "none", claims |-> {}, esi |-> {}]]
    /\ claim = [a \in Claims |-> NoClaim]
    /\ ledger = {}
    /\ deployed \in SUBSET Workers
    /\ invoice = [m \in Billed |-> NoInvoice]
    /\ req = [t \in Requests |-> Idle]

-----------------------------------------------------------------------------
Raised(a) == claim[a] # NoClaim
ClaimAs(a, approved, cancelled) ==
    [worker |-> claim[a].worker, source |-> claim[a].source, target |-> claim[a].target,
     kind |-> claim[a].kind, code |-> claim[a].code,
     approved |-> approved, cancelled |-> cancelled]
IsFinalized(m) == run[m].status = "finalized"
LedgerOf(m) == {a \in ledger : claim[a].target = m}

\* Mutant: the target may be closed.
MutValidPeriods(source, target) == source < target /\ IsFinalized(source)
ValidPeriods(source, target) ==
    source < target /\ IsFinalized(source) /\ ~IsFinalized(target)

\* The gross of a payslip: an arrear adds to it, a recovery is deducted from the
\* net.  The wage ESI is reckoned on is the same.
GrossWith(w, claims) ==
    Salary + Cardinality({a \in claims : claim[a].worker = w /\ claim[a].kind = "arrear"})
Gross(m, w) == IF run[m].status = "none" THEN 0 ELSE GrossWith(w, run[m].claims)
\* reconcile: the payslips of that month, of the workers there are today.
Computed(m) == SumFunctionOnSet([w \in Workers |-> Gross(m, w)], deployed)

(***************************************************************************)
(* The months.                                                             *)
(***************************************************************************)
\* esi_locked_in: contributed in a finalized month of the same period.
LockedIn(w, m) ==
    \E n \in Months : /\ ContributionPeriodStart(m) <= n /\ n < m
                      /\ IsFinalized(n) /\ w \in run[n].esi
Contributing(m) ==
    {w \in Workers : EsiShare(GrossWith(w, LedgerOf(m)), EsiCeiling, EsiRate, LockedIn(w, m)) > 0}

BeginCompute(t, m) ==
    /\ ~IsFinalized(m)
    /\ Start(t, [op |-> "compute", month |-> m, claims |-> LedgerOf(m), esi |-> Contributing(m)])
    /\ UNCHANGED <<run, claim, ledger, deployed, invoice>>

\* The payslips are replaced, whatever has become of the run.
CommitCompute(t) ==
    LET m == req[t].month IN
    /\ req[t].op = "compute"
    /\ run' = [run EXCEPT ![m] =
          [status |-> IF IsFinalized(m) THEN "finalized" ELSE "draft",
           claims |-> req[t].claims, esi |-> req[t].esi]]
    /\ Finish(t)
    /\ UNCHANGED <<claim, ledger, deployed, invoice>>

BeginFinalize(t, m) ==
    /\ run[m].status = "draft"
    /\ Start(t, [op |-> "finalize", month |-> m])
    /\ UNCHANGED <<run, claim, ledger, deployed, invoice>>

CommitFinalize(t) ==
    LET m == req[t].month IN
    /\ req[t].op = "finalize"
    /\ run' = [run EXCEPT ![m] = [status |-> "finalized", claims |-> run[m].claims, esi |-> run[m].esi]]
    /\ Finish(t)
    /\ UNCHANGED <<claim, ledger, deployed, invoice>>

(***************************************************************************)
(* Corrections.                                                            *)
(***************************************************************************)
\* create_adjustment.  The code is the source month unless one is given.
Raise(a, w, source, target, kind, code) ==
    /\ ~Raised(a)
    /\ ValidPeriods(source, target)
    /\ code \in {source} \cup Codes
    /\ claim' = [claim EXCEPT ![a] =
          [worker |-> w, source |-> source, target |-> target, kind |-> kind, code |-> code,
           approved |-> FALSE, cancelled |-> FALSE]]
    /\ UNCHANGED <<run, ledger, deployed, invoice, req>>

Slot(a) == <<claim[a].worker, claim[a].target, claim[a].code>>

\* approve_adjustment checks the months again.
BeginApprove(t, a) ==
    /\ Raised(a) /\ ~claim[a].cancelled /\ ~claim[a].approved
    /\ ValidPeriods(claim[a].source, claim[a].target)
    /\ Start(t, [op |-> "approve", claim |-> a])
    /\ UNCHANGED <<run, claim, ledger, deployed, invoice>>

\* uq_payroll_input_slot refuses a second row of one code, whoever raised it.
CommitApprove(t) ==
    LET a == req[t].claim IN
    /\ req[t].op = "approve"
    /\ \A b \in ledger : Slot(b) # Slot(a)
    /\ ledger' = ledger \cup {a}
    /\ claim' = [claim EXCEPT ![a] = ClaimAs(a, TRUE, claim[a].cancelled)]
    /\ Finish(t)
    /\ UNCHANGED <<run, deployed, invoice>>

BeginCancel(t, a) ==
    /\ Raised(a) /\ ~claim[a].cancelled
    /\ claim[a].approved => ~IsFinalized(claim[a].target)
    /\ Start(t, [op |-> "cancel", claim |-> a, approved |-> claim[a].approved])
    /\ UNCHANGED <<run, claim, ledger, deployed, invoice>>

\* Mutant: the correction is withdrawn, not its line.
MutWithdrawn(r) == ledger
Withdrawn(r) == IF r.approved THEN ledger \ {r.claim} ELSE ledger

CommitCancel(t) ==
    LET r == req[t] IN
    /\ r.op = "cancel"
    /\ ledger' = Withdrawn(r)
    /\ claim' = [claim EXCEPT ![r.claim] = ClaimAs(r.claim, claim[r.claim].approved, TRUE)]
    /\ Finish(t)
    /\ UNCHANGED <<run, deployed, invoice>>

(***************************************************************************)
(* Invoices, one for a month.                                              *)
(***************************************************************************)
Known(m) == invoice[m] # NoInvoice

\* Mutant: what was agreed can be replaced.
MutOpenInvoice(m) == TRUE
OpenInvoice(m) == Known(m) => ~invoice[m].agreed

BeginRecord(t, m, amount) ==
    /\ OpenInvoice(m)
    /\ Start(t, [op |-> "record", month |-> m, amount |-> amount, known |-> Known(m)])
    /\ UNCHANGED <<run, claim, ledger, deployed, invoice>>

\* uq_contractor_invoice_period refuses a second one.
CommitRecord(t) ==
    LET r == req[t] IN
    /\ r.op = "record"
    /\ r.known \/ ~Known(r.month)
    /\ invoice' = [invoice EXCEPT ![r.month] =
          IF r.known
          THEN [amount |-> r.amount, status |-> invoice[r.month].status,
                agreed |-> invoice[r.month].agreed]
          ELSE [amount |-> r.amount, status |-> "received", agreed |-> FALSE]]
    /\ Finish(t)
    /\ UNCHANGED <<run, claim, ledger, deployed>>

Agrees(m) == invoice[m].amount = Computed(m)

BeginAgree(t, m) ==
    /\ Known(m) /\ ~invoice[m].agreed
    /\ Agrees(m)
    /\ Start(t, [op |-> "agree", month |-> m])
    /\ UNCHANGED <<run, claim, ledger, deployed, invoice>>

BeginDispute(t, m) ==
    /\ Known(m) /\ ~invoice[m].agreed
    /\ Start(t, [op |-> "dispute", month |-> m])
    /\ UNCHANGED <<run, claim, ledger, deployed, invoice>>

Stamped(row, op) ==
    [amount |-> row.amount, status |-> IF op = "agree" THEN "approved" ELSE "disputed",
     agreed |-> row.agreed \/ op = "agree"]

CommitStamp(t) ==
    /\ req[t].op \in {"agree", "dispute"}
    /\ invoice' = [invoice EXCEPT ![req[t].month] = Stamped(@, req[t].op)]
    /\ Finish(t)
    /\ UNCHANGED <<run, claim, ledger, deployed>>

\* update_employee: a worker moves to the contractor, or away.
Redeploy(w) ==
    /\ deployed' = IF w \in deployed THEN deployed \ {w} ELSE deployed \cup {w}
    /\ UNCHANGED <<run, claim, ledger, invoice, req>>

Rollback(t) ==
    /\ req[t] # Idle
    /\ Finish(t)
    /\ UNCHANGED <<run, claim, ledger, deployed, invoice>>

Pay(t) ==
    \/ \E m \in Months : BeginCompute(t, m) \/ BeginFinalize(t, m)
    \/ CommitCompute(t)
    \/ CommitFinalize(t)

Correct(t) ==
    \/ \E a \in Claims : BeginApprove(t, a) \/ BeginCancel(t, a)
    \/ CommitApprove(t)
    \/ CommitCancel(t)

Bill(t) ==
    \/ \E m \in Billed, amount \in Figures : BeginRecord(t, m, amount)
    \/ \E m \in Billed : BeginAgree(t, m) \/ BeginDispute(t, m)
    \/ CommitRecord(t)
    \/ CommitStamp(t)

World ==
    \/ \E a \in Claims, w \in Workers, source, target \in Months, kind \in Kinds :
          \E code \in {source} \cup Codes : Raise(a, w, source, target, kind, code)
    \/ \E w \in Workers : Redeploy(w)

Next ==
    \/ \E t \in Requests : Pay(t) \/ Correct(t) \/ Bill(t) \/ Rollback(t)
    \/ World

Spec == Init /\ [][Next]_vars

-----------------------------------------------------------------------------
\* "Cancelling an approved adjustment removes the ledger row too - leaving the
\* input behind would keep paying a correction somebody has retracted": what
\* the ledger holds is what is approved and not withdrawn, after any sequence
\* of requests one after another.
LedgerMatchesClaims ==
    \A a \in Claims :
        a \in ledger <=> (Raised(a) /\ (Raised(a) => claim[a].approved /\ ~claim[a].cancelled))

\* A closed month is history: nothing is put into it or taken out, neither of
\* its payslips nor of its ledger, by approving or cancelling late.
ClosedMonthStands ==
    [][\A m \in Months : IsFinalized(m) =>
          run'[m] = run[m] /\ LedgerOf(m)' = LedgerOf(m)]_vars

\* "Approving past a variance would make the check decorative": an invoice
\* agreed for a closed month that matches the payslips goes on matching them,
\* unless workers move.
AgreedGoesOnMatching ==
    [][\A m \in Billed :
          (IsFinalized(m) /\ Known(m) /\ deployed' = deployed) =>
             (invoice[m].agreed =>
                (invoice[m].amount = Computed(m) => invoice'[m].amount = Computed(m)'))]_vars

\* "Someone who crosses the wage ceiling mid-period keeps contributing until
\* that period ends", and nobody else above it starts: what a computation says
\* of a worker follows from the periods April to September and October to March,
\* and the closed months before it.
SamePeriod(m, n) == (m - 3) \div 6 = (n - 3) \div 6
EsiFollowsPeriods ==
    [][\A m \in Months, w \in Workers : run'[m].claims # run[m].claims \/ run'[m].esi # run[m].esi =>
          (w \in run'[m].esi <=>
              \/ Gross(m, w)' <= EsiCeiling
              \/ \E n \in Months : n < m /\ SamePeriod(m, n) /\ IsFinalized(n) /\ w \in run[n].esi)]_vars

\* "Deriving it by subtraction is what keeps employee-share and employer-share
\* reconciling to the same 12% total instead of drifting a rupee apart": of each
\* payslip, whatever the salary and the corrections come to, with the pension or
\* without, on a wage that allowances cannot shrink below half of the pay nor
\* anything raise above it.
Half == Scale \div 2
SharesReconcile ==
    \A m \in Months, w \in Workers : run[m].status # "none" =>
        \A amount \in Amounts, age \in {Unknown, EpfRule.maxAge} :
            LET wages    == amount * Salary
                excluded == amount * (Gross(m, w) - Salary)
                wage     == StatutoryWage(wages, excluded, Half)
                pf       == ProvidentFund(wage, PfCeiling, EpfRule, FALSE,
                                EpsEligible(EpfRule, wage, PfCeiling, age, Unknown))
            IN /\ pf.employee = pf.epf + pf.eps
               /\ pf.epf >= 0
               /\ wages <= wage /\ wage <= wages + excluded
               /\ wages + excluded <= 2 * wage

==============================================================================
