-------------------------- MODULE SettlementProofs ---------------------------
(***************************************************************************)
(* Theorems about Settlement, for every set of months, workers, claims and *)
(* amounts.  TypeCorrect and SharesReconcileHolds are about any number of  *)
(* requests in flight, the others about requests served in turn: with two  *)
(* in flight an approval can follow a cancellation or a finalization.      *)
(***************************************************************************)
EXTENDS Settlement, FiniteSetTheorems, TLAPS

(***************************************************************************)
(* The rows and the requests.                                              *)
(***************************************************************************)
LEMMA RequestKinds ==
    ASSUME NEW r \in Request
    PROVE  /\ r.op = "compute" => r.month \in Months /\ r.claims \in SUBSET Claims
                                  /\ r.esi \in SUBSET Workers
           /\ r.op = "finalize" => r.month \in Months
           /\ r.op = "approve" => r.claim \in Claims
           /\ r.op = "cancel" => r.claim \in Claims /\ r.approved \in BOOLEAN
           /\ r.op = "record" => /\ r.month \in Billed /\ r.amount \in Figures
                                 /\ r.known \in BOOLEAN
           /\ r.op \in {"agree", "dispute"} => r.month \in Billed
BY DEF Request, Idle

LEMMA ClaimRow ==
    ASSUME TypeOK, NEW a \in Claims, Raised(a), NEW approved \in BOOLEAN, NEW cancelled \in BOOLEAN
    PROVE  /\ claim[a] \in Claim
           /\ ClaimAs(a, approved, cancelled) \in Claim
           /\ ClaimAs(a, approved, cancelled).target = claim[a].target
           /\ ClaimAs(a, approved, cancelled).approved = approved
           /\ ClaimAs(a, approved, cancelled).cancelled = cancelled
<1>1. claim[a] \in Claim BY DEF TypeOK, Raised
<1> QED BY <1>1 DEF ClaimAs, Claim

LEMMA ClaimRowIsNot == ASSUME NEW row \in Claim PROVE row # NoClaim
<1>1. "source" \in DOMAIN row BY DEF Claim
<1>2. "source" \notin DOMAIN NoClaim BY DEF NoClaim
<1> QED BY <1>1, <1>2

LEMMA InvoiceRowIsNot == ASSUME NEW row \in Invoice PROVE row # NoInvoice
BY DEF Invoice, NoInvoice

LEMMA FinishType ==
    ASSUME TypeOK, NEW t \in Requests, Finish(t)
    PROVE  req' \in [Requests -> Request] /\ req'[t] = Idle
BY DEF TypeOK, Finish, Request

(***************************************************************************)
(* What a request in flight refers to is there, whatever else is.          *)
(***************************************************************************)
Refers(r) ==
    /\ r.op \in {"approve", "cancel"} => Raised(r.claim)
    /\ r.op = "record" /\ r.known => Known(r.month)
    /\ r.op \in {"agree", "dispute"} => Known(r.month)

IInv == TypeOK /\ \A t \in Requests : Refers(req[t])

LEMMA InitIInv == Init => IInv
BY SettlementAssumption DEF Init, IInv, TypeOK, Request, Idle, Run, Refers

\* Each request is one that began here, is as it was, or has ended; and no row
\* that was there is gone.
LEMMA GrowKeeps ==
    ASSUME IInv, TypeOK',
           \A a \in Claims : Raised(a) => Raised(a)',
           \A m \in Billed : Known(m) => Known(m)',
           \A t \in Requests : req'[t] = req[t] \/ Refers(req[t])'
    PROVE  IInv'
<1>1. ASSUME NEW t \in Requests, req'[t] = req[t] PROVE Refers(req[t])'
  <2>1. req[t] \in Request /\ Refers(req[t]) BY DEF IInv, TypeOK
  <2> QED BY <1>1, <2>1, RequestKinds DEF Refers
<1> QED BY <1>1 DEF IInv

LEMMA BeginKeeps ==
    ASSUME IInv, NEW t \in Requests, NEW request \in Request, Refers(request),
           req' = [req EXCEPT ![t] = request], UNCHANGED <<run, claim, ledger, deployed, invoice>>
    PROVE  IInv'
<1>1. TypeOK' BY DEF IInv, TypeOK
<1>2. Refers(req[t])' BY DEF IInv, TypeOK, Refers, Raised, Known
<1>3. \A u \in Requests : req'[u] = req[u] \/ u = t BY DEF IInv, TypeOK
<1> QED BY <1>1, <1>2, <1>3, GrowKeeps DEF Raised, Known, Refers

LEMMA EndKeeps ==
    ASSUME IInv, TypeOK', NEW t \in Requests, Finish(t),
           \A a \in Claims : Raised(a) => Raised(a)',
           \A m \in Billed : Known(m) => Known(m)'
    PROVE  IInv'
<1>1. \A u \in Requests : req'[u] = req[u] \/ req'[u] = Idle BY DEF IInv, TypeOK, Finish
<1>2. \A u \in Requests : req'[u] = Idle => Refers(req[u])' BY DEF Refers, Idle
<1> QED BY <1>1, <1>2, GrowKeeps

LEMMA PayKeeps == ASSUME IInv, NEW t \in Requests, Pay(t) PROVE IInv'
<1> USE DEF IInv
<1>1. ASSUME NEW m \in Months, BeginCompute(t, m) PROVE IInv'
  <2> DEFINE request == [op |-> "compute", month |-> m, claims |-> LedgerOf(m),
                         esi |-> Contributing(m)]
  <2>1. LedgerOf(m) \in SUBSET Claims /\ Contributing(m) \in SUBSET Workers
    BY DEF LedgerOf, Contributing, TypeOK
  <2>2. request \in Request BY <2>1 DEF Request
  <2>3. Refers(request) BY DEF Refers
  <2>4. req' = [req EXCEPT ![t] = request] BY <1>1 DEF BeginCompute, Start
  <2> HIDE DEF request
  <2> QED BY <1>1, <2>2, <2>3, <2>4, BeginKeeps DEF BeginCompute
<1>2. ASSUME NEW m \in Months, BeginFinalize(t, m) PROVE IInv'
  <2> DEFINE request == [op |-> "finalize", month |-> m]
  <2>1. request \in Request BY DEF Request
  <2>2. Refers(request) BY DEF Refers
  <2> QED BY <1>2, <2>1, <2>2, BeginKeeps DEF BeginFinalize, Start
<1>3. CASE CommitCompute(t)
  <2> DEFINE m == req[t].month
             row == [status |-> IF IsFinalized(m) THEN "finalized" ELSE "draft",
                     claims |-> req[t].claims, esi |-> req[t].esi]
  <2>1. /\ m \in Months /\ req[t].claims \in SUBSET Claims /\ req[t].esi \in SUBSET Workers
    BY <1>3, RequestKinds DEF CommitCompute, TypeOK
  <2>2. row \in Run BY <2>1 DEF Run
  <2>3. run' = [run EXCEPT ![m] = row] BY <1>3 DEF CommitCompute
  <2> HIDE DEF row
  <2>4. TypeOK' BY <1>3, <2>1, <2>2, <2>3, FinishType DEF CommitCompute, TypeOK
  <2> QED BY <1>3, <2>4, EndKeeps DEF CommitCompute, Raised, Known
<1>4. CASE CommitFinalize(t)
  <2> DEFINE m == req[t].month
             row == [status |-> "finalized", claims |-> run[m].claims, esi |-> run[m].esi]
  <2>1. m \in Months BY <1>4, RequestKinds DEF CommitFinalize, TypeOK
  <2>2. run[m] \in Run BY <2>1 DEF TypeOK
  <2>3. row \in Run BY <2>2 DEF Run
  <2>4. run' = [run EXCEPT ![m] = row] BY <1>4 DEF CommitFinalize
  <2> HIDE DEF row
  <2>5. TypeOK' BY <1>4, <2>3, <2>4, FinishType DEF CommitFinalize, TypeOK
  <2> QED BY <1>4, <2>5, EndKeeps DEF CommitFinalize, Raised, Known
<1> QED BY <1>1, <1>2, <1>3, <1>4 DEF Pay

LEMMA CorrectKeeps == ASSUME IInv, NEW t \in Requests, Correct(t) PROVE IInv'
<1> USE DEF IInv
<1>1. ASSUME NEW a \in Claims, BeginApprove(t, a) PROVE IInv'
  <2> DEFINE request == [op |-> "approve", claim |-> a]
  <2>1. request \in Request BY DEF Request
  <2>2. Refers(request) BY <1>1 DEF Refers, BeginApprove
  <2> QED BY <1>1, <2>1, <2>2, BeginKeeps DEF BeginApprove, Start
<1>2. ASSUME NEW a \in Claims, BeginCancel(t, a) PROVE IInv'
  <2> DEFINE request == [op |-> "cancel", claim |-> a, approved |-> claim[a].approved]
  <2>1. claim[a] \in Claim BY <1>2 DEF BeginCancel, Raised, TypeOK
  <2>2. request \in Request BY <2>1 DEF Request, Claim
  <2>3. Refers(request) BY <1>2 DEF Refers, BeginCancel
  <2> QED BY <1>2, <2>2, <2>3, BeginKeeps DEF BeginCancel, Start
<1>3. ASSUME NEW a \in Claims, NEW approved \in BOOLEAN, NEW cancelled \in BOOLEAN, Raised(a),
             Finish(t), claim' = [claim EXCEPT ![a] = ClaimAs(a, approved, cancelled)],
             ledger' \in SUBSET Claims, UNCHANGED <<run, deployed, invoice>>
      PROVE  IInv'
  <2> DEFINE row == ClaimAs(a, approved, cancelled)
  <2>1. row \in Claim /\ row # NoClaim BY <1>3, ClaimRow, ClaimRowIsNot
  <2> HIDE DEF row
  <2>2. claim' = [claim EXCEPT ![a] = row] BY <1>3 DEF row
  <2>3. TypeOK' BY <1>3, <2>1, <2>2, FinishType DEF TypeOK
  <2>4. \A b \in Claims : Raised(b) => Raised(b)' BY <2>1, <2>2 DEF TypeOK, Raised
  <2> QED BY <1>3, <2>3, <2>4, EndKeeps DEF Known
<1>4. CASE CommitApprove(t)
  <2> DEFINE a == req[t].claim
  <2>1. a \in Claims /\ Raised(a) BY <1>4, RequestKinds DEF CommitApprove, TypeOK, Refers
  <2>2. claim[a].cancelled \in BOOLEAN BY <2>1 DEF Raised, TypeOK, Claim
  <2>3. ledger' \in SUBSET Claims BY <1>4, <2>1 DEF CommitApprove, TypeOK
  <2> QED BY <1>3, <1>4, <2>1, <2>2, <2>3 DEF CommitApprove
<1>5. CASE CommitCancel(t)
  <2> DEFINE a == req[t].claim
  <2>1. a \in Claims /\ Raised(a) BY <1>5, RequestKinds DEF CommitCancel, TypeOK, Refers
  <2>2. claim[a].approved \in BOOLEAN BY <2>1 DEF Raised, TypeOK, Claim
  <2>3. ledger' \in SUBSET Claims BY <1>5, <2>1 DEF CommitCancel, Withdrawn, TypeOK
  <2> QED BY <1>3, <1>5, <2>1, <2>2, <2>3 DEF CommitCancel
<1> QED BY <1>1, <1>2, <1>4, <1>5 DEF Correct

LEMMA BillKeeps == ASSUME IInv, NEW t \in Requests, Bill(t) PROVE IInv'
<1> USE DEF IInv
<1>1. ASSUME NEW m \in Billed, NEW amount \in Figures, BeginRecord(t, m, amount) PROVE IInv'
  <2> DEFINE request == [op |-> "record", month |-> m, amount |-> amount, known |-> Known(m)]
  <2>1. Known(m) \in BOOLEAN BY DEF Known
  <2>2. request \in Request BY <2>1 DEF Request
  <2>3. Refers(request) BY DEF Refers
  <2>4. req' = [req EXCEPT ![t] = request] BY <1>1 DEF BeginRecord, Start
  <2> HIDE DEF request
  <2> QED BY <1>1, <2>2, <2>3, <2>4, BeginKeeps DEF BeginRecord
<1>2. ASSUME NEW m \in Billed, NEW op \in {"agree", "dispute"}, Known(m),
             Start(t, [op |-> op, month |-> m]), UNCHANGED <<run, claim, ledger, deployed, invoice>>
      PROVE  IInv'
  <2>1. [op |-> op, month |-> m] \in Request BY DEF Request
  <2>2. Refers([op |-> op, month |-> m]) BY <1>2 DEF Refers
  <2> QED BY <1>2, <2>1, <2>2, BeginKeeps DEF Start
<1>3. ASSUME NEW m \in Billed, BeginAgree(t, m) \/ BeginDispute(t, m) PROVE IInv'
  BY <1>2, <1>3 DEF BeginAgree, BeginDispute
<1>4. ASSUME NEW m \in Billed, NEW row \in Invoice, invoice' = [invoice EXCEPT ![m] = row],
             Finish(t), UNCHANGED <<run, claim, ledger, deployed>>
      PROVE  IInv'
  <2>1. TypeOK' BY <1>4, FinishType DEF TypeOK
  <2>2. \A n \in Billed : Known(n) => Known(n)' BY <1>4, InvoiceRowIsNot DEF TypeOK, Known
  <2> QED BY <1>4, <2>1, <2>2, EndKeeps DEF Raised
<1>5. CASE CommitRecord(t)
  <2> DEFINE r == req[t]
             row == IF r.known
                    THEN [amount |-> r.amount, status |-> invoice[r.month].status,
                          agreed |-> invoice[r.month].agreed]
                    ELSE [amount |-> r.amount, status |-> "received", agreed |-> FALSE]
  <2>1. r.month \in Billed /\ r.amount \in Figures /\ r.known \in BOOLEAN
    BY <1>5, RequestKinds DEF CommitRecord, TypeOK
  <2>2. r.known => Known(r.month) BY <1>5 DEF CommitRecord, Refers
  <2>3. r.known => invoice[r.month] \in Invoice BY <2>1, <2>2 DEF Known, TypeOK
  <2>4. row \in Invoice BY <2>1, <2>3 DEF Invoice
  <2>5. invoice' = [invoice EXCEPT ![r.month] = row] BY <1>5 DEF CommitRecord
  <2> HIDE DEF row
  <2> QED BY <1>4, <1>5, <2>1, <2>4, <2>5 DEF CommitRecord
<1>6. CASE CommitStamp(t)
  <2> DEFINE m == req[t].month
             row == Stamped(invoice[m], req[t].op)
  <2>1. m \in Billed /\ Known(m) BY <1>6, RequestKinds DEF CommitStamp, TypeOK, Refers
  <2>2. invoice[m] \in Invoice BY <2>1 DEF Known, TypeOK
  <2>3. row \in Invoice BY <2>2 DEF Stamped, Invoice
  <2>4. invoice' = [invoice EXCEPT ![m] = row] BY <1>6 DEF CommitStamp
  <2> HIDE DEF row
  <2> QED BY <1>4, <1>6, <2>1, <2>3, <2>4 DEF CommitStamp
<1> QED BY <1>1, <1>3, <1>5, <1>6 DEF Bill

LEMMA RaiseKeeps ==
    ASSUME IInv, NEW a \in Claims, NEW w \in Workers, NEW source \in Months,
           NEW target \in Months, NEW kind \in Kinds, NEW code \in {source} \cup Codes,
           Raise(a, w, source, target, kind, code)
    PROVE  IInv'
<1> DEFINE row == [worker |-> w, source |-> source, target |-> target, kind |-> kind,
                   code |-> code, approved |-> FALSE, cancelled |-> FALSE]
<1>1. row \in Claim BY DEF Claim
<1>2. claim' = [claim EXCEPT ![a] = row] BY DEF Raise
<1>3. row # NoClaim BY <1>1, ClaimRowIsNot
<1> HIDE DEF row
<1>4. TypeOK' BY <1>1, <1>2 DEF IInv, TypeOK, Raise
<1>5. \A b \in Claims : Raised(b) => Raised(b)' BY <1>2, <1>3 DEF IInv, TypeOK, Raised
<1> QED BY <1>4, <1>5, GrowKeeps DEF Raise, Known

LEMMA WorldKeeps == ASSUME IInv, World PROVE IInv'
<1>1. ASSUME NEW w \in Workers, Redeploy(w) PROVE IInv'
  <2>1. TypeOK' BY <1>1 DEF IInv, TypeOK, Redeploy
  <2> QED BY <1>1, <2>1, GrowKeeps DEF Redeploy, Raised, Known
<1> QED BY <1>1, RaiseKeeps DEF World

LEMMA NextKeeps == IInv /\ [Next]_vars => IInv'
<1> SUFFICES ASSUME IInv, [Next]_vars PROVE IInv' OBVIOUS
<1>1. CASE UNCHANGED vars
  BY <1>1 DEF vars, IInv, TypeOK, Refers, Raised, Known
<1>2. ASSUME NEW t \in Requests, Rollback(t) PROVE IInv'
  <2>1. TypeOK' BY <1>2, FinishType DEF IInv, TypeOK, Rollback
  <2> QED BY <1>2, <2>1, EndKeeps DEF Rollback, Raised, Known
<1> QED BY <1>1, <1>2, PayKeeps, CorrectKeeps, BillKeeps, WorldKeeps DEF Next

LEMMA Invariance == Spec => []IInv
BY InitIInv, NextKeeps, PTL DEF Spec

\* Every run, correction, invoice and request is one the handlers know.
THEOREM TypeCorrect == Spec => []TypeOK
<1>1. IInv => TypeOK BY DEF IInv
<1> QED BY <1>1, Invariance, PTL

-----------------------------------------------------------------------------
(***************************************************************************)
(* What the law takes.                                                     *)
(***************************************************************************)
LEMMA ProductType == ASSUME NEW a \in Nat, NEW b \in Nat PROVE a * b \in Nat
OBVIOUS

LEMMA ProductGrows ==
    ASSUME NEW a \in Nat, NEW b \in Nat, NEW c \in Nat, NEW d \in Nat, a <= c, b <= d
    PROVE  a * b <= c * d
<1>1. PICK k \in Nat : c = a + k OBVIOUS
<1>2. PICK l \in Nat : d = b + l OBVIOUS
<1>3. c * d = a * b + (a * l + k * b + k * l) BY <1>1, <1>2
<1>4. a * l \in Nat /\ k * b \in Nat /\ k * l \in Nat /\ a * b \in Nat BY ProductType
<1> QED BY <1>3, <1>4

\* Rounding to the rupee keeps the order.
LEMMA RupeesGrow ==
    ASSUME NEW a \in Nat, NEW b \in Nat, a <= b
    PROVE  Rupees(a) \in Nat /\ Rupees(b) \in Nat /\ Rupees(a) <= Rupees(b)
BY DEF Rupees, Rupee, Scale

\* The excess is added back, and never more than what was excluded.
LEMMA WageBounds ==
    ASSUME NEW wages \in Nat, NEW excluded \in Nat
    PROVE  LET wage == StatutoryWage(wages, excluded, Half) IN
           /\ wage \in Nat
           /\ wages <= wage /\ wage <= wages + excluded
           /\ wages + excluded <= 2 * wage
<1>1. Half = 5000 BY DEF Half, Scale
<1> DEFINE excess == excluded * 10000 - (wages + excluded) * 5000
<1>2. StatutoryWage(wages, excluded, Half)
        = wages + IF excess > 0 THEN (2 * excess + 10000) \div 20000 ELSE 0
  BY <1>1 DEF StatutoryWage, NoCap, Scale, Paise
<1>3. CASE excluded <= wages BY <1>2, <1>3
<1>4. CASE excluded > wages
  <2>1. PICK k \in Nat : excluded = wages + k /\ k > 0 BY <1>4
  <2>2. 2 * excess + 10000 = 10000 * (k + 1) BY <2>1
  <2>3. excess > 0 BY <2>1
  <2>4. PICK h \in Nat : (10000 * (k + 1)) \div 20000 = h /\ k <= 2 * h /\ 2 * h <= k + 1
    BY <2>1
  <2>5. StatutoryWage(wages, excluded, Half) = wages + h BY <1>2, <2>2, <2>3, <2>4
  <2>6. h <= k BY <2>1, <2>4
  <2> QED BY <2>1, <2>4, <2>5, <2>6
<1> QED BY <1>3, <1>4

\* The law asks the same of both, and the pension is a part of the employer's.
FairRule ==
    /\ EpfRule.employee = EpfRule.employer
    /\ {EpfRule.employer, EpfRule.pension, EpfRule.pensionCap, PfCeiling} \subseteq Nat
    /\ EpfRule.pension <= EpfRule.employer

LEMMA FundReconciles ==
    ASSUME FairRule, NEW wage \in Nat, NEW eligible \in BOOLEAN
    PROVE  LET pf == ProvidentFund(wage, PfCeiling, EpfRule, FALSE, eligible) IN
           pf.employee = pf.epf + pf.eps /\ pf.epf >= 0
<1> DEFINE base    == LesserOf(wage, PfCeiling)
           share   == Rupees(base * EpfRule.employer)
           insured == LesserOf(base, EpfRule.pensionCap)
           pension == Rupees(insured * EpfRule.pension)
<1>1. base \in Nat /\ insured \in Nat /\ insured <= base BY DEF LesserOf, FairRule
<1>2. share \in Nat /\ pension \in Nat /\ pension <= share
  <2> HIDE DEF base, insured
  <2>1. insured * EpfRule.pension <= base * EpfRule.employer
        /\ insured * EpfRule.pension \in Nat /\ base * EpfRule.employer \in Nat
    BY <1>1, ProductGrows, ProductType DEF FairRule
  <2> QED BY <2>1, RupeesGrow
<1>3. EpfRule.employee = EpfRule.employer BY DEF FairRule
<1> QED BY <1>1, <1>2, <1>3 DEF ProvidentFund, EmployerEpf

\* Of every payslip, of whatever salary, corrections and age, the shares come to
\* the same, nobody's is negative, and the wage they are reckoned on is at least
\* half of the pay.
THEOREM SharesReconcileHolds ==
    ASSUME FairRule
    PROVE  Spec => []SharesReconcile
<1>1. ASSUME IInv PROVE SharesReconcile
  <2>1. SUFFICES ASSUME NEW m \in Months, NEW w \in Workers, run[m].status # "none",
                        NEW amount \in Amounts, NEW age \in {Unknown, EpfRule.maxAge}
                 PROVE  LET wages    == amount * Salary
                            excluded == amount * (Gross(m, w) - Salary)
                            wage     == StatutoryWage(wages, excluded, Half)
                            pf       == ProvidentFund(wage, PfCeiling, EpfRule, FALSE,
                                            EpsEligible(EpfRule, wage, PfCeiling, age, Unknown))
                        IN /\ pf.employee = pf.epf + pf.eps
                           /\ pf.epf >= 0
                           /\ wages <= wage /\ wage <= wages + excluded
                           /\ wages + excluded <= 2 * wage
    BY DEF SharesReconcile
  <2> DEFINE arrears  == {a \in run[m].claims : claim[a].worker = w /\ claim[a].kind = "arrear"}
             wages    == amount * Salary
             excluded == amount * (Gross(m, w) - Salary)
             wage     == StatutoryWage(wages, excluded, Half)
             eligible == EpsEligible(EpfRule, wage, PfCeiling, age, Unknown)
  <2>2. Cardinality(arrears) \in Nat
    <3>1. arrears \in SUBSET Claims BY <1>1 DEF IInv, TypeOK, Run
    <3> QED BY <3>1, FS_Subset, FS_CardinalityType, SettlementAssumption
  <2>3. Gross(m, w) = Salary + Cardinality(arrears) BY <2>1 DEF Gross, GrossWith
  <2>4. Salary \in Nat /\ amount \in Nat BY SettlementAssumption
  <2>5. Gross(m, w) - Salary = Cardinality(arrears) BY <2>2, <2>3, <2>4
  <2>6. wages \in Nat /\ excluded \in Nat BY <2>2, <2>4, <2>5, ProductType
  <2>7. eligible \in BOOLEAN BY DEF EpsEligible
  <2> HIDE DEF wages, excluded, eligible
  <2>8. /\ wage \in Nat
        /\ wages <= wage /\ wage <= wages + excluded /\ wages + excluded <= 2 * wage
    BY <2>6, WageBounds
  <2> HIDE DEF wage
  <2>9. LET pf == ProvidentFund(wage, PfCeiling, EpfRule, FALSE, eligible) IN
        pf.employee = pf.epf + pf.eps /\ pf.epf >= 0
    BY <2>7, <2>8, FundReconciles DEF ProvidentFund
  <2> QED BY <2>8, <2>9 DEF wages, excluded, wage, eligible
<1> QED BY <1>1, Invariance, PTL

-----------------------------------------------------------------------------
(***************************************************************************)
(* Requests served in turn: what a handler decided on still holds when it  *)
(* commits, since in between only corrections are raised and workers move. *)
(***************************************************************************)
Fresh(r) ==
    /\ r.op = "compute" => /\ ~IsFinalized(r.month)
                           /\ r.claims = LedgerOf(r.month)
                           /\ r.esi = Contributing(r.month)
    /\ r.op = "finalize" => run[r.month].status = "draft"
    /\ r.op = "approve" => /\ ~claim[r.claim].cancelled /\ ~claim[r.claim].approved
                           /\ ~IsFinalized(claim[r.claim].target)
    /\ r.op = "cancel" => /\ ~claim[r.claim].cancelled
                          /\ r.approved = claim[r.claim].approved
                          /\ r.approved => ~IsFinalized(claim[r.claim].target)

SerialInv == IInv /\ LedgerMatchesClaims /\ \A t \in Requests : Fresh(req[t])

\* A step that leaves the months and the ledger as they are, and the claims
\* that were raised, leaves the ledger matching, and a request fresh.
LEMMA QuietKeeps ==
    ASSUME SerialInv, IInv', UNCHANGED <<run, ledger>>,
           \A a \in Claims : Raised(a) => claim'[a] = claim[a],
           \A a \in Claims : ~Raised(a) /\ Raised(a)' => ~claim'[a].approved,
           \A t \in Requests : req'[t] = req[t] \/ req'[t] = Idle
                                  \/ (Fresh(req'[t]) /\ UNCHANGED <<claim, invoice>>)
    PROVE  SerialInv'
<1> USE DEF SerialInv
<1>1. ledger \subseteq Claims /\ \A a \in ledger : Raised(a) BY DEF IInv, TypeOK, LedgerMatchesClaims
<1>2. LedgerMatchesClaims'
  <2>1. ASSUME NEW a \in Claims
        PROVE  a \in ledger <=> (Raised(a) /\ (Raised(a) => claim[a].approved /\ ~claim[a].cancelled))'
    <3>1. CASE Raised(a) BY <3>1 DEF LedgerMatchesClaims, Raised
    <3>2. CASE ~Raised(a) BY <1>1, <3>2 DEF Raised
    <3> QED BY <3>1, <3>2
  <2> QED BY <2>1 DEF LedgerMatchesClaims, Raised
<1>3. \A m : LedgerOf(m)' = LedgerOf(m) BY <1>1 DEF LedgerOf
<1>4. \A w, m : GrossWith(w, LedgerOf(m))' = GrossWith(w, LedgerOf(m))
  <2>1. ASSUME NEW w, NEW m PROVE GrossWith(w, LedgerOf(m))' = GrossWith(w, LedgerOf(m))
    <3>1. \A a \in LedgerOf(m) : claim'[a] = claim[a] BY <1>1 DEF LedgerOf
    <3>2. {a \in LedgerOf(m)' : claim'[a].worker = w /\ claim'[a].kind = "arrear"}
            = {a \in LedgerOf(m) : claim[a].worker = w /\ claim[a].kind = "arrear"}
      BY <1>3, <3>1
    <3> QED BY <3>2 DEF GrossWith
  <2> QED BY <2>1
<1>5. \A w, m : LockedIn(w, m)' <=> LockedIn(w, m) BY DEF LockedIn, IsFinalized
<1>6. \A m : Contributing(m)' = Contributing(m)
  <2>1. \A w, m : EsiShare(GrossWith(w, LedgerOf(m)), EsiCeiling, EsiRate, LockedIn(w, m))'
                    = EsiShare(GrossWith(w, LedgerOf(m)), EsiCeiling, EsiRate, LockedIn(w, m))
    BY <1>4, <1>5 DEF EsiShare
  <2> QED BY <2>1 DEF Contributing
<1>7. ASSUME NEW r \in Request, Refers(r), Fresh(r) PROVE Fresh(r)'
  <2>1. r.op \in {"approve", "cancel"} => claim'[r.claim] = claim[r.claim]
    BY <1>7, RequestKinds DEF Refers
  <2> QED BY <1>3, <1>6, <1>7, <2>1 DEF Fresh, IsFinalized
<1>8. ASSUME NEW t \in Requests PROVE Fresh(req[t])'
  <2>1. CASE req'[t] = Idle BY <2>1 DEF Fresh, Idle
  <2>2. CASE req'[t] = req[t]
    <3>1. req[t] \in Request /\ Refers(req[t]) /\ Fresh(req[t]) BY DEF IInv, TypeOK
    <3> QED BY <1>7, <2>2, <3>1 DEF Fresh
  <2>3. CASE Fresh(req'[t]) /\ UNCHANGED <<claim, invoice>>
    BY <1>3, <1>6, <2>3 DEF Fresh, IsFinalized
  <2> QED BY <2>1, <2>2, <2>3
<1> QED BY <1>2, <1>8

\* The request of the one that is served, before its step and after.
LEMMA ServedRequest ==
    ASSUME IInv, NEW t \in Requests
    PROVE  /\ req[t] \in Request /\ Refers(req[t])
           /\ \A r : Start(t, r) => req'[t] = r
           /\ Finish(t) => req'[t] = Idle
BY DEF IInv, TypeOK, Start, Finish

LEMMA BeginStaysFresh ==
    ASSUME NEW t0, Requests = {t0}, SerialInv, IInv', NEW t \in Requests,
           \/ \E m \in Months : BeginCompute(t, m) \/ BeginFinalize(t, m)
           \/ \E a \in Claims : BeginApprove(t, a) \/ BeginCancel(t, a)
           \/ \E m \in Billed, amount \in Figures : BeginRecord(t, m, amount)
           \/ \E m \in Billed : BeginAgree(t, m) \/ BeginDispute(t, m)
    PROVE  SerialInv' /\ UNCHANGED <<run, claim, ledger, deployed, invoice>>
<1> USE DEF SerialInv
<1>1. UNCHANGED <<run, claim, ledger, deployed, invoice>>
  BY DEF BeginCompute, BeginFinalize, BeginApprove, BeginCancel, BeginRecord, BeginAgree,
         BeginDispute
<1>2. Fresh(req'[t])
  <2>1. ASSUME NEW m \in Months, BeginCompute(t, m) PROVE Fresh(req'[t])
    BY <2>1, ServedRequest DEF BeginCompute, Fresh
  <2>2. ASSUME NEW m \in Months, BeginFinalize(t, m) PROVE Fresh(req'[t])
    BY <2>2, ServedRequest DEF BeginFinalize, Fresh
  <2>3. ASSUME NEW a \in Claims, BeginApprove(t, a) PROVE Fresh(req'[t])
    BY <2>3, ServedRequest DEF BeginApprove, Fresh, ValidPeriods
  <2>4. ASSUME NEW a \in Claims, BeginCancel(t, a) PROVE Fresh(req'[t])
    BY <2>4, ServedRequest DEF BeginCancel, Fresh
  <2>5. ASSUME NEW m \in Billed, NEW amount \in Figures, BeginRecord(t, m, amount)
        PROVE  Fresh(req'[t])
    BY <2>5, ServedRequest DEF BeginRecord, Fresh
  <2>6. ASSUME NEW m \in Billed, BeginAgree(t, m) \/ BeginDispute(t, m) PROVE Fresh(req'[t])
    BY <2>6, ServedRequest DEF BeginAgree, BeginDispute, Fresh
  <2> QED BY <2>1, <2>2, <2>3, <2>4, <2>5, <2>6
<1>3. SerialInv' BY <1>1, <1>2, QuietKeeps DEF Raised
<1> QED BY <1>1, <1>3

\* The commits that write to the months.
LEMMA MonthStaysFresh ==
    ASSUME NEW t0, Requests = {t0}, SerialInv, IInv', NEW t \in Requests,
           CommitCompute(t) \/ CommitFinalize(t)
    PROVE  /\ SerialInv'
           /\ UNCHANGED <<claim, ledger>>
           /\ \A m \in Months : IsFinalized(m) => run'[m] = run[m]
<1> USE DEF SerialInv
<1>1. req'[t] = Idle BY ServedRequest DEF CommitCompute, CommitFinalize
<1>2. UNCHANGED <<claim, ledger>> BY DEF CommitCompute, CommitFinalize
<1>3. SerialInv' BY <1>1, <1>2 DEF LedgerMatchesClaims, Raised, Fresh, Idle
<1>4. req[t].month \in Months /\ ~IsFinalized(req[t].month)
  BY ServedRequest, RequestKinds DEF CommitCompute, CommitFinalize, Fresh, IsFinalized
<1>5. \A m \in Months : m # req[t].month => run'[m] = run[m]
  BY DEF CommitCompute, CommitFinalize, IInv, TypeOK
<1> QED BY <1>2, <1>3, <1>4, <1>5

\* The commits that write to the ledger.
LEMMA LedgerStaysFresh ==
    ASSUME NEW t0, Requests = {t0}, SerialInv, IInv', NEW t \in Requests,
           CommitApprove(t) \/ CommitCancel(t)
    PROVE  /\ SerialInv'
           /\ UNCHANGED run
           /\ \A m \in Months : IsFinalized(m) => LedgerOf(m)' = LedgerOf(m)
<1> USE DEF SerialInv
<1> DEFINE r == req[t]
           a == r.claim
<1>1. r \in Request /\ Refers(r) /\ Fresh(r) /\ r.op \in {"approve", "cancel"}
  BY ServedRequest DEF CommitApprove, CommitCancel
<1>2. a \in Claims /\ Raised(a) /\ claim[a] \in Claim
  BY <1>1, RequestKinds DEF Refers, Raised, IInv, TypeOK
<1>3. claim[a].approved \in BOOLEAN /\ claim[a].cancelled \in BOOLEAN BY <1>2 DEF Claim
<1>4. req'[t] = Idle BY ServedRequest DEF CommitApprove, CommitCancel
<1>5. /\ \A b \in Claims \ {a} : claim'[b] = claim[b]
      /\ claim'[a] # NoClaim /\ claim'[a].target = claim[a].target
      /\ CommitApprove(t) => claim'[a].approved /\ ~claim'[a].cancelled /\ ledger' = ledger \cup {a}
      /\ CommitCancel(t) => claim'[a].cancelled /\ ledger' = ledger \ {a}
  <2>1. CASE CommitApprove(t)
    <3> DEFINE row == ClaimAs(a, TRUE, claim[a].cancelled)
    <3>1. row \in Claim /\ row.target = claim[a].target /\ row.approved /\ ~row.cancelled
      BY <1>1, <1>2, <1>3, <2>1, ClaimRow DEF IInv, CommitApprove, Fresh
    <3>2. claim' = [claim EXCEPT ![a] = row] /\ ledger' = ledger \cup {a} /\ r.op = "approve"
      BY <2>1 DEF CommitApprove
    <3> HIDE DEF row
    <3>3. ~CommitCancel(t) BY <3>2 DEF CommitCancel
    <3> QED BY <1>2, <3>1, <3>2, <3>3, ClaimRowIsNot DEF IInv, TypeOK
  <2>2. CASE CommitCancel(t)
    <3> DEFINE row == ClaimAs(a, claim[a].approved, TRUE)
    <3>1. row \in Claim /\ row.target = claim[a].target /\ row.cancelled
      BY <1>2, <1>3, ClaimRow DEF IInv
    <3>2. claim' = [claim EXCEPT ![a] = row] /\ ledger' = Withdrawn(r) /\ r.op = "cancel"
      BY <2>2 DEF CommitCancel
    <3> HIDE DEF row
    <3>3. ledger' = ledger \ {a}
      BY <1>1, <1>2, <3>2 DEF Withdrawn, Fresh, LedgerMatchesClaims
    <3>4. ~CommitApprove(t) BY <3>2 DEF CommitApprove
    <3> QED BY <1>2, <3>1, <3>2, <3>3, <3>4, ClaimRowIsNot DEF IInv, TypeOK
  <2> QED BY <2>1, <2>2
<1>6. LedgerMatchesClaims'
  <2>1. ASSUME NEW b \in Claims
        PROVE  b \in ledger' <=> (claim'[b] # NoClaim /\ (claim'[b] # NoClaim =>
                                      claim'[b].approved /\ ~claim'[b].cancelled))
    <3>1. CASE b = a BY <1>5, <3>1
    <3>2. CASE b # a BY <1>5, <3>2 DEF LedgerMatchesClaims, Raised
    <3> QED BY <3>1, <3>2
  <2> QED BY <2>1 DEF LedgerMatchesClaims, Raised
<1>7. SerialInv' BY <1>4, <1>6 DEF Fresh, Idle
<1>8. ASSUME NEW m \in Months, IsFinalized(m) PROVE LedgerOf(m)' = LedgerOf(m)
  <2>1. claim[a].target = m => a \notin ledger /\ a \notin ledger'
    BY <1>1, <1>2, <1>3, <1>5, <1>8 DEF Fresh, LedgerMatchesClaims, CommitApprove, CommitCancel
  <2> QED BY <1>5, <2>1 DEF LedgerOf, IInv, TypeOK
<1> QED BY <1>7, <1>8 DEF CommitApprove, CommitCancel

\* The steps that write neither to the months nor to the ledger.
LEMMA ElseStaysFresh ==
    ASSUME NEW t0, Requests = {t0}, SerialInv, IInv',
           \/ UNCHANGED vars
           \/ \E t \in Requests : CommitRecord(t) \/ CommitStamp(t) \/ Rollback(t)
           \/ World
    PROVE  SerialInv' /\ UNCHANGED run /\ \A m \in Months : LedgerOf(m)' = LedgerOf(m)
<1> USE DEF SerialInv
<1>1. ledger \subseteq Claims /\ \A a \in ledger : Raised(a)
  BY DEF IInv, TypeOK, LedgerMatchesClaims
<1>2. ASSUME NEW a \in Claims, NEW w \in Workers, NEW source \in Months,
             NEW target \in Months, NEW kind \in Kinds, NEW code \in {source} \cup Codes,
             Raise(a, w, source, target, kind, code)
      PROVE  /\ \A b \in Claims : Raised(b) => claim'[b] = claim[b]
             /\ \A b \in Claims : ~Raised(b) /\ Raised(b)' => ~claim'[b].approved
             /\ UNCHANGED <<run, ledger, req>>
  BY <1>2 DEF Raise, Raised, IInv, TypeOK
<1>3. /\ UNCHANGED <<run, ledger>>
      /\ \A a \in Claims : Raised(a) => claim'[a] = claim[a]
      /\ \A a \in Claims : ~Raised(a) /\ Raised(a)' => ~claim'[a].approved
      /\ \A t \in Requests : req'[t] = req[t] \/ req'[t] = Idle
  <2>1. CASE UNCHANGED vars BY <2>1 DEF vars, Raised
  <2>2. ASSUME NEW t \in Requests, CommitRecord(t) \/ CommitStamp(t) \/ Rollback(t)
        PROVE  UNCHANGED <<run, ledger, claim>> /\ req'[t] = Idle
    BY <2>2, ServedRequest DEF CommitRecord, CommitStamp, Rollback
  <2>3. CASE \E t \in Requests : CommitRecord(t) \/ CommitStamp(t) \/ Rollback(t)
    BY <2>2, <2>3 DEF Raised
  <2>4. ASSUME NEW w \in Workers, Redeploy(w) PROVE UNCHANGED <<run, ledger, claim, req>>
    BY <2>4 DEF Redeploy
  <2>5. CASE World BY <1>2, <2>4, <2>5 DEF World, Raised
  <2> QED BY <2>1, <2>3, <2>5
<1>4. SerialInv'
  <2>1. \A t \in Requests : req'[t] = req[t] \/ req'[t] = Idle
                              \/ (Fresh(req'[t]) /\ UNCHANGED <<claim, invoice>>)
    BY <1>3
  <2> QED BY <1>3, <2>1, QuietKeeps
<1>5. \A m \in Months : LedgerOf(m)' = LedgerOf(m) BY <1>1, <1>3 DEF LedgerOf
<1> QED BY <1>3, <1>4, <1>5

LEMMA SerialStep ==
    ASSUME NEW t0, Requests = {t0}, SerialInv, [Next]_vars
    PROVE  /\ SerialInv'
           /\ \A m \in Months : IsFinalized(m) => run'[m] = run[m] /\ LedgerOf(m)' = LedgerOf(m)
<1> DEFINE Stands == \A m \in Months : IsFinalized(m) => run'[m] = run[m] /\ LedgerOf(m)' = LedgerOf(m)
<1>1. IInv' BY NextKeeps DEF SerialInv
<1>2. ASSUME NEW t \in Requests,
             \/ \E m \in Months : BeginCompute(t, m) \/ BeginFinalize(t, m)
             \/ \E a \in Claims : BeginApprove(t, a) \/ BeginCancel(t, a)
             \/ \E m \in Billed, amount \in Figures : BeginRecord(t, m, amount)
             \/ \E m \in Billed : BeginAgree(t, m) \/ BeginDispute(t, m)
      PROVE  SerialInv' /\ Stands
  BY <1>1, <1>2, BeginStaysFresh DEF LedgerOf
<1>3. ASSUME NEW t \in Requests, CommitCompute(t) \/ CommitFinalize(t) PROVE SerialInv' /\ Stands
  BY <1>1, <1>3, MonthStaysFresh DEF LedgerOf
<1>4. ASSUME NEW t \in Requests, CommitApprove(t) \/ CommitCancel(t) PROVE SerialInv' /\ Stands
  BY <1>1, <1>4, LedgerStaysFresh
<1>5. CASE \/ UNCHANGED vars
           \/ \E t \in Requests : CommitRecord(t) \/ CommitStamp(t) \/ Rollback(t)
           \/ World
  <2>1. SerialInv' /\ UNCHANGED run /\ \A m \in Months : LedgerOf(m)' = LedgerOf(m)
    BY <1>1, <1>5, ElseStaysFresh
  <2> QED BY <2>1
<1> QED BY <1>2, <1>3, <1>4, <1>5 DEF Next, Pay, Correct, Bill

LEMMA SerialInvariance ==
    ASSUME NEW t0, Requests = {t0}
    PROVE  Spec => []SerialInv
<1>1. Init => SerialInv
  <2> SUFFICES ASSUME Init PROVE SerialInv OBVIOUS
  <2>1. IInv BY InitIInv
  <2>2. LedgerMatchesClaims BY DEF Init, LedgerMatchesClaims, Raised
  <2>3. \A t \in Requests : Fresh(req[t]) BY DEF Init, Fresh, Idle
  <2> QED BY <2>1, <2>2, <2>3 DEF SerialInv
<1>2. SerialInv /\ [Next]_vars => SerialInv' BY SerialStep
<1> QED BY <1>1, <1>2, PTL DEF Spec

\* Served in turn, the ledger holds exactly the corrections approved and not
\* withdrawn, through any number of them.
THEOREM LedgerMatchesClaimsHolds ==
    ASSUME NEW t0, Requests = {t0}
    PROVE  Spec => []LedgerMatchesClaims
<1>1. SerialInv => LedgerMatchesClaims BY DEF SerialInv
<1> QED BY <1>1, SerialInvariance, PTL

\* Served in turn, no late approval, cancellation or computation reaches a
\* closed month.
THEOREM ClosedMonthStandsHolds ==
    ASSUME NEW t0, Requests = {t0}
    PROVE  Spec => ClosedMonthStands
<1>1. SerialInv /\ [Next]_vars =>
        [\A m \in Months : IsFinalized(m) =>
            run'[m] = run[m] /\ LedgerOf(m)' = LedgerOf(m)]_vars
  BY SerialStep
<1> QED BY <1>1, SerialInvariance, PTL DEF Spec, ClosedMonthStands

-----------------------------------------------------------------------------
(***************************************************************************)
(* ESI.                                                                    *)
(***************************************************************************)
\* Two months are of one contribution period if they are of one half-year from
\* April or October.
LEMMA PeriodsAreHalves ==
    ASSUME NEW m \in Nat, NEW n \in Nat, n < m
    PROVE  ContributionPeriodStart(m) <= n <=> SamePeriod(m, n)
<1>1. PICK y \in Nat, k \in 0..11 : m = 12 * y + k /\ m % 12 = k
  <2>1. m = 12 * (m \div 12) + (m % 12) OBVIOUS
  <2>2. m \div 12 \in Nat OBVIOUS
  <2>3. m % 12 \in 0..11 OBVIOUS
  <2> QED BY <2>1, <2>2, <2>3
<1>2. CASE k >= 9 BY <1>1, <1>2 DEF ContributionPeriodStart, SamePeriod
<1>3. CASE k <= 2 BY <1>1, <1>3 DEF ContributionPeriodStart, SamePeriod
<1>4. CASE k \in 3..8 BY <1>1, <1>4 DEF ContributionPeriodStart, SamePeriod
<1> QED BY <1>2, <1>3, <1>4

LEMMA EsiIsOwed ==
    ASSUME NEW gross \in Nat \ {0}, NEW ceiling \in Nat, NEW rate \in Nat \ {0},
           NEW lockedIn \in BOOLEAN
    PROVE  EsiShare(gross, ceiling, rate, lockedIn) > 0 <=> gross <= ceiling \/ lockedIn
<1>1. gross * rate \in Nat /\ gross * rate > 0
  <2>1. 1 * 1 <= gross * rate BY ProductGrows
  <2> QED BY <2>1, ProductType
<1>2. RupeesUp(gross * rate) > 0
  <2>1. \A n \in Nat : n > 0 => 100 * ((n + 999999) \div 1000000) > 0 OBVIOUS
  <2> QED BY <1>1, <2>1 DEF RupeesUp, Rupee, Scale
<1> QED BY <1>2 DEF EsiShare

\* Served in turn, a computation finds the contributors that the ceiling and the
\* closed months of the period say.
THEOREM EsiFollowsPeriodsHolds ==
    ASSUME NEW t0, Requests = {t0}, Salary > 0, EsiRate > 0
    PROVE  Spec => EsiFollowsPeriods
<1>1. ASSUME SerialInv, [Next]_vars, NEW m \in Months, NEW w \in Workers,
             run'[m].claims # run[m].claims \/ run'[m].esi # run[m].esi
      PROVE  w \in run'[m].esi <=>
                \/ Gross(m, w)' <= EsiCeiling
                \/ \E n \in Months : n < m /\ SamePeriod(m, n) /\ IsFinalized(n) /\ w \in run[n].esi
  <2> USE <1>1 DEF SerialInv
  <2>1. PICK t \in Requests : CommitCompute(t)
    <3>1. run' # run OBVIOUS
    <3>2. PICK t \in Requests : CommitCompute(t) \/ CommitFinalize(t)
      BY <3>1 DEF Next, vars, Pay, Correct, Bill, World, Rollback, Raise, Redeploy,
                  BeginCompute, BeginFinalize, BeginApprove, BeginCancel, BeginRecord,
                  BeginAgree, BeginDispute, CommitApprove, CommitCancel, CommitRecord, CommitStamp
    <3>3. CASE CommitFinalize(t)
      <4> DEFINE n == req[t].month
                 row == [status |-> "finalized", claims |-> run[n].claims, esi |-> run[n].esi]
      <4>1. row.claims = run[n].claims /\ row.esi = run[n].esi OBVIOUS
      <4>2. run' = [run EXCEPT ![n] = row] BY <3>3 DEF CommitFinalize
      <4> HIDE DEF row
      <4> QED BY <4>1, <4>2 DEF IInv, TypeOK
    <3> QED BY <3>2, <3>3
  <2> DEFINE r == req[t]
             locked == LockedIn(w, m)
             gross == GrossWith(w, LedgerOf(m))
  <2>2. /\ r \in Request /\ Fresh(r) /\ r.op = "compute" /\ r.month \in Months
    BY <2>1, ServedRequest, RequestKinds DEF CommitCompute
  <2>3. m = r.month /\ run'[m].claims = LedgerOf(m) /\ run'[m].esi = Contributing(m)
        /\ run'[m].status # "none" /\ UNCHANGED claim
    <3> DEFINE row == [status |-> IF IsFinalized(r.month) THEN "finalized" ELSE "draft",
                       claims |-> r.claims, esi |-> r.esi]
    <3>1. row.claims = r.claims /\ row.esi = r.esi /\ row.status # "none" OBVIOUS
    <3>2. run' = [run EXCEPT ![r.month] = row] /\ UNCHANGED claim BY <2>1 DEF CommitCompute
    <3> HIDE DEF row
    <3> QED BY <2>2, <3>1, <3>2 DEF IInv, TypeOK, Fresh
  <2>4. Gross(m, w)' = gross BY <2>3 DEF Gross, GrossWith
  <2>5. gross \in Nat \ {0}
    <3> DEFINE arrears == {a \in LedgerOf(m) : claim[a].worker = w /\ claim[a].kind = "arrear"}
    <3>1. arrears \in SUBSET Claims BY DEF LedgerOf, IInv, TypeOK
    <3>2. Cardinality(arrears) \in Nat
      BY <3>1, FS_Subset, FS_CardinalityType, SettlementAssumption
    <3>3. gross = Salary + Cardinality(arrears) BY DEF GrossWith
    <3> QED BY <3>2, <3>3, SettlementAssumption
  <2>6. locked \in BOOLEAN BY DEF LockedIn
  <2>7. w \in Contributing(m) <=> gross <= EsiCeiling \/ locked
    <3>1. EsiShare(gross, EsiCeiling, EsiRate, locked) > 0 <=> gross <= EsiCeiling \/ locked
      BY <2>5, <2>6, EsiIsOwed, SettlementAssumption
    <3> QED BY <3>1 DEF Contributing
  <2>8. locked <=> \E n \in Months : n < m /\ SamePeriod(m, n) /\ IsFinalized(n) /\ w \in run[n].esi
    BY PeriodsAreHalves, SettlementAssumption DEF LockedIn
  <2> QED BY <2>3, <2>4, <2>7, <2>8
<1>2. SerialInv /\ [Next]_vars =>
        [\A m \in Months, w \in Workers :
            run'[m].claims # run[m].claims \/ run'[m].esi # run[m].esi =>
               (w \in run'[m].esi <=>
                  \/ Gross(m, w)' <= EsiCeiling
                  \/ \E n \in Months : n < m /\ SamePeriod(m, n) /\ IsFinalized(n) /\ w \in run[n].esi)]_vars
  BY <1>1
<1> QED BY <1>2, SerialInvariance, PTL DEF Spec, EsiFollowsPeriods

-----------------------------------------------------------------------------
(***************************************************************************)
(* Invoices.  What a request in flight is about to write over is not       *)
(* agreed, and the payslips pay corrections that were raised, of which     *)
(* neither the worker nor the kind ever changes.                           *)
(***************************************************************************)
BillInv ==
    /\ \A m \in Months : \A a \in run[m].claims : Raised(a)
    /\ \A t \in Requests :
          req[t].op \in {"record", "agree", "dispute"} => OpenInvoice(req[t].month)

\* A correction once raised stays, of the same worker and kind.
LEMMA RaisedStands ==
    ASSUME IInv, [Next]_vars, NEW a \in Claims, Raised(a)
    PROVE  Raised(a)' /\ claim'[a].worker = claim[a].worker /\ claim'[a].kind = claim[a].kind
<1> USE DEF IInv
<1>1. CASE claim' = claim BY <1>1 DEF Raised
<1>2. ASSUME NEW b \in Claims, NEW approved \in BOOLEAN, NEW cancelled \in BOOLEAN, Raised(b),
             claim' = [claim EXCEPT ![b] = ClaimAs(b, approved, cancelled)]
      PROVE  Raised(a)' /\ claim'[a].worker = claim[a].worker /\ claim'[a].kind = claim[a].kind
  <2> DEFINE row == ClaimAs(b, approved, cancelled)
  <2>1. row # NoClaim /\ row.worker = claim[b].worker /\ row.kind = claim[b].kind
    BY <1>2, ClaimRow, ClaimRowIsNot DEF ClaimAs
  <2>2. claim' = [claim EXCEPT ![b] = row] BY <1>2
  <2> HIDE DEF row
  <2> QED BY <2>1, <2>2 DEF Raised, TypeOK
<1>3. ASSUME NEW t \in Requests, CommitApprove(t) \/ CommitCancel(t)
      PROVE  Raised(a)' /\ claim'[a].worker = claim[a].worker /\ claim'[a].kind = claim[a].kind
  <2> DEFINE b == req[t].claim
  <2>1. b \in Claims /\ Raised(b)
    BY <1>3, RequestKinds DEF CommitApprove, CommitCancel, TypeOK, Refers
  <2>2. claim[b].cancelled \in BOOLEAN /\ claim[b].approved \in BOOLEAN
    BY <2>1 DEF Raised, TypeOK, Claim
  <2> QED BY <1>2, <1>3, <2>1, <2>2 DEF CommitApprove, CommitCancel
<1>4. ASSUME NEW b \in Claims, NEW w \in Workers, NEW source \in Months,
             NEW target \in Months, NEW kind \in Kinds, NEW code \in {source} \cup Codes,
             Raise(b, w, source, target, kind, code)
      PROVE  claim'[a] = claim[a]
  BY <1>4 DEF Raise, Raised, TypeOK
<1>5. ASSUME World PROVE claim'[a] = claim[a]
  BY <1>4, <1>5 DEF World, Redeploy
<1>6. ASSUME NEW t \in Requests, Pay(t) \/ Bill(t) \/ Rollback(t) PROVE claim' = claim
  BY <1>6 DEF Pay, Bill, Rollback, BeginCompute, BeginFinalize, CommitCompute, CommitFinalize,
              BeginRecord, BeginAgree, BeginDispute, CommitRecord, CommitStamp
<1>7. ASSUME NEW t \in Requests, Correct(t)
      PROVE  claim' = claim \/ CommitApprove(t) \/ CommitCancel(t)
  BY <1>7 DEF Correct, BeginApprove, BeginCancel
<1> QED BY <1>1, <1>3, <1>5, <1>6, <1>7 DEF Next, vars, Raised

\* What a computation puts on the payslips is in the ledger.
LEMMA PaidIsRaised ==
    ASSUME SerialInv, BillInv, [Next]_vars, NEW m \in Months, NEW a \in run'[m].claims
    PROVE  Raised(a)'
<1> USE DEF SerialInv
<1>1. a \in run[m].claims => Raised(a)'
  <2>1. run[m].claims \subseteq Claims BY DEF IInv, TypeOK, Run
  <2> QED BY <2>1, RaisedStands DEF BillInv
<1>2. CASE run' = run BY <1>1, <1>2
<1>3. ASSUME NEW t \in Requests, CommitCompute(t) PROVE Raised(a)'
  <2> DEFINE r == req[t]
             row == [status |-> IF IsFinalized(r.month) THEN "finalized" ELSE "draft",
                     claims |-> r.claims, esi |-> r.esi]
  <2>1. r.month \in Months /\ r.claims = LedgerOf(r.month)
    BY <1>3, ServedRequest, RequestKinds DEF CommitCompute, Fresh
  <2>2. row.claims = LedgerOf(r.month) BY <2>1
  <2>3. run' = [run EXCEPT ![r.month] = row] BY <1>3 DEF CommitCompute
  <2> HIDE DEF row
  <2>4. CASE m = r.month
    <3>1. a \in ledger BY <2>2, <2>3, <2>4 DEF IInv, TypeOK, LedgerOf
    <3>2. a \in Claims /\ Raised(a) BY <3>1 DEF LedgerMatchesClaims, IInv, TypeOK
    <3> QED BY <3>2, RaisedStands
  <2>5. CASE m # r.month BY <1>1, <2>3, <2>5 DEF IInv, TypeOK
  <2> QED BY <2>4, <2>5
<1>4. ASSUME NEW t \in Requests, CommitFinalize(t) PROVE Raised(a)'
  <2> DEFINE n == req[t].month
             row == [status |-> "finalized", claims |-> run[n].claims, esi |-> run[n].esi]
  <2>1. row.claims = run[n].claims OBVIOUS
  <2>2. run' = [run EXCEPT ![n] = row] BY <1>4 DEF CommitFinalize
  <2> HIDE DEF row
  <2> QED BY <1>1, <2>1, <2>2 DEF IInv, TypeOK
<1>5. run' = run \/ \E t \in Requests : CommitCompute(t) \/ CommitFinalize(t)
  BY DEF Next, vars, Pay, Correct, Bill, World, Rollback, Raise, Redeploy,
         BeginCompute, BeginFinalize, BeginApprove, BeginCancel, BeginRecord,
         BeginAgree, BeginDispute, CommitApprove, CommitCancel, CommitRecord, CommitStamp
<1> QED BY <1>2, <1>3, <1>4, <1>5

\* Only an invoice that is not agreed is written to.
LEMMA OpenIsWritten ==
    ASSUME NEW t0, Requests = {t0}, IInv, BillInv, [Next]_vars
    PROVE  /\ \A t \in Requests :
                 req'[t].op \in {"record", "agree", "dispute"} => OpenInvoice(req[t].month)'
           /\ \A m \in Billed : Known(m) /\ invoice[m].agreed => invoice'[m] = invoice[m]
<1> USE DEF IInv
<1> DEFINE Writes == {"record", "agree", "dispute"}
           Open == \A t \in Requests : req'[t].op \in Writes => OpenInvoice(req[t].month)'
           Kept == \A m \in Billed : Known(m) /\ invoice[m].agreed => invoice'[m] = invoice[m]
<1>1. ASSUME NEW t \in Requests, CommitRecord(t) \/ CommitStamp(t) PROVE Open /\ Kept
  <2>1. req'[t] = Idle BY <1>1, ServedRequest DEF CommitRecord, CommitStamp
  <2>2. OpenInvoice(req[t].month) BY <1>1 DEF BillInv, CommitRecord, CommitStamp
  <2>3. \A m \in Billed : m # req[t].month => invoice'[m] = invoice[m]
    BY <1>1 DEF CommitRecord, CommitStamp, TypeOK
  <2> QED BY <2>1, <2>2, <2>3 DEF Idle, OpenInvoice
<1>2. ASSUME UNCHANGED invoice, \A t \in Requests : req'[t] = req[t] \/ req'[t].op \notin Writes
      PROVE  Open /\ Kept
  BY <1>2 DEF BillInv, OpenInvoice, Known
<1>3. ASSUME NEW t \in Requests, NEW m \in Billed, UNCHANGED invoice, OpenInvoice(m),
             req'[t].month = m
      PROVE  Open /\ Kept
  BY <1>3 DEF OpenInvoice, Known
<1>4. ASSUME NEW t \in Requests, Pay(t) \/ Correct(t) \/ Rollback(t) PROVE Open /\ Kept
  <2>1. UNCHANGED invoice
    BY <1>4 DEF Pay, Correct, Rollback, BeginCompute, BeginFinalize, CommitCompute,
                CommitFinalize, BeginApprove, BeginCancel, CommitApprove, CommitCancel
  <2>2. ASSUME NEW m \in Months, BeginCompute(t, m) \/ BeginFinalize(t, m)
        PROVE  req'[t].op \notin Writes
    BY <2>2, ServedRequest DEF BeginCompute, BeginFinalize
  <2>3. ASSUME NEW a \in Claims, BeginApprove(t, a) \/ BeginCancel(t, a)
        PROVE  req'[t].op \notin Writes
    BY <2>3, ServedRequest DEF BeginApprove, BeginCancel
  <2>4. ASSUME Finish(t) PROVE req'[t].op \notin Writes
    BY <2>4, ServedRequest DEF Idle
  <2>5. req'[t].op \notin Writes
    BY <1>4, <2>2, <2>3, <2>4
    DEF Pay, Correct, Rollback, CommitCompute, CommitFinalize, CommitApprove, CommitCancel
  <2> QED BY <1>2, <2>1, <2>5
<1>5. ASSUME NEW t \in Requests, Bill(t) PROVE Open /\ Kept
  <2>1. ASSUME NEW m \in Billed, NEW amount \in Figures, BeginRecord(t, m, amount)
        PROVE  Open /\ Kept
    BY <1>3, <2>1, ServedRequest DEF BeginRecord
  <2>2. ASSUME NEW m \in Billed, BeginAgree(t, m) \/ BeginDispute(t, m) PROVE Open /\ Kept
    BY <1>3, <2>2, ServedRequest DEF BeginAgree, BeginDispute, OpenInvoice
  <2> QED BY <1>1, <1>5, <2>1, <2>2 DEF Bill
<1>6. CASE World
  BY <1>2, <1>6 DEF World, Raise, Redeploy
<1>7. CASE UNCHANGED vars BY <1>2, <1>7 DEF vars
<1> QED BY <1>4, <1>5, <1>6, <1>7 DEF Next

LEMMA BillStep ==
    ASSUME NEW t0, Requests = {t0}, SerialInv, BillInv, [Next]_vars
    PROVE  BillInv'
BY PaidIsRaised, OpenIsWritten DEF BillInv, SerialInv

\* The payslips of a closed month come to the same for the same workers.
LEMMA ClosedComesToSame ==
    ASSUME NEW t0, Requests = {t0}, SerialInv, BillInv, [Next]_vars, NEW m \in Months,
           IsFinalized(m), deployed' = deployed
    PROVE  Computed(m)' = Computed(m)
<1>1. run'[m] = run[m] BY SerialStep
<1>2. ASSUME NEW w \in Workers PROVE Gross(m, w)' = Gross(m, w)
  <2>1. \A a \in run[m].claims : /\ claim'[a].worker = claim[a].worker
                                 /\ claim'[a].kind = claim[a].kind
    <3>1. run[m].claims \subseteq Claims BY DEF SerialInv, IInv, TypeOK, Run
    <3> QED BY <3>1, RaisedStands DEF BillInv, SerialInv
  <2>2. {a \in run'[m].claims : claim'[a].worker = w /\ claim'[a].kind = "arrear"}
          = {a \in run[m].claims : claim[a].worker = w /\ claim[a].kind = "arrear"}
    BY <1>1, <2>1
  <2> QED BY <1>1, <2>2 DEF Gross, GrossWith
<1>3. [w \in Workers |-> Gross(m, w)'] = [w \in Workers |-> Gross(m, w)] BY <1>2
<1> QED BY <1>3 DEF Computed

\* Served in turn, an invoice that was agreed for a closed month keeps its
\* figure, and the payslips it was compared with keep theirs.
THEOREM AgreedGoesOnMatchingHolds ==
    ASSUME NEW t0, Requests = {t0}
    PROVE  Spec => AgreedGoesOnMatching
<1>1. Init => BillInv
  BY DEF Init, BillInv, Idle
<1>2. SerialInv /\ BillInv /\ [Next]_vars => BillInv' BY BillStep
<1>3. ASSUME SerialInv, BillInv, [Next]_vars, NEW m \in Billed, IsFinalized(m), Known(m),
             deployed' = deployed, invoice[m].agreed, invoice[m].amount = Computed(m)
      PROVE  invoice'[m].amount = Computed(m)'
  <2>1. m \in Months BY SettlementAssumption
  <2>2. invoice'[m] = invoice[m] BY <1>3, OpenIsWritten DEF SerialInv
  <2> QED BY <1>3, <2>1, <2>2, ClosedComesToSame
<1>4. SerialInv /\ BillInv /\ [Next]_vars =>
        [\A m \in Billed :
            (IsFinalized(m) /\ Known(m) /\ deployed' = deployed) =>
               (invoice[m].agreed =>
                  (invoice[m].amount = Computed(m) => invoice'[m].amount = Computed(m)'))]_vars
  BY <1>3
<1> QED BY <1>1, <1>2, <1>4, SerialInvariance, PTL DEF Spec, AgreedGoesOnMatching
==============================================================================
