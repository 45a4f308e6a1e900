---------------------------- MODULE HiringProofs -----------------------------
(***************************************************************************)
(* Theorems about Hiring, for every set of resumes, applications, slots    *)
(* and requests, any number of which may be in flight; only the last one   *)
(* is about one HR request at a time.                                      *)
(*                                                                         *)
(* The inductive invariant says what a request in flight may count on: the *)
(* rows it has read are still there (Refers), a booking that holds a slot  *)
(* holds it open and has seen every other open slot of its offer (Holds),  *)
(* and no two bookings hold one row (Apart); and it says of the offers     *)
(* that they are of one application each and have no open slot left once   *)
(* one of their slots is booked (Offered).                                 *)
(***************************************************************************)
EXTENDS Hiring, TLAPS

Refers(r) ==
    /\ r.op \in {"screen", "propose"} => Exists(r.app)
    /\ r.op = "book" => slot[r.slot] # NoSlot
    /\ r.op = "reject" => \A a \in r.stale : Exists(a)
    /\ r.op = "remind" => \A s \in r.due : interview[s] # NoInterview

\* u was offered together with s and is open.
OpenBeside(s, u) == u # s /\ Open(u) /\ slot[u].offer = slot[s].offer

Holds(r) ==
    r.op = "book" =>
        /\ r.stage \in {"claimed", "freed"} => Open(r.slot) /\ slot[r.slot].app = r.app
        /\ r.stage = "claimed" => \A u \in Slots : OpenBeside(r.slot, u) => u \in r.seen
        /\ r.stage = "freed" =>
              /\ \A u \in Slots : OpenBeside(r.slot, u) => u \in r.freed
              /\ \A u \in r.freed : Open(u)

Apart == \A t, u \in Requests : t # u => Locks(t) \cap Locks(u) = {}

Owned ==
    /\ \A a \in link : Exists(a)
    /\ \A s \in Slots : slot[s] # NoSlot => Exists(slot[s].app) /\ slot[s].offer <= offers

Offered ==
    \A s, u \in Slots :
        slot[s] # NoSlot /\ slot[u] # NoSlot /\ slot[s].offer = slot[u].offer =>
            /\ slot[s].app = slot[u].app
            /\ slot[s].status = "booked" => slot[u].status # "open"

IInv ==
    /\ TypeOK
    /\ \A t \in Requests : Refers(req[t]) /\ Holds(req[t])
    /\ Apart
    /\ Owned
    /\ Offered
    /\ OneBookedPerOffer
    /\ BookedSlotsAreInterviews

-----------------------------------------------------------------------------
(***************************************************************************)
(* What the rows are, and what the writes of a commit leave of them.       *)
(***************************************************************************)
LEMMA ApplicationRow ==
    ASSUME TypeOK, NEW a \in Applications, Exists(a)
    PROVE  app[a] \in Application
BY DEF TypeOK, Exists

LEMMA AppAsType ==
    ASSUME TypeOK, NEW a \in Applications, Exists(a), NEW status \in Statuses
    PROVE  AppAs(a, status) \in Application
BY ApplicationRow DEF AppAs, Application

LEMMA SlotRow ==
    ASSUME TypeOK, NEW s \in Slots, slot[s] # NoSlot
    PROVE  slot[s] \in Slot
BY DEF TypeOK

LEMMA SlotAsType ==
    ASSUME TypeOK, NEW s \in Slots, slot[s] # NoSlot,
           NEW status \in {"open", "booked", "cancelled"}
    PROVE  SlotAs(s, status) \in Slot
BY SlotRow DEF SlotAs, Slot

LEMMA OpenIsThere == ASSUME NEW s \in Slots, Open(s) PROVE slot[s] # NoSlot
BY DEF Open, NoSlot

LEMMA AppRowIsNot == ASSUME NEW row \in Application PROVE row # NoApplication
BY DEF Application, NoApplication, Statuses

LEMMA SlotRowIsNot == ASSUME NEW row \in Slot PROVE row # NoSlot
BY DEF Slot, NoSlot

LEMMA ScreenedType ==
    ASSUME NEW row \in Application, NEW r, r.tier \in Tiers \cup {"none"}, r.status \in Statuses
    PROVE  /\ Screened(r, row) \in Application
           /\ Screened(r, row).status = "interview_scheduled" => row.status = "interview_scheduled"
<1>1. Verdict(r.found, Job) \in Tiers BY DEF Verdict, TierOf, Tiers
<1> QED BY <1>1 DEF Screened, Flush, Application, Statuses

-----------------------------------------------------------------------------
(***************************************************************************)
(* The kinds of request in flight.                                         *)
(***************************************************************************)
LEMMA RequestKinds ==
    ASSUME NEW r \in Request
    PROVE  /\ r.op = "apply" => r.resume \in Resumes
           /\ r.op = "screen" => /\ r.app \in Applications /\ r.resume \in Resumes
                                 /\ r.status \in Statuses /\ r.tier \in Tiers \cup {"none"}
                                 /\ r.found \in Findings
           /\ r.op = "propose" => r.app \in Applications /\ r.loaded \in Statuses
           /\ r.op = "book" => r.app \in Applications /\ r.slot \in Slots
           /\ r.op = "book" /\ r.stage \in Stages => r.seen \in SUBSET Slots
           /\ r.op = "book" /\ r.stage = "freed" => r.freed \in SUBSET Slots /\ r.loaded \in Statuses
           /\ r.op = "reject" => r.stale \in SUBSET Applications
           /\ r.op = "remind" => r.due \in SUBSET Slots
BY DEF Request, Idle, Stages

LEMMA LocksOfOthers ==
    ASSUME NEW t \in Requests, NEW u \in Requests, req'[u] = req[u]
    PROVE  Locks(u)' = Locks(u)
BY DEF Locks

-----------------------------------------------------------------------------
(***************************************************************************)
(* The invariant is kept.  First by the steps that write no row.           *)
(***************************************************************************)
LEMMA InitIInv == Init => IInv
<1> SUFFICES ASSUME Init PROVE IInv OBVIOUS
<1>1. TypeOK BY OffersAssumption DEF Init, TypeOK, Request
<1>2. \A t \in Requests : Refers(req[t]) /\ Holds(req[t]) BY DEF Init, Refers, Holds, Idle
<1>3. Apart BY DEF Init, Apart, Locks, Idle
<1>4. Owned /\ Offered BY DEF Init, Owned, Offered
<1>5. OneBookedPerOffer BY DEF Init, OneBookedPerOffer, NoSlot
<1>6. BookedSlotsAreInterviews
  BY DEF Init, BookedSlotsAreInterviews, NoSlot, NoApplication
<1> QED BY <1>1, <1>2, <1>3, <1>4, <1>5, <1>6 DEF IInv

\* A step that writes no row keeps what the other requests refer to, and what
\* the rows are to each other.
LEMMA NoRowKeeps ==
    ASSUME IInv, NEW t \in Requests, NEW request \in Request, UNCHANGED Rows,
           req' = [req EXCEPT ![t] = request], Refers(request), Holds(request),
           \A u \in Requests \ {t} : Locks(u) \cap Locks(t)' = {}
    PROVE  IInv'
<1>1. TypeOK' BY DEF IInv, TypeOK, Rows
<1>2. \A u \in Requests : req'[u] = IF u = t THEN request ELSE req[u]
  BY DEF IInv, TypeOK
<1>3. \A u \in Requests : (Refers(req[u]) /\ Holds(req[u]))'
  <2> SUFFICES ASSUME NEW u \in Requests PROVE (Refers(req[u]) /\ Holds(req[u]))'
    OBVIOUS
  <2>1. Refers(req'[u]) /\ Holds(req'[u]) BY <1>2 DEF IInv
  <2> QED BY <2>1 DEF Refers, Holds, Rows, Exists, OpenBeside, Open
<1>4. Apart'
  <2>1. \A u \in Requests \ {t} : Locks(u)' = Locks(u) BY <1>2, LocksOfOthers
  <2> QED BY <2>1 DEF IInv, Apart
<1>5. Owned' /\ Offered' /\ OneBookedPerOffer' /\ BookedSlotsAreInterviews'
  BY DEF IInv, Owned, Offered, OneBookedPerOffer, BookedSlotsAreInterviews, Rows, Exists
<1> QED BY <1>1, <1>3, <1>4, <1>5 DEF IInv

\* A request that begins, or ends with nothing written, holds no lock.
LEMMA UnlockedKeeps ==
    ASSUME IInv, NEW t \in Requests, NEW request \in Request, UNCHANGED Rows,
           req' = [req EXCEPT ![t] = request], Refers(request),
           request.op = "book" => request.stage = "resolved"
    PROVE  IInv'
<1>1. Holds(request) BY DEF Holds
<1>2. Locks(t)' = {} BY DEF Locks, IInv, TypeOK
<1> QED BY <1>1, <1>2, NoRowKeeps

LEMMA BeginKeeps ==
    ASSUME IInv, NEW t \in Requests,
           \/ \E r \in Resumes : BeginApply(t, r)
           \/ \E a \in Applications, found \in Findings : BeginScreen(t, a, found)
           \/ \E a \in Applications : BeginPropose(t, a)
           \/ \E a \in Applications, s \in Slots : BeginBook(t, a, s)
           \/ BeginReject(t)
           \/ BeginRemind(t)
           \/ Rollback(t)
    PROVE  IInv'
<1> USE DEF IInv
<1>1. ASSUME NEW r \in Resumes, BeginApply(t, r) PROVE IInv'
  <2> DEFINE request == [op |-> "apply", resume |-> r, known |-> r \in candidate]
  <2>1. request \in Request BY DEF Request
  <2>2. Refers(request) BY DEF Refers
  <2> QED BY <1>1, <2>1, <2>2, UnlockedKeeps DEF BeginApply, Start
<1>2. ASSUME NEW a \in Applications, NEW found \in Findings, BeginScreen(t, a, found) PROVE IInv'
  <2> DEFINE request == [op |-> "screen", app |-> a, resume |-> app[a].resume,
                         status |-> app[a].status, tier |-> app[a].tier, found |-> found]
  <2>0. app[a] \in Application BY <1>2, ApplicationRow DEF BeginScreen
  <2>1. request \in Request BY <2>0 DEF Request, Application
  <2>2. Refers(request) BY <1>2 DEF Refers, BeginScreen
  <2> QED BY <1>2, <2>1, <2>2, UnlockedKeeps DEF BeginScreen, Start
<1>3. ASSUME NEW a \in Applications, BeginPropose(t, a) PROVE IInv'
  <2> DEFINE request == [op |-> "propose", app |-> a, loaded |-> app[a].status]
  <2>0. app[a] \in Application BY <1>3, ApplicationRow DEF BeginPropose
  <2>1. request \in Request BY <2>0 DEF Request, Application
  <2>2. Refers(request) BY <1>3 DEF Refers, BeginPropose
  <2> QED BY <1>3, <2>1, <2>2, UnlockedKeeps DEF BeginPropose, Start
<1>4. ASSUME NEW a \in Applications, NEW s \in Slots, BeginBook(t, a, s) PROVE IInv'
  <2> DEFINE request == [op |-> "book", stage |-> "resolved", app |-> a, slot |-> s, seen |-> {}]
  <2>1. request \in Request BY DEF Request, Stages
  <2>2. Refers(request) BY <1>4 DEF Refers, BeginBook
  <2> QED BY <1>4, <2>1, <2>2, UnlockedKeeps DEF BeginBook, Start
<1>5. ASSUME BeginReject(t) PROVE IInv'
  <2> DEFINE request == [op |-> "reject", stale |-> Stale]
  <2>1. request \in Request BY DEF Request, Stale
  <2>2. Refers(request) BY DEF Refers, Stale
  <2> QED BY <1>5, <2>1, <2>2, UnlockedKeeps DEF BeginReject, Start
<1>6. ASSUME BeginRemind(t) PROVE IInv'
  <2> DEFINE request == [op |-> "remind", due |-> Due]
  <2>1. request \in Request BY DEF Request, Due
  <2>2. Refers(request) BY DEF Refers, Due, NoInterview
  <2> QED BY <1>6, <2>1, <2>2, UnlockedKeeps DEF BeginRemind, Start
<1>7. ASSUME Rollback(t) PROVE IInv'
  <2>1. Idle \in Request BY DEF Request
  <2>2. Refers(Idle) /\ Idle.op # "book" BY DEF Refers, Idle
  <2> QED BY <1>7, <2>1, <2>2, UnlockedKeeps DEF Rollback, Finish
<1> QED BY <1>1, <1>2, <1>3, <1>4, <1>5, <1>6, <1>7

LEMMA ClaimKeeps ==
    ASSUME IInv, NEW t \in Requests, Claim(t)
    PROVE  IInv'
<1> USE DEF IInv
<1> DEFINE r == req[t]
           request == [op |-> "book", stage |-> "claimed", app |-> r.app, slot |-> r.slot,
                       seen |-> Others(r)]
<1>1. r \in Request /\ r.op = "book" /\ r.slot \in OpenFor(r.app) BY DEF Claim, TypeOK
<1>2. r.app \in Applications /\ r.slot \in Slots BY <1>1, RequestKinds
<1>3. Others(r) \in SUBSET Slots BY DEF Others, OpenFor
<1>4. request \in Request BY <1>2, <1>3 DEF Request, Stages
<1>5. Refers(request) BY <1>1 DEF Refers
<1>6. Holds(request)
  <2>1. Open(r.slot) /\ slot[r.slot].app = r.app BY <1>1 DEF OpenFor
  <2>2. ASSUME NEW u \in Slots, OpenBeside(r.slot, u) PROVE u \in Others(r)
    <3>1. slot[u] # NoSlot /\ slot[r.slot] # NoSlot
      BY <1>2, <2>1, <2>2, OpenIsThere DEF OpenBeside
    <3>2. slot[u].app = r.app BY <1>2, <2>1, <2>2, <3>1 DEF Offered, OpenBeside
    <3> QED BY <2>2, <3>2 DEF Others, OpenFor, OpenBeside
  <2> QED BY <2>1, <2>2 DEF Holds
<1>7. req' = [req EXCEPT ![t] = request] /\ UNCHANGED Rows BY DEF Claim, Continue
<1>8. Locks(t)' = {r.slot} BY <1>7 DEF Locks, TypeOK
<1>9. \A u \in Requests \ {t} : Locks(u) \cap Locks(t)' = {} BY <1>8 DEF Claim, Unlocked
<1> HIDE DEF request
<1> QED BY <1>4, <1>5, <1>6, <1>7, <1>9, NoRowKeeps

LEMMA FreeKeeps ==
    ASSUME IInv, NEW t \in Requests, Free(t)
    PROVE  IInv'
<1> USE DEF IInv
<1> DEFINE r == req[t]
           freed == {s \in r.seen : Open(s)}
           request == [op |-> "book", stage |-> "freed", app |-> r.app, slot |-> r.slot,
                       freed |-> freed, loaded |-> app[r.app].status]
<1>1. r \in Request /\ r.op = "book" /\ r.stage = "claimed" /\ Refers(r) /\ Holds(r)
  BY DEF Free, TypeOK
<1>2. r.app \in Applications /\ r.slot \in Slots /\ r.seen \in SUBSET Slots
  BY <1>1, RequestKinds DEF Stages
<1>3. Open(r.slot) /\ slot[r.slot].app = r.app BY <1>1 DEF Holds
<1>4. Exists(r.app) BY <1>2, <1>3, OpenIsThere DEF Owned
<1>5. app[r.app].status \in Statuses BY <1>2, <1>4, ApplicationRow DEF Application
<1>6. request \in Request BY <1>2, <1>5 DEF Request
<1>7. Refers(request) BY <1>1 DEF Refers
<1>8. Holds(request) BY <1>1, <1>3 DEF Holds, OpenBeside
<1>9. req' = [req EXCEPT ![t] = request] /\ UNCHANGED Rows BY DEF Free, Continue
<1>10. Locks(t)' = {r.slot} \cup freed BY <1>9 DEF Locks, TypeOK
<1>11. Locks(t) = {r.slot} BY <1>1 DEF Locks
<1>12. \A u \in Requests \ {t} : Locks(u) \cap Locks(t)' = {}
  BY <1>10, <1>11 DEF Free, Unlocked, Apart
<1> HIDE DEF request
<1> QED BY <1>6, <1>7, <1>8, <1>9, <1>12, NoRowKeeps

-----------------------------------------------------------------------------
(***************************************************************************)
(* Then by the steps that write rows.                                      *)
(***************************************************************************)
\* Each request is as it was, or has ended.
Ends == /\ req' \in [Requests -> Request]
        /\ \A u \in Requests : req'[u] \in {req[u], Idle}

LEMMA FinishEnds == ASSUME IInv, NEW t \in Requests, Finish(t) PROVE Ends
BY DEF IInv, TypeOK, Finish, Ends, Request

LEMMA UnchangedEnds == ASSUME IInv, UNCHANGED req PROVE Ends
BY DEF IInv, TypeOK, Ends

\* No row that was there is gone.
Grows ==
    /\ \A a \in Applications : Exists(a) => Exists(a)'
    /\ \A s \in Slots : slot[s] # NoSlot => slot'[s] # NoSlot
    /\ \A s \in Slots : interview[s] # NoInterview => interview'[s] # NoInterview

LEMMA EndsKeeps ==
    ASSUME IInv, Ends, Grows
    PROVE  Apart' /\ \A t \in Requests : Refers(req[t])'
<1>1. Apart'
  <2>1. \A t \in Requests : Locks(t)' \in {Locks(t), {}} BY DEF Ends, Locks, Idle
  <2> QED BY <2>1 DEF IInv, Apart
<1>2. ASSUME NEW t \in Requests PROVE Refers(req[t])'
  <2>1. CASE req'[t] = Idle
    BY <2>1 DEF Refers, Idle
  <2>2. CASE req'[t] = req[t]
    <3>1. req[t] \in Request /\ Refers(req[t]) BY DEF IInv, TypeOK
    <3>2. /\ req[t].op \in {"screen", "propose"} => req[t].app \in Applications
          /\ req[t].op = "book" => req[t].slot \in Slots
          /\ req[t].op = "reject" => req[t].stale \in SUBSET Applications
          /\ req[t].op = "remind" => req[t].due \in SUBSET Slots
      BY <3>1, RequestKinds
    <3> QED BY <2>2, <3>1, <3>2 DEF Refers, Grows
  <2> QED BY <2>1, <2>2 DEF Ends
<1> QED BY <1>1, <1>2

\* Only the rows of applications are written, none of them to scheduled.
LEMMA AppKeeps ==
    ASSUME IInv, Ends, TypeOK',
           \A a \in Applications : Exists(a) => Exists(a)',
           \A a \in Applications : app'[a].status = "interview_scheduled"
                                      => app[a].status = "interview_scheduled",
           link' \in SUBSET link, UNCHANGED <<slot, interview, offers>>
    PROVE  IInv'
<1> USE DEF IInv
<1>1. Apart' /\ \A t \in Requests : Refers(req[t])' BY EndsKeeps DEF Grows
<1>2. \A t \in Requests : Holds(req[t])'
  <2>1. ASSUME NEW t \in Requests PROVE Holds(req[t])'
    <3>1. req'[t] = req[t] \/ req'[t] = Idle BY DEF Ends
    <3>2. Holds(req'[t]) BY <3>1 DEF Holds, Idle
    <3> QED BY <3>2 DEF Holds, OpenBeside, Open
  <2> QED BY <2>1
<1>3. Owned'
  <2>1. ASSUME NEW s \in Slots, slot[s] # NoSlot PROVE slot[s].app \in Applications
    BY <2>1, SlotRow DEF Slot
  <2>2. link \in SUBSET Applications BY DEF TypeOK
  <2> QED BY <2>1, <2>2 DEF Owned
<1>4. Offered' /\ OneBookedPerOffer' BY DEF Offered, OneBookedPerOffer
<1>5. BookedSlotsAreInterviews' BY DEF BookedSlotsAreInterviews
<1> QED BY <1>1, <1>2, <1>3, <1>4, <1>5

LEMMA CommitApplyKeeps ==
    ASSUME IInv, NEW t \in Requests, NEW a \in Applications, CommitApply(t, a)
    PROVE  IInv'
<1> USE DEF IInv
<1> DEFINE r == req[t]
           row == [resume |-> r.resume, tier |-> "none", stale |-> FALSE,
                   status |-> IF ~r.known /\ r.resume \notin Readable THEN "needs_review"
                              ELSE "received"]
<1>1. r \in Request /\ r.op = "apply" BY DEF TypeOK, CommitApply
<1>2. r.resume \in Resumes BY <1>1, RequestKinds
<1>3. row \in Application BY <1>2 DEF Application, Statuses
<1>4. app' = [app EXCEPT ![a] = row] BY DEF CommitApply
<1>5. Ends BY FinishEnds DEF CommitApply
<1>6. row.status # "interview_scheduled" OBVIOUS
<1> HIDE DEF row
<1>7. TypeOK' BY <1>2, <1>3, <1>4, <1>5 DEF TypeOK, Ends, CommitApply
<1>8. \A b \in Applications : Exists(b) => Exists(b)'
  BY <1>3, <1>4, AppRowIsNot DEF TypeOK, Exists
<1>9. \A b \in Applications : app'[b].status = "interview_scheduled"
                                  => app[b].status = "interview_scheduled"
  BY <1>4, <1>6 DEF TypeOK
<1> QED BY <1>5, <1>7, <1>8, <1>9, AppKeeps DEF CommitApply

LEMMA CommitScreenKeeps ==
    ASSUME IInv, NEW t \in Requests, CommitScreen(t)
    PROVE  IInv'
<1> USE DEF IInv
<1> DEFINE r == req[t]
           row == Screened(r, app[r.app])
<1>1. r \in Request /\ r.op = "screen" /\ Refers(r) BY DEF TypeOK, CommitScreen
<1>2. /\ r.app \in Applications /\ r.resume \in Resumes /\ r.found \in Findings
      /\ r.tier \in Tiers \cup {"none"} /\ r.status \in Statuses
  BY <1>1, RequestKinds
<1>3. app[r.app] \in Application BY <1>1, <1>2, ApplicationRow DEF Refers
<1>4. /\ row \in Application
      /\ row.status = "interview_scheduled" => app[r.app].status = "interview_scheduled"
  BY <1>2, <1>3, ScreenedType
<1>5. app' = [app EXCEPT ![r.app] = row] BY DEF CommitScreen
<1>6. Ends BY FinishEnds DEF CommitScreen
<1> HIDE DEF row
<1>7. TypeOK'
  <2>1. analysis' \in [Resumes -> SUBSET Findings] BY <1>2 DEF TypeOK, CommitScreen
  <2> QED BY <1>4, <1>5, <1>6, <2>1 DEF TypeOK, Ends, CommitScreen
<1>8. \A b \in Applications : Exists(b) => Exists(b)'
  BY <1>4, <1>5, AppRowIsNot DEF TypeOK, Exists
<1>9. \A b \in Applications : app'[b].status = "interview_scheduled"
                                  => app[b].status = "interview_scheduled"
  BY <1>2, <1>4, <1>5 DEF TypeOK
<1> QED BY <1>6, <1>7, <1>8, <1>9, AppKeeps DEF CommitScreen

LEMMA CommitRejectKeeps ==
    ASSUME IInv, NEW t \in Requests, CommitReject(t)
    PROVE  IInv'
<1> USE DEF IInv
<1> DEFINE r == req[t]
<1>1. r \in Request /\ Refers(r) /\ r.op = "reject" BY DEF TypeOK, CommitReject
<1>2. r.stale \in SUBSET Applications /\ \A a \in r.stale : Exists(a)
  BY <1>1, RequestKinds DEF Refers
<1>3. \A a \in r.stale : AppAs(a, "rejected") \in Application
  BY <1>2, AppAsType DEF Statuses
<1>4. Ends BY FinishEnds DEF CommitReject
<1>5. \A a \in Applications : app'[a] = IF a \in r.stale THEN AppAs(a, "rejected") ELSE app[a]
  BY DEF CommitReject
<1>6. TypeOK' BY <1>3, <1>4 DEF TypeOK, Ends, CommitReject
<1>7. \A a \in Applications : Exists(a) => Exists(a)'
  BY <1>3, <1>5, AppRowIsNot DEF Exists
<1>8. \A a \in Applications : app'[a].status = "interview_scheduled"
                                  => app[a].status = "interview_scheduled"
  <2>1. \A a \in Applications : AppAs(a, "rejected").status = "rejected" BY DEF AppAs
  <2> QED BY <1>5, <2>1
<1> QED BY <1>4, <1>6, <1>7, <1>8, AppKeeps DEF CommitReject

LEMMA WaitsKeeps ==
    ASSUME IInv, NEW a \in Applications, Waits(a)
    PROVE  IInv'
<1> USE DEF IInv
<1> DEFINE row == [resume |-> app[a].resume, status |-> app[a].status,
                   tier |-> app[a].tier, stale |-> TRUE]
<1>1. app[a] \in Application BY ApplicationRow DEF Waits
<1>2. row \in Application /\ row.status = app[a].status BY <1>1 DEF Application
<1>3. app' = [app EXCEPT ![a] = row] BY DEF Waits
<1>4. Ends BY UnchangedEnds DEF Waits
<1> HIDE DEF row
<1>5. TypeOK' BY <1>2, <1>3 DEF TypeOK, Waits
<1>6. \A b \in Applications : Exists(b) => Exists(b)'
  BY <1>2, <1>3, AppRowIsNot DEF TypeOK, Exists
<1>7. \A b \in Applications : app'[b].status = "interview_scheduled"
                                  => app[b].status = "interview_scheduled"
  BY <1>2, <1>3 DEF TypeOK
<1> QED BY <1>4, <1>5, <1>6, <1>7, AppKeeps DEF Waits

LEMMA ExpiresKeeps ==
    ASSUME IInv, NEW a \in Applications, Expires(a)
    PROVE  IInv'
<1>1. Ends BY UnchangedEnds DEF Expires
<1>2. TypeOK' BY DEF IInv, TypeOK, Expires
<1>3. \A b \in Applications : Exists(b) => Exists(b)' BY DEF Exists, Expires
<1> QED BY <1>1, <1>2, <1>3, AppKeeps DEF Expires

\* Only interviews are written, and there as many as before.
LEMMA InterviewKeeps ==
    ASSUME IInv, Ends, interview' \in [Slots -> {NoInterview} \cup Interview],
           \A s \in Slots : interview[s] # NoInterview <=> interview'[s] # NoInterview,
           UNCHANGED <<candidate, app, analysis, link, slot, offers>>
    PROVE  IInv'
<1> USE DEF IInv
<1>1. TypeOK' BY DEF TypeOK, Ends
<1>2. Apart' /\ \A t \in Requests : Refers(req[t])' BY EndsKeeps DEF Grows, Exists
<1>3. ASSUME NEW t \in Requests PROVE Holds(req[t])'
  <2>1. req'[t] = req[t] \/ req'[t] = Idle BY DEF Ends
  <2>2. Holds(req'[t]) BY <2>1 DEF Holds, Idle
  <2> QED BY <2>2 DEF Holds, OpenBeside, Open
<1>4. Owned' /\ Offered' /\ OneBookedPerOffer' /\ BookedSlotsAreInterviews'
  BY DEF Owned, Offered, OneBookedPerOffer, BookedSlotsAreInterviews, Exists
<1> QED BY <1>1, <1>2, <1>3, <1>4

LEMMA InterviewRow ==
    ASSUME NEW when \in {"far", "soon", "past"}, NEW reminded \in BOOLEAN
    PROVE  /\ [when |-> when, reminded |-> reminded] \in Interview
           /\ [when |-> when, reminded |-> reminded] # NoInterview
<1>1. [when |-> when, reminded |-> reminded] \in Interview BY DEF Interview
<1>2. [when |-> when, reminded |-> reminded].when # NoInterview.when BY DEF NoInterview
<1> QED BY <1>1, <1>2

LEMMA CommitRemindKeeps ==
    ASSUME IInv, NEW t \in Requests, CommitRemind(t)
    PROVE  IInv'
<1> USE DEF IInv
<1> DEFINE r == req[t]
           row(s) == [when |-> interview[s].when, reminded |-> TRUE]
<1>1. r \in Request /\ Refers(r) /\ r.op = "remind" BY DEF TypeOK, CommitRemind
<1>2. r.due \in SUBSET Slots /\ \A s \in r.due : interview[s] # NoInterview
  BY <1>1, RequestKinds DEF Refers
<1>3. ASSUME NEW s \in r.due PROVE row(s) \in Interview /\ row(s) # NoInterview
  <2>1. interview[s] \in Interview BY <1>2 DEF TypeOK
  <2>2. interview[s].when \in {"far", "soon", "past"} BY <2>1 DEF Interview
  <2> QED BY <2>2, InterviewRow
<1>4. interview' = [s \in Slots |-> IF s \in r.due THEN row(s) ELSE interview[s]]
  BY DEF CommitRemind
<1> HIDE DEF row
<1>5. interview' \in [Slots -> {NoInterview} \cup Interview] BY <1>3, <1>4 DEF TypeOK
<1>6. \A s \in Slots : interview[s] # NoInterview <=> interview'[s] # NoInterview
  BY <1>2, <1>3, <1>4
<1>7. Ends BY FinishEnds DEF CommitRemind
<1> QED BY <1>5, <1>6, <1>7, InterviewKeeps DEF CommitRemind

LEMMA NearsKeeps ==
    ASSUME IInv, NEW s \in Slots, Nears(s)
    PROVE  IInv'
<1> USE DEF IInv
<1> DEFINE row == [when |-> IF interview[s].when = "far" THEN "soon" ELSE "past",
                   reminded |-> interview[s].reminded]
<1>1. interview[s] # NoInterview BY DEF Nears, NoInterview
<1>2. interview[s] \in Interview BY <1>1 DEF TypeOK
<1>3. interview[s].reminded \in BOOLEAN BY <1>2 DEF Interview
<1>4. row \in Interview /\ row # NoInterview BY <1>3, InterviewRow
<1>5. interview' = [interview EXCEPT ![s] = row] BY DEF Nears
<1> HIDE DEF row
<1>6. interview' \in [Slots -> {NoInterview} \cup Interview] BY <1>4, <1>5 DEF TypeOK
<1>7. \A u \in Slots : interview[u] # NoInterview <=> interview'[u] # NoInterview
  BY <1>1, <1>4, <1>5 DEF TypeOK
<1>8. Ends BY UnchangedEnds DEF Nears
<1> QED BY <1>6, <1>7, <1>8, InterviewKeeps DEF Nears

LEMMA CommitProposeKeeps ==
    ASSUME IInv, NEW t \in Requests, NEW S \in SUBSET Slots, CommitPropose(t, S)
    PROVE  IInv'
<1> USE DEF IInv
<1> DEFINE r == req[t]
           offered == [app |-> r.app, offer |-> offers + 1, status |-> "open"]
           status == Flush(r.loaded, "interview_proposed", app[r.app].status)
           row == AppAs(r.app, status)
<1>1. r \in Request /\ Refers(r) /\ r.op = "propose" BY DEF TypeOK, CommitPropose
<1>2. r.app \in Applications /\ Exists(r.app) /\ r.loaded \in Statuses
  BY <1>1, RequestKinds DEF Refers
<1>3. app[r.app] \in Application BY <1>2, ApplicationRow
<1>4. status \in Statuses /\ (status = "interview_scheduled" => app[r.app].status = "interview_scheduled")
  BY <1>3 DEF Flush, Application, Statuses
<1>5. row \in Application /\ row.status = status BY <1>2, <1>4, AppAsType DEF AppAs
<1>6. offered \in Slot /\ offered.offer = offers + 1 /\ offered.app = r.app /\ offered.status = "open"
  BY <1>2, OffersAssumption DEF CommitPropose, TypeOK, Slot
<1>7. /\ slot' = [s \in Slots |-> IF s \in S THEN offered ELSE slot[s]]
      /\ app' = [app EXCEPT ![r.app] = row]
      /\ offers' = offers + 1 /\ link' = link \cup {r.app}
      /\ interview' = interview
      /\ \A s \in S : slot[s] = NoSlot
  BY DEF CommitPropose
<1>8. Ends BY FinishEnds DEF CommitPropose
<1> HIDE DEF row, offered, status
<1>9. TypeOK'
  <2>1. offers' \in 0..MaxOffers BY OffersAssumption DEF CommitPropose, TypeOK
  <2> QED BY <1>2, <1>5, <1>6, <1>7, <1>8, <2>1 DEF TypeOK, Ends, CommitPropose
<1>10. \A a \in Applications : Exists(a) => Exists(a)'
  BY <1>5, <1>7, AppRowIsNot DEF TypeOK, Exists
<1>11. offered # NoSlot BY <1>6, SlotRowIsNot
<1>12. Apart' /\ \A u \in Requests : Refers(req[u])'
  BY <1>7, <1>8, <1>10, <1>11, EndsKeeps DEF Grows
<1>13. ASSUME NEW s \in Slots, slot[s] # NoSlot
       PROVE  slot'[s] = slot[s] /\ slot[s].offer \in 1..offers /\ slot[s].app \in Applications
  BY <1>7, <1>13, SlotRow DEF Owned, Slot, TypeOK
<1>14. \A u \in Requests : Holds(req[u])'
  <2>1. ASSUME NEW u \in Requests PROVE Holds(req[u])'
    <3>1. CASE req'[u] = Idle BY <3>1 DEF Holds, Idle
    <3>2. CASE req'[u] = req[u] /\ req[u].op = "book" /\ req[u].stage \in {"claimed", "freed"}
      <4> DEFINE held == req[u].slot
      <4>1. /\ held \in Slots
            /\ req[u].stage = "freed" => req[u].freed \in SUBSET Slots
        BY <3>2, RequestKinds DEF TypeOK
      <4>2. Open(held) /\ slot[held].app = req[u].app /\ Holds(req[u]) BY <3>2 DEF Holds
      <4>3. slot[held] # NoSlot BY <4>1, <4>2, OpenIsThere
      <4>4. slot'[held] = slot[held] /\ slot[held].offer \in 1..offers BY <1>13, <4>1, <4>3
      <4>5. ASSUME NEW v \in Slots, v # held,
                   slot'[v].status = "open", slot'[v].offer = slot'[held].offer
            PROVE  OpenBeside(held, v)
        <5>1. v \notin S BY <1>6, <1>7, <4>4, <4>5 DEF TypeOK
        <5> QED BY <1>7, <4>4, <4>5, <5>1 DEF OpenBeside, Open
      <4>6. ASSUME NEW v \in Slots, Open(v) PROVE Open(v)'
        BY <1>13, <4>6, OpenIsThere DEF Open
      <4> QED BY <3>2, <4>1, <4>2, <4>4, <4>5, <4>6 DEF Holds, Open, OpenBeside
    <3>3. CASE req'[u] = req[u] /\ ~(req[u].op = "book" /\ req[u].stage \in {"claimed", "freed"})
      BY <3>3 DEF Holds
    <3> QED BY <1>8, <3>1, <3>2, <3>3 DEF Ends
  <2> QED BY <2>1
<1>15. Owned'
  <2>1. \A a \in link' : Exists(a)'
    BY <1>2, <1>7, <1>10 DEF Owned, TypeOK
  <2>2. ASSUME NEW s \in Slots, slot'[s] # NoSlot
        PROVE  app'[slot'[s].app] # NoApplication /\ slot'[s].offer <= offers'
    <3>1. CASE s \in S
      <4>1. app'[r.app] # NoApplication BY <1>2, <1>10 DEF Exists
      <4>2. slot'[s] = offered BY <1>7, <3>1
      <4> QED BY <1>6, <1>7, <4>1, <4>2 DEF TypeOK
    <3>2. CASE s \notin S
      <4>1. slot[s] # NoSlot /\ slot'[s] = slot[s] BY <1>7, <2>2, <3>2
      <4>2. app'[slot[s].app] # NoApplication
        BY <1>10, <1>13, <4>1 DEF Owned, Exists
      <4> QED BY <1>7, <1>13, <4>1, <4>2 DEF TypeOK
    <3> QED BY <3>1, <3>2
  <2> QED BY <2>1, <2>2 DEF Owned, Exists
<1>16. ASSUME NEW s \in Slots, NEW u \in Slots, slot'[s] # NoSlot, slot'[u] # NoSlot,
              slot'[s].offer = slot'[u].offer
       PROVE  \/ s \in S /\ u \in S
              \/ /\ slot[s] # NoSlot /\ slot[u] # NoSlot
                 /\ slot'[s] = slot[s] /\ slot'[u] = slot[u]
  BY <1>6, <1>7, <1>13, <1>16 DEF TypeOK
<1>17. Offered' BY <1>6, <1>7, <1>16 DEF Offered
<1>18. \A s \in Slots : slot'[s].status = "booked" <=> slot[s].status = "booked"
  BY <1>6, <1>7 DEF NoSlot
<1>19. OneBookedPerOffer'
  <2>1. \A s \in Slots : slot'[s].status = "booked" => slot[s] # NoSlot BY <1>18 DEF NoSlot
  <2> QED BY <1>13, <1>18, <2>1 DEF OneBookedPerOffer
<1>20. BookedSlotsAreInterviews'
  <2>1. \A s \in Slots : slot[s].status = "booked" => slot'[s] = slot[s]
    BY <1>13 DEF NoSlot
  <2>2. \A a \in Applications : app'[a].status = "interview_scheduled"
                                   => app[a].status = "interview_scheduled"
    BY <1>4, <1>5, <1>7 DEF TypeOK
  <2> QED BY <1>7, <1>18, <2>1, <2>2 DEF BookedSlotsAreInterviews
<1> QED BY <1>9, <1>12, <1>14, <1>15, <1>17, <1>19, <1>20

LEMMA CommitBookKeeps ==
    ASSUME IInv, NEW t \in Requests, NEW when \in {"far", "soon", "past"}, CommitBook(t, when)
    PROVE  IInv'
<1> USE DEF IInv
<1> DEFINE r == req[t]
           status == Flush(r.loaded, "interview_scheduled", app[r.app].status)
           row == AppAs(r.app, status)
           booked == [when |-> when, reminded |-> FALSE]
<1>1. r \in Request /\ r.op = "book" /\ r.stage = "freed" /\ Holds(r)
  BY DEF TypeOK, CommitBook
<1>2. /\ r.app \in Applications /\ r.slot \in Slots
      /\ r.freed \in SUBSET Slots /\ r.loaded \in Statuses
  BY <1>1, RequestKinds
<1>3. /\ Open(r.slot) /\ slot[r.slot].app = r.app
      /\ \A u \in Slots : OpenBeside(r.slot, u) => u \in r.freed
      /\ \A u \in r.freed : Open(u)
  BY <1>1 DEF Holds
<1>4. Locks(t) = {r.slot} \cup r.freed BY <1>1 DEF Locks
<1>5. Exists(r.app) /\ app[r.app] \in Application
  BY <1>2, <1>3, OpenIsThere, ApplicationRow DEF Owned
<1>6. status \in Statuses BY <1>5 DEF Flush, Application, Statuses
<1>7. row \in Application BY <1>2, <1>5, <1>6, AppAsType
<1>8. booked \in Interview /\ booked # NoInterview BY InterviewRow
<1>9. /\ slot' = [s \in Slots |-> IF s = r.slot THEN SlotAs(s, "booked")
                                 ELSE IF s \in r.freed THEN SlotAs(s, "cancelled")
                                 ELSE slot[s]]
      /\ app' = [app EXCEPT ![r.app] = row]
      /\ interview' = [interview EXCEPT ![r.slot] = booked]
      /\ UNCHANGED <<candidate, analysis, link, offers>>
  BY DEF CommitBook
<1>10. Ends BY FinishEnds DEF CommitBook
<1>11. req'[t] = Idle BY DEF CommitBook, Finish, TypeOK
<1> HIDE DEF row, status, booked
<1>12. \A s \in Slots : Open(s) => /\ slot[s] # NoSlot
                                   /\ SlotAs(s, "booked") \in Slot
                                   /\ SlotAs(s, "cancelled") \in Slot
  BY OpenIsThere, SlotAsType
<1>13. \A s \in Slots, st \in {"booked", "cancelled"} :
          /\ SlotAs(s, st).app = slot[s].app /\ SlotAs(s, st).offer = slot[s].offer
          /\ SlotAs(s, st).status = st
  BY DEF SlotAs
<1>14. \A s \in Slots : slot'[s] # NoSlot <=> slot[s] # NoSlot
  BY <1>2, <1>3, <1>9, <1>12, SlotRowIsNot
<1>15. \A s \in Slots : slot[s] # NoSlot => /\ slot'[s].app = slot[s].app
                                            /\ slot'[s].offer = slot[s].offer
  BY <1>9, <1>13
<1>16. \A s \in Slots : slot'[s].status = "open"
                           => slot[s].status = "open" /\ s \notin Locks(t)
  BY <1>4, <1>9, <1>13
<1>17. \A s \in Slots \ Locks(t) : slot'[s] = slot[s] BY <1>4, <1>9
<1>18. \A s \in Slots : slot'[s].status = "booked" <=> slot[s].status = "booked" \/ s = r.slot
  BY <1>3, <1>9, <1>13 DEF Open
<1>19. TypeOK'
  <2>1. slot' \in [Slots -> {NoSlot} \cup Slot] BY <1>3, <1>9, <1>12 DEF TypeOK
  <2> QED BY <1>7, <1>8, <1>9, <1>10, <2>1 DEF TypeOK, Ends
<1>20. \A a \in Applications : Exists(a) => Exists(a)'
  BY <1>7, <1>9, AppRowIsNot DEF TypeOK, Exists
<1>21. Apart' /\ \A u \in Requests : Refers(req[u])'
  <2>1. \A s \in Slots : interview[s] # NoInterview => interview'[s] # NoInterview
    BY <1>8, <1>9 DEF TypeOK
  <2> QED BY <1>10, <1>14, <1>20, <2>1, EndsKeeps DEF Grows
<1>22. ASSUME NEW u \in Requests PROVE Holds(req[u])'
  <2>1. CASE req'[u] = Idle BY <2>1 DEF Holds, Idle
  <2>2. CASE u # t /\ req'[u] = req[u] /\ req[u].op = "book" /\ req[u].stage \in {"claimed", "freed"}
    <3> DEFINE held == req[u].slot
    <3>1. /\ held \in Slots
          /\ req[u].stage = "freed" => req[u].freed \in SUBSET Slots
      BY <2>2, RequestKinds DEF TypeOK
    <3>2. Open(held) /\ slot[held].app = req[u].app /\ Holds(req[u]) BY <2>2 DEF Holds
    <3>3. Locks(u) \cap Locks(t) = {} BY <2>2 DEF Apart
    <3>4. held \in Locks(u) /\ (req[u].stage = "freed" => req[u].freed \subseteq Locks(u))
      BY <2>2 DEF Locks
    <3>5. slot'[held] = slot[held] BY <1>17, <3>1, <3>3, <3>4
    <3>6. ASSUME NEW v \in Slots, v # held,
                 slot'[v].status = "open", slot'[v].offer = slot'[held].offer
          PROVE  OpenBeside(held, v)
      <4>1. slot'[v] = slot[v] BY <1>16, <1>17, <3>6
      <4> QED BY <3>5, <3>6, <4>1 DEF OpenBeside, Open
    <3>7. req[u].stage = "freed" => \A v \in req[u].freed : slot'[v] = slot[v]
      BY <1>17, <3>1, <3>3, <3>4
    <3> QED BY <2>2, <3>1, <3>2, <3>5, <3>6, <3>7 DEF Holds, Open, OpenBeside
  <2>3. CASE req'[u] = req[u] /\ ~(req[u].op = "book" /\ req[u].stage \in {"claimed", "freed"})
    BY <2>3 DEF Holds
  <2> QED BY <1>10, <1>11, <2>1, <2>2, <2>3 DEF Ends
<1>23. Owned'
  <2>1. \A a \in link' : Exists(a)' BY <1>9, <1>20 DEF Owned, TypeOK
  <2>2. ASSUME NEW s \in Slots, slot'[s] # NoSlot
        PROVE  app'[slot'[s].app] # NoApplication /\ slot'[s].offer <= offers'
    <3>1. slot[s] # NoSlot BY <1>14, <2>2
    <3>2. slot[s].app \in Applications BY <3>1, SlotRow DEF Slot
    <3> QED BY <1>9, <1>15, <1>20, <3>1, <3>2 DEF Owned, Exists
  <2> QED BY <2>1, <2>2 DEF Owned, Exists
<1>24. Offered'
  <2>1. ASSUME NEW s \in Slots, NEW u \in Slots, slot[s] # NoSlot, slot[u] # NoSlot,
               slot[s].offer = slot[u].offer,
               slot'[s].status = "booked", slot'[u].status = "open"
        PROVE  FALSE
    <3>1. slot[u].status = "open" /\ u \notin Locks(t) BY <1>16, <2>1
    <3>2. s = r.slot BY <1>18, <2>1, <3>1 DEF Offered
    <3>3. OpenBeside(r.slot, u) BY <1>4, <2>1, <3>1, <3>2 DEF OpenBeside, Open
    <3> QED BY <1>3, <1>4, <3>1, <3>3
  <2> QED BY <1>14, <1>15, <2>1 DEF Offered
<1>25. OneBookedPerOffer'
  <2>1. slot[r.slot] # NoSlot BY <1>2, <1>3, OpenIsThere
  <2>2. ASSUME NEW u \in Slots, slot[u].status = "booked", slot[u].offer = slot[r.slot].offer
        PROVE  FALSE
    BY <1>2, <1>3, <2>1, <2>2 DEF Offered, Open, NoSlot
  <2>3. \A s \in Slots : slot'[s].status = "booked" => slot'[s].offer = slot[s].offer
    BY <1>2, <1>15, <1>18, <2>1 DEF NoSlot
  <2> QED BY <1>2, <1>18, <2>2, <2>3 DEF OneBookedPerOffer
<1>26. BookedSlotsAreInterviews'
  <2>1. \A s \in Slots : slot'[s].status = "booked" <=> interview'[s] # NoInterview
    BY <1>2, <1>8, <1>9, <1>18 DEF BookedSlotsAreInterviews, TypeOK
  <2>2. ASSUME NEW a \in Applications, app'[a].status = "interview_scheduled"
        PROVE  \E s \in Slots : slot'[s].status = "booked" /\ slot'[s].app = a
    <3>1. CASE a = r.app
      <4>1. slot'[r.slot].status = "booked" /\ slot'[r.slot].app = a
        BY <1>2, <1>3, <1>12, <1>15, <1>18, <3>1
      <4> QED BY <1>2, <4>1
    <3>2. CASE a # r.app
      <4>1. app[a].status = "interview_scheduled" BY <1>9, <2>2, <3>2 DEF TypeOK
      <4>2. PICK s \in Slots : slot[s].status = "booked" /\ slot[s].app = a
        BY <4>1 DEF BookedSlotsAreInterviews
      <4>3. slot'[s].status = "booked" /\ slot'[s].app = a BY <1>15, <1>18, <4>2 DEF NoSlot
      <4> QED BY <4>3
    <3> QED BY <3>1, <3>2
  <2> QED BY <2>1, <2>2 DEF BookedSlotsAreInterviews
<1> QED BY <1>19, <1>21, <1>22, <1>23, <1>24, <1>25, <1>26

-----------------------------------------------------------------------------
LEMMA NextKeeps == IInv /\ [Next]_vars => IInv'
<1> SUFFICES ASSUME IInv, [Next]_vars PROVE IInv' OBVIOUS
<1>1. CASE UNCHANGED vars
  <2>1. UNCHANGED <<candidate, app, analysis, link, slot, interview, offers, req>>
    BY <1>1 DEF vars
  <2>2. interview' \in [Slots -> {NoInterview} \cup Interview] BY <2>1 DEF IInv, TypeOK
  <2> QED BY <2>1, <2>2, UnchangedEnds, InterviewKeeps
<1>2. ASSUME NEW t \in HR, ServeHR(t) PROVE IInv'
  <2>1. t \in Requests BY DEF Requests
  <2> QED BY <1>2, <2>1, BeginKeeps, CommitApplyKeeps, CommitScreenKeeps, CommitProposeKeeps
          DEF ServeHR
<1>3. ASSUME NEW t \in Visitors, ServeVisitor(t) PROVE IInv'
  <2>1. t \in Requests BY DEF Requests
  <2> QED BY <1>3, <2>1, BeginKeeps, ClaimKeeps, FreeKeeps, CommitBookKeeps DEF ServeVisitor
<1>4. ASSUME NEW t \in Workers, Work(t) PROVE IInv'
  <2>1. t \in Requests BY DEF Requests
  <2> QED BY <1>4, <2>1, BeginKeeps, CommitRejectKeeps, CommitRemindKeeps DEF Work
<1>5. ASSUME Time PROVE IInv'
  BY <1>5, WaitsKeeps, ExpiresKeeps, NearsKeeps DEF Time
<1> QED BY <1>1, <1>2, <1>3, <1>4, <1>5 DEF Next

LEMMA Invariance == Spec => []IInv
BY InitIInv, NextKeeps, PTL DEF Spec

\* Every row and every request in flight is one the handlers know.
THEOREM TypeCorrect == Spec => []TypeOK
<1>1. IInv => TypeOK BY DEF IInv
<1> QED BY <1>1, Invariance, PTL

\* book_slot never books two slots that were offered together, whatever else
\* is in flight.
THEOREM OneBookedPerOfferHolds == Spec => []OneBookedPerOffer
<1>1. IInv => OneBookedPerOffer BY DEF IInv
<1> QED BY <1>1, Invariance, PTL

\* No candidate is expected on a slot that is not booked, no slot is booked
\* for nobody, and nobody counts as scheduled without an interview.
THEOREM BookedSlotsAreInterviewsHold == Spec => []BookedSlotsAreInterviews
<1>1. IInv => BookedSlotsAreInterviews BY DEF IInv
<1> QED BY <1>1, Invariance, PTL

-----------------------------------------------------------------------------
(***************************************************************************)
(* One HR request at a time: of each resume one finding is stored, every   *)
(* verdict follows from it, and so will the one being given.  Candidates   *)
(* and the scheduler may be doing anything meanwhile.                      *)
(***************************************************************************)
OneHR == \A t, u \in HR : t = u

Given(r) ==
    r.op = "screen" => /\ Exists(r.app)
                       /\ r.resume = app[r.app].resume /\ r.tier = app[r.app].tier
                       /\ \A f \in analysis[r.resume] : f = r.found

Verdicts ==
    /\ \A r \in Resumes : \A f, g \in analysis[r] : f = g
    /\ \A a \in Applications : Exists(a) /\ app[a].tier # "none" =>
          \E f \in analysis[app[a].resume] : app[a].tier = Verdict(f, Job)
    /\ \A t \in HR : Given(req[t])

LEMMA AppAsKeeps ==
    ASSUME NEW a, NEW status
    PROVE  /\ AppAs(a, status) # NoApplication
           /\ AppAs(a, status).resume = app[a].resume /\ AppAs(a, status).tier = app[a].tier
<1>1. "tier" \in DOMAIN AppAs(a, status) BY DEF AppAs
<1>2. "tier" \notin DOMAIN NoApplication BY DEF NoApplication
<1> QED BY <1>1, <1>2 DEF AppAs

\* Most steps store no finding and give no verdict.
LEMMA QuietVerdicts ==
    ASSUME IInv, Verdicts, UNCHANGED analysis,
           \A a \in Applications : Exists(a) => /\ Exists(a)'
                                                /\ app'[a].resume = app[a].resume
                                                /\ app'[a].tier = app[a].tier,
           \A a \in Applications : ~Exists(a) /\ Exists(a)' => app'[a].tier = "none",
           \A t \in HR : req'[t] = req[t] \/ req'[t].op # "screen"
    PROVE  Verdicts'
<1>1. ASSUME NEW t \in HR PROVE Given(req[t])'
  <2>1. CASE req'[t].op # "screen" BY <2>1 DEF Given
  <2>2. CASE req'[t] = req[t] /\ req[t].op = "screen"
    <3>1. req[t].app \in Applications /\ Given(req[t])
      BY <2>2, RequestKinds DEF IInv, TypeOK, Verdicts, Requests
    <3> QED BY <2>2, <3>1 DEF Given
  <2> QED BY <2>1, <2>2
<1>2. ASSUME NEW a \in Applications, Exists(a)', app'[a].tier # "none"
      PROVE  \E f \in analysis[app'[a].resume] : app'[a].tier = Verdict(f, Job)
  BY <1>2 DEF Verdicts
<1> QED BY <1>1, <1>2 DEF Verdicts

\* A screening reuses what is stored of the resume, if anything is.
LEMMA BeginScreenGives ==
    ASSUME OneHR, IInv, Verdicts, NEW t \in HR, NEW a \in Applications, NEW found \in Findings,
           BeginScreen(t, a, found)
    PROVE  Verdicts'
<1> DEFINE request == [op |-> "screen", app |-> a, resume |-> app[a].resume,
                       status |-> app[a].status, tier |-> app[a].tier, found |-> found]
<1>1. UNCHANGED <<app, analysis>> BY DEF BeginScreen, Rows
<1>2. req'[t] = request BY DEF BeginScreen, Start, IInv, TypeOK, Requests
<1>3. app[a].resume \in Resumes BY ApplicationRow DEF BeginScreen, IInv, Application
<1>4. \A f \in analysis[app[a].resume] : f = found
  BY <1>3 DEF BeginScreen, Found, Verdicts
<1>5. Given(request) BY <1>4 DEF Given, BeginScreen
<1> HIDE DEF request
<1>6. \A u \in HR : Given(req'[u]) BY <1>2, <1>5 DEF OneHR
<1>7. \A u \in HR : Given(req[u])' BY <1>1, <1>6 DEF Given, Exists
<1> QED BY <1>1, <1>7 DEF Verdicts, Exists

\* What it stores is what was stored, and the verdict is on that.
LEMMA CommitScreenGives ==
    ASSUME OneHR, IInv, Verdicts, NEW t \in HR, CommitScreen(t)
    PROVE  Verdicts'
<1> DEFINE r == req[t]
           row == Screened(r, app[r.app])
<1>1. r.app \in Applications /\ r.resume \in Resumes
  BY RequestKinds DEF CommitScreen, IInv, TypeOK, Requests
<1>2. /\ Exists(r.app) /\ r.resume = app[r.app].resume /\ r.tier = app[r.app].tier
      /\ \A f \in analysis[r.resume] : f = r.found
  BY DEF CommitScreen, Verdicts, Given
<1>3. row.resume = r.resume /\ row.tier = Verdict(r.found, Job)
  BY <1>2 DEF Screened, Flush
<1>4. app' = [app EXCEPT ![r.app] = row]
      /\ analysis' = [analysis EXCEPT ![r.resume] = analysis[r.resume] \cup {r.found}]
  BY DEF CommitScreen
<1>5. req'[t] = Idle BY DEF CommitScreen, Finish, IInv, TypeOK, Requests
<1> HIDE DEF row
<1>6. ASSUME NEW u \in Resumes, NEW f \in analysis'[u], NEW g \in analysis'[u] PROVE f = g
  BY <1>1, <1>2, <1>4, <1>6 DEF Verdicts, IInv, TypeOK
<1>7. ASSUME NEW a \in Applications, Exists(a)', app'[a].tier # "none"
      PROVE  \E f \in analysis'[app'[a].resume] : app'[a].tier = Verdict(f, Job)
  <2>1. CASE a = r.app
    <3>1. app'[a] = row BY <1>4, <2>1 DEF IInv, TypeOK
    <3>2. r.found \in analysis'[r.resume] BY <1>1, <1>4 DEF IInv, TypeOK
    <3> QED BY <1>3, <3>1, <3>2
  <2>2. CASE a # r.app
    <3>1. app'[a] = app[a] /\ Exists(a) BY <1>4, <1>7, <2>2 DEF Exists, IInv, TypeOK
    <3>2. app[a].resume \in Resumes BY <3>1, ApplicationRow DEF IInv, Application
    <3>3. analysis[app[a].resume] \subseteq analysis'[app[a].resume]
      BY <1>1, <1>4, <3>2 DEF IInv, TypeOK
    <3> QED BY <1>7, <3>1, <3>3 DEF Verdicts
  <2> QED BY <2>1, <2>2
<1>8. \A u \in HR : Given(req[u])' BY <1>5 DEF OneHR, Given, Idle
<1> QED BY <1>6, <1>7, <1>8 DEF Verdicts

LEMMA VerdictsStep ==
    ASSUME OneHR, IInv, Verdicts, [Next]_vars
    PROVE  Verdicts'
<1> USE DEF IInv
<1>1. ASSUME UNCHANGED <<app, analysis>>, \A t \in HR : req'[t] = req[t] \/ req'[t].op # "screen"
      PROVE  Verdicts'
  BY <1>1, QuietVerdicts DEF Exists
<1>2. ASSUME NEW t \in Requests, Rollback(t) PROVE Verdicts'
  BY <1>1, <1>2 DEF Rollback, Finish, Rows, Idle, TypeOK, Requests
\* Rows written with another status.
<1>3. ASSUME NEW t \in Requests, NEW b \in Applications, NEW status, Exists(b),
             app' = [app EXCEPT ![b] = AppAs(b, status)], Finish(t), UNCHANGED analysis
      PROVE  Verdicts'
  <2> DEFINE row == AppAs(b, status)
  <2>1. row # NoApplication /\ row.resume = app[b].resume /\ row.tier = app[b].tier
    BY AppAsKeeps
  <2>2. app' = [app EXCEPT ![b] = row] BY <1>3
  <2> HIDE DEF row
  <2>3. \A a \in Applications : a # b => app'[a] = app[a] BY <2>2 DEF TypeOK
  <2>4. app'[b] = row BY <2>2 DEF TypeOK
  <2>5. \A u \in HR : req'[u] = req[u] \/ req'[u].op # "screen"
    BY <1>3 DEF Finish, Idle, TypeOK, Requests
  <2> QED BY <1>3, <2>1, <2>3, <2>4, <2>5, QuietVerdicts DEF Exists
<1>4. ASSUME NEW t \in HR, ServeHR(t) PROVE Verdicts'
  <2>1. t \in Requests /\ \A u \in HR : u = t BY DEF Requests, OneHR
  <2>2. ASSUME NEW r \in Resumes, BeginApply(t, r) PROVE Verdicts'
    BY <1>1, <2>1, <2>2 DEF BeginApply, Start, Rows, TypeOK
  <2>3. ASSUME NEW a \in Applications, BeginPropose(t, a) PROVE Verdicts'
    BY <1>1, <2>1, <2>3 DEF BeginPropose, Start, Rows, TypeOK
  <2>4. ASSUME NEW a \in Applications, CommitApply(t, a) PROVE Verdicts'
    <3> DEFINE row == [resume |-> req[t].resume, tier |-> "none", stale |-> FALSE,
                       status |-> IF ~req[t].known /\ req[t].resume \notin Readable
                                  THEN "needs_review" ELSE "received"]
    <3>1. app' = [app EXCEPT ![a] = row] /\ row.tier = "none" /\ ~Exists(a)
      BY <2>4 DEF CommitApply
    <3> HIDE DEF row
    <3>2. \A b \in Applications : IF b = a THEN app'[b] = row ELSE app'[b] = app[b]
      BY <3>1 DEF TypeOK
    <3>3. UNCHANGED analysis /\ req'[t] = Idle
      BY <2>1, <2>4 DEF CommitApply, Finish, TypeOK
    <3>4. \A u \in HR : req'[u].op # "screen" BY <2>1, <3>3 DEF Idle
    <3> QED BY <3>1, <3>2, <3>3, <3>4, QuietVerdicts DEF Exists
  <2>5. ASSUME NEW S \in SUBSET Slots, CommitPropose(t, S) PROVE Verdicts'
    <3>1. req[t].app \in Applications /\ Exists(req[t].app)
      BY <2>1, <2>5, RequestKinds DEF CommitPropose, TypeOK, Refers
    <3> QED BY <1>3, <2>1, <2>5, <3>1 DEF CommitPropose
  <2> QED BY <1>2, <1>4, <2>1, <2>2, <2>3, <2>4, <2>5, BeginScreenGives, CommitScreenGives
          DEF ServeHR
<1>5. ASSUME NEW t \in Visitors, ServeVisitor(t) PROVE Verdicts'
  <2>1. t \in Requests BY DEF Requests
  <2>2. ASSUME \/ \E a \in Applications, s \in Slots : BeginBook(t, a, s)
               \/ Claim(t) \/ Free(t)
        PROVE  Verdicts'
    <3>1. UNCHANGED <<app, analysis>> BY <2>2 DEF BeginBook, Claim, Free, Rows
    <3>2. req'[t].op = "book" /\ \A u \in Requests : u # t => req'[u] = req[u]
      BY <2>1, <2>2 DEF BeginBook, Claim, Free, Start, Continue, TypeOK
    <3> QED BY <1>1, <3>1, <3>2 DEF Requests
  <2>3. ASSUME NEW when \in {"far", "soon", "past"}, CommitBook(t, when) PROVE Verdicts'
    <3> DEFINE r == req[t]
    <3>1. r.app \in Applications /\ r.slot \in Slots /\ Holds(r)
      BY <2>1, <2>3, RequestKinds DEF CommitBook, TypeOK
    <3>2. Exists(r.app)
      BY <2>3, <3>1, OpenIsThere DEF CommitBook, Holds, Owned
    <3> QED BY <1>3, <2>1, <2>3, <3>1, <3>2 DEF CommitBook
  <2> QED BY <1>2, <1>5, <2>1, <2>2, <2>3 DEF ServeVisitor
<1>6. ASSUME NEW t \in Workers, Work(t) PROVE Verdicts'
  <2>1. t \in Requests BY DEF Requests
  <2>2. \A u \in Requests : u # t => req'[u] = req[u]
    BY <1>6 DEF Work, BeginReject, BeginRemind, CommitReject, CommitRemind, Rollback, Start,
                Finish, TypeOK
  <2>3. ASSUME BeginReject(t) \/ BeginRemind(t) PROVE req'[t].op # "screen"
    BY <2>1, <2>3 DEF BeginReject, BeginRemind, Start, TypeOK
  <2>4. ASSUME Finish(t) PROVE req'[t].op # "screen" BY <2>1, <2>4 DEF Finish, Idle, TypeOK
  <2>5. CASE BeginReject(t) \/ BeginRemind(t)
    BY <1>1, <2>2, <2>3, <2>5 DEF BeginReject, BeginRemind, Rows, Requests
  <2>6. CASE CommitRemind(t)
    BY <1>1, <2>2, <2>4, <2>6 DEF CommitRemind, Requests
  <2>7. CASE CommitReject(t)
    <3>1. req[t].stale \in SUBSET Applications /\ \A a \in req[t].stale : Exists(a)
      BY <2>1, <2>7, RequestKinds DEF CommitReject, TypeOK, Refers
    <3>2. \A a \in Applications : /\ a \in req[t].stale => app'[a] = AppAs(a, "rejected")
                                  /\ a \notin req[t].stale => app'[a] = app[a]
      BY <2>7 DEF CommitReject
    <3> QED BY <2>2, <2>4, <2>7, <3>1, <3>2, AppAsKeeps, QuietVerdicts
            DEF CommitReject, Exists, Requests
  <2> QED BY <1>2, <1>6, <2>1, <2>5, <2>6, <2>7 DEF Work
<1>7. ASSUME Time PROVE Verdicts'
  <2>1. ASSUME NEW a \in Applications, Waits(a) PROVE Verdicts'
    <3> DEFINE row == [resume |-> app[a].resume, status |-> app[a].status,
                       tier |-> app[a].tier, stale |-> TRUE]
    <3>1. row # NoApplication /\ row.resume = app[a].resume /\ row.tier = app[a].tier
      <4>1. "tier" \in DOMAIN row /\ "tier" \notin DOMAIN NoApplication BY DEF NoApplication
      <4> QED BY <4>1
    <3>2. app' = [app EXCEPT ![a] = row] /\ UNCHANGED <<analysis, req>> /\ Exists(a)
      BY <2>1 DEF Waits
    <3> HIDE DEF row
    <3>3. \A b \in Applications : IF b = a THEN app'[b] = row ELSE app'[b] = app[b]
      BY <3>2 DEF TypeOK
    <3> QED BY <3>1, <3>2, <3>3, QuietVerdicts DEF Exists
  <2>2. ASSUME \/ \E a \in Applications : Expires(a)
               \/ \E s \in Slots : Nears(s)
        PROVE  Verdicts'
    BY <1>1, <2>2 DEF Expires, Nears
  <2> QED BY <1>7, <2>1, <2>2 DEF Time
<1>8. CASE UNCHANGED vars BY <1>1, <1>8 DEF vars
<1> QED BY <1>4, <1>5, <1>6, <1>7, <1>8 DEF Next

\* One HR request at a time, two applications with one resume get one verdict:
\* whatever the model would have said a second time, it is not asked.
THEOREM SameResumeSameTierHolds ==
    ASSUME OneHR
    PROVE  Spec => []SameResumeSameTier
<1>1. Init => Verdicts
  BY DEF Init, Verdicts, Exists, Given, Idle, Requests
<1>2. IInv /\ Verdicts /\ [Next]_vars => Verdicts' BY VerdictsStep
<1>3. IInv /\ Verdicts => SameResumeSameTier
  <2> SUFFICES ASSUME IInv, Verdicts, NEW a \in Applications, NEW b \in Applications,
                      Exists(a), Exists(b), app[a].resume = app[b].resume,
                      app[a].tier # "none", app[b].tier # "none"
               PROVE  app[a].tier = app[b].tier
    BY DEF SameResumeSameTier
  <2>1. app[a].resume \in Resumes BY ApplicationRow DEF IInv, Application
  <2> QED BY <2>1 DEF Verdicts
<1> QED BY <1>1, <1>2, <1>3, Invariance, PTL DEF Spec
==============================================================================
