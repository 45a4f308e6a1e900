------------------------------- MODULE Hiring --------------------------------
(***************************************************************************)
(* One company's applicants (modules/ats, modules/public): applications    *)
(* come in, are screened by a language model, are offered interview slots, *)
(* and a candidate books one by a link; a daily job rejects whoever has    *)
(* waited long, an hourly one reminds of interviews.                       *)
(*                                                                         *)
(* A handler reads, awaits the model or the mail server, and commits.  An  *)
(* exception anywhere rolls it back.  Booking is written with conditional  *)
(* UPDATEs, which lock the rows they change until the transaction ends: a  *)
(* statement that meets a locked row waits.  HR, Visitors and Workers are  *)
(* the requests that may be in flight together: of HR users, of candidates *)
(* and of the scheduler.                                                   *)
(***************************************************************************)
EXTENDS Scoring

CONSTANTS
    Resumes,       \* resume files, told apart by their checksum
    Readable,      \* those that text can be extracted from
    Applications,
    Slots,
    HR, Visitors, Workers,
    Findings,      \* what the model may find in a resume: score, skills, years
    Job,           \* the opening they apply for
    MaxOffers      \* bound: proposals of slots

ASSUME OffersAssumption == MaxOffers \in Nat

VARIABLES
    candidate,   \* resumes with a candidate row
    app,         \* applications
    analysis,    \* what was found in each resume, as stored
    link,        \* applications with a booking link that has not expired
    slot,        \* interview slots
    interview,   \* the interview booked on each slot
    offers,      \* proposals so far
    req

vars == <<candidate, app, analysis, link, slot, interview, offers, req>>

Requests == HR \cup Visitors \cup Workers

Statuses == {"received", "needs_review", "shortlisted", "pending_reject",
             "interview_proposed", "interview_scheduled", "rejected"}
\* stale: screened longer ago than the grace window.
Application == [resume : Resumes, status : Statuses, tier : Tiers \cup {"none"}, stale : BOOLEAN]
NoApplication == [status |-> "none"]
Slot == [app : Applications, offer : 1..MaxOffers, status : {"open", "booked", "cancelled"}]
NoSlot == [status |-> "none"]
\* An interview is far (more than a day ahead), soon or past.
Interview == [when : {"far", "soon", "past"}, reminded : BOOLEAN]
NoInterview == [when |-> "none"]

Idle == [op |-> "idle"]
Stages == {"resolved", "claimed"}
Request ==
    {Idle}
    \cup [op : {"apply"}, resume : Resumes, known : BOOLEAN]
    \cup [op : {"screen"}, app : Applications, resume : Resumes,
          status : Statuses, tier : Tiers \cup {"none"}, found : Findings]
    \cup [op : {"propose"}, app : Applications, loaded : Statuses]
    \cup [op : {"book"}, stage : Stages, app : Applications, slot : Slots, seen : SUBSET Slots]
    \cup [op : {"book"}, stage : {"freed"}, app : Applications, slot : Slots,
          freed : SUBSET Slots, loaded : Statuses]
    \cup [op : {"reject"}, stale : SUBSET Applications]
    \cup [op : {"remind"}, due : SUBSET Slots]

TypeOK ==
    /\ candidate \in SUBSET Resumes
    /\ app \in [Applications -> {NoApplication} \cup Application]
    /\ analysis \in [Resumes -> SUBSET Findings]
    /\ link \in SUBSET Applications
    /\ slot \in [Slots -> {NoSlot} \cup Slot]
    /\ interview \in [Slots -> {NoInterview} \cup Interview]
    /\ offers \in 0..MaxOffers
    /\ req \in [Requests -> Request]

Init ==
    /\ candidate = {}
    /\ app = [a \in Applications |-> NoApplication]
    /\ analysis = [r \in Resumes |-> {}]
    /\ link = {}
    /\ slot = [s \in Slots |-> NoSlot]
    /\ interview = [s \in Slots |-> NoInterview]
    /\ offers = 0
    /\ req = [t \in Requests |-> Idle]

-----------------------------------------------------------------------------
Start(t, request) == req[t] = Idle /\ req' = [req EXCEPT ![t] = request]
Continue(t, request) == req' = [req EXCEPT ![t] = request]
Finish(t) == req' = [req EXCEPT ![t] = Idle]
Rows == <<candidate, app, analysis, link, slot, interview, offers>>

Exists(a) == app[a] # NoApplication
\* The application's row, and the slot's, with another status.
AppAs(a, status) ==
    [resume |-> app[a].resume, status |-> status, tier |-> app[a].tier, stale |-> app[a].stale]
SlotAs(s, status) == [app |-> slot[s].app, offer |-> slot[s].offer, status |-> status]
\* The ORM writes a column only if it differs from the one it loaded.
Flush(loaded, new, current) == IF new = loaded THEN current ELSE new

(***************************************************************************)
(* apply: the same resume is one candidate.  A resume without text waits   *)
(* for a person, when it is new.                                           *)
(***************************************************************************)
BeginApply(t, r) ==
    /\ Start(t, [op |-> "apply", resume |-> r, known |-> r \in candidate])
    /\ UNCHANGED Rows

\* uq_candidate_resume refuses a second candidate with one resume.
CommitApply(t, a) ==
    LET r == req[t] IN
    /\ r.op = "apply"
    /\ ~Exists(a)
    /\ r.known \/ r.resume \notin candidate
    /\ candidate' = candidate \cup {r.resume}
    /\ app' = [app EXCEPT ![a] =
                  [resume |-> r.resume, tier |-> "none", stale |-> FALSE,
                   status |-> IF ~r.known /\ r.resume \notin Readable THEN "needs_review" ELSE "received"]]
    /\ Finish(t)
    /\ UNCHANGED <<analysis, link, slot, interview, offers>>

(***************************************************************************)
(* screen_application: of any application, in any status.  What was found  *)
(* in the same resume before is reused; otherwise the model is asked.      *)
(***************************************************************************)
\* Mutant: nothing is reused.
MutFound(r) == Findings
Found(r) == IF analysis[r] # {} THEN analysis[r] ELSE Findings

BeginScreen(t, a, found) ==
    /\ Exists(a)
    /\ found \in Found(app[a].resume)
    /\ Start(t, [op |-> "screen", app |-> a, resume |-> app[a].resume,
                 status |-> app[a].status, tier |-> app[a].tier, found |-> found])
    /\ UNCHANGED Rows

Screened(r, row) ==
    LET tier == Verdict(r.found, Job)
        status == IF tier \in Shortlisted THEN "shortlisted" ELSE "pending_reject"
    IN [resume |-> row.resume, stale |-> FALSE,
        tier |-> Flush(r.tier, tier, row.tier), status |-> Flush(r.status, status, row.status)]

CommitScreen(t) ==
    LET r == req[t] IN
    /\ r.op = "screen"
    /\ analysis' = [analysis EXCEPT ![r.resume] = @ \cup {r.found}]
    /\ app' = [app EXCEPT ![r.app] = Screened(r, @)]
    /\ Finish(t)
    /\ UNCHANGED <<candidate, link, slot, interview, offers>>

(***************************************************************************)
(* propose_slots: new slots for an application in any status, under the    *)
(* link it has, or a new one.                                              *)
(***************************************************************************)
BeginPropose(t, a) ==
    /\ Exists(a)
    /\ Start(t, [op |-> "propose", app |-> a, loaded |-> app[a].status])
    /\ UNCHANGED Rows

CommitPropose(t, S) ==
    LET r == req[t] IN
    /\ r.op = "propose"
    /\ offers < MaxOffers
    /\ S # {} /\ \A s \in S : slot[s] = NoSlot
    /\ offers' = offers + 1
    /\ slot' = [s \in Slots |->
                  IF s \in S THEN [app |-> r.app, offer |-> offers + 1, status |-> "open"]
                  ELSE slot[s]]
    /\ link' = link \cup {r.app}
    /\ app' = [app EXCEPT ![r.app] =
                  AppAs(r.app, Flush(r.loaded, "interview_proposed", app[r.app].status))]
    /\ Finish(t)
    /\ UNCHANGED <<candidate, analysis, interview>>

(***************************************************************************)
(* book_slot: claim the slot if it is still open, cancel the others that   *)
(* are open, then write the interview.  The first two are UPDATEs that     *)
(* lock what they change; the second sees the slots committed when it      *)
(* begins, waits for those that others have locked, and looks again.       *)
(***************************************************************************)
Open(s) == slot[s].status = "open"
OpenFor(a) == {s \in Slots : Open(s) /\ slot[s].app = a}

\* The slots whose rows a request in flight has changed.
Locks(t) ==
    IF req[t].op # "book" THEN {}
    ELSE CASE req[t].stage = "resolved" -> {}
           [] req[t].stage = "freed"    -> {req[t].slot} \cup req[t].freed
           [] OTHER                     -> {req[t].slot}
Unlocked(t, S) == \A u \in Requests : u # t => Locks(u) \cap S = {}

BeginBook(t, a, s) ==
    /\ a \in link
    /\ slot[s] # NoSlot
    /\ Start(t, [op |-> "book", stage |-> "resolved", app |-> a, slot |-> s, seen |-> {}])
    /\ UNCHANGED Rows

\* Mutant: only the slot itself is taken out of the offer.
MutOthers(r) == {}
Others(r) == OpenFor(r.app) \ {r.slot}

\* The first statement, and what the second begins with: what commits between
\* them could as well have committed before.
Claim(t) ==
    LET r == req[t] IN
    /\ r.op = "book" /\ r.stage = "resolved"
    /\ r.slot \in OpenFor(r.app)
    /\ Unlocked(t, {r.slot})
    /\ Continue(t, [op |-> "book", stage |-> "claimed", app |-> r.app, slot |-> r.slot,
                    seen |-> Others(r)])
    /\ UNCHANGED Rows

\* Mutant: what was open when the statement began is cancelled, whatever it is now.
MutFree(t) ==
    LET r == req[t] IN
    /\ r.op = "book" /\ r.stage = "claimed"
    /\ Unlocked(t, r.seen)
    /\ Continue(t, [op |-> "book", stage |-> "freed", app |-> r.app, slot |-> r.slot,
                    freed |-> r.seen, loaded |-> app[r.app].status])
    /\ UNCHANGED Rows
Free(t) ==
    LET r == req[t] IN
    /\ r.op = "book" /\ r.stage = "claimed"
    /\ Unlocked(t, r.seen)
    /\ Continue(t, [op |-> "book", stage |-> "freed", app |-> r.app, slot |-> r.slot,
                    freed |-> {s \in r.seen : Open(s)}, loaded |-> app[r.app].status])
    /\ UNCHANGED Rows

CommitBook(t, when) ==
    LET r == req[t] IN
    /\ r.op = "book" /\ r.stage = "freed"
    /\ slot' = [s \in Slots |->
                  IF s = r.slot THEN SlotAs(s, "booked")
                  ELSE IF s \in r.freed THEN SlotAs(s, "cancelled")
                  ELSE slot[s]]
    /\ interview' = [interview EXCEPT ![r.slot] = [when |-> when, reminded |-> FALSE]]
    /\ app' = [app EXCEPT ![r.app] =
                  AppAs(r.app, Flush(r.loaded, "interview_scheduled", app[r.app].status))]
    /\ Finish(t)
    /\ UNCHANGED <<candidate, analysis, link, offers>>

(***************************************************************************)
(* The beat jobs: auto_reject_stale mails and rejects, all or none;        *)
(* send_interview_reminders mails whose interview is soon, once.           *)
(***************************************************************************)
Stale == {a \in Applications : Exists(a) /\ app[a].status = "pending_reject" /\ app[a].stale}

BeginReject(t) ==
    /\ Stale # {}
    /\ Start(t, [op |-> "reject", stale |-> Stale])
    /\ UNCHANGED Rows

CommitReject(t) ==
    LET r == req[t] IN
    /\ r.op = "reject"
    /\ app' = [a \in Applications |->
                 IF a \in r.stale THEN AppAs(a, "rejected") ELSE app[a]]
    /\ Finish(t)
    /\ UNCHANGED <<candidate, analysis, link, slot, interview, offers>>

Due == {s \in Slots : interview[s].when = "soon" /\ ~interview[s].reminded}

BeginRemind(t) ==
    /\ Due # {}
    /\ Start(t, [op |-> "remind", due |-> Due])
    /\ UNCHANGED Rows

CommitRemind(t) ==
    LET r == req[t] IN
    /\ r.op = "remind"
    /\ interview' = [s \in Slots |->
                       IF s \in r.due THEN [when |-> interview[s].when, reminded |-> TRUE]
                       ELSE interview[s]]
    /\ Finish(t)
    /\ UNCHANGED <<candidate, app, analysis, link, slot, offers>>

\* A mail or the model fails, the slot is gone, an index refuses the row, or
\* the database ends a deadlock: nothing is written and no lock is kept.
Rollback(t) ==
    /\ req[t] # Idle
    /\ Finish(t)
    /\ UNCHANGED Rows

-----------------------------------------------------------------------------
(***************************************************************************)
(* Time: the grace window passes, links expire, interviews come nearer.    *)
(***************************************************************************)
\* screened_at is only looked at while a rejection is pending.
Waits(a) ==
    /\ Exists(a) /\ app[a].status = "pending_reject" /\ ~app[a].stale
    /\ app' = [app EXCEPT ![a] = [resume |-> app[a].resume, status |-> app[a].status,
                                  tier |-> app[a].tier, stale |-> TRUE]]
    /\ UNCHANGED <<candidate, analysis, link, slot, interview, offers, req>>

Expires(a) ==
    /\ a \in link
    /\ link' = link \ {a}
    /\ UNCHANGED <<candidate, app, analysis, slot, interview, offers, req>>

Nears(s) ==
    /\ interview[s].when \in {"far", "soon"}
    /\ interview' = [interview EXCEPT ![s] =
                       [when |-> IF interview[s].when = "far" THEN "soon" ELSE "past",
                        reminded |-> interview[s].reminded]]
    /\ UNCHANGED <<candidate, app, analysis, link, slot, offers, req>>

ServeHR(t) ==
    \/ \E r \in Resumes : BeginApply(t, r)
    \/ \E a \in Applications, found \in Findings : BeginScreen(t, a, found)
    \/ \E a \in Applications : BeginPropose(t, a)
    \/ \E a \in Applications : CommitApply(t, a)
    \/ CommitScreen(t)
    \/ \E S \in SUBSET Slots : CommitPropose(t, S)
    \/ Rollback(t)

ServeVisitor(t) ==
    \/ \E a \in Applications, s \in Slots : BeginBook(t, a, s)
    \/ Claim(t)
    \/ Free(t)
    \/ \E when \in {"far", "soon", "past"} : CommitBook(t, when)
    \/ Rollback(t)

Work(t) ==
    \/ BeginReject(t)
    \/ CommitReject(t)
    \/ BeginRemind(t)
    \/ CommitRemind(t)
    \/ Rollback(t)

Time ==
    \/ \E a \in Applications : Waits(a)
    \/ \E a \in Applications : Expires(a)
    \/ \E s \in Slots : Nears(s)

Next ==
    \/ \E t \in HR : ServeHR(t)
    \/ \E t \in Visitors : ServeVisitor(t)
    \/ \E t \in Workers : Work(t)
    \/ Time

Spec == Init /\ [][Next]_vars

-----------------------------------------------------------------------------
\* Of the slots offered together, at most one is ever booked, however many
\* tabs the candidate has open: book_slot frees the others, and two bookings
\* that each hold a slot of the other wait for each other until the database
\* ends one.
OneBookedPerOffer ==
    \A s, u \in Slots :
        slot[s].status = "booked" /\ slot[u].status = "booked" /\ slot[s].offer = slot[u].offer
            => s = u

\* The interviews and the booked slots are the same, so that no candidate is
\* expected on a slot that was freed and no slot is held for nobody; and a
\* candidate counted as scheduled has an interview.
BookedSlotsAreInterviews ==
    /\ \A s \in Slots : slot[s].status = "booked" <=> interview[s] # NoInterview
    /\ \A a \in Applications :
          app[a].status = "interview_scheduled"
              => \E s \in Slots : slot[s].status = "booked" /\ slot[s].app = a

\* Two applications with one resume get one verdict, whatever the model would
\* have said a second time: what was found in the resume is stored and reused.
\* It is a statement about one HR request at a time; two screenings in flight
\* both ask the model.
SameResumeSameTier ==
    \A a, b \in Applications :
        (Exists(a) /\ Exists(b)) =>
            (app[a].resume = app[b].resume /\ app[a].tier # "none" /\ app[b].tier # "none"
                => app[a].tier = app[b].tier)
==============================================================================
