------------------------------ MODULE WorkFacts ------------------------------
(***************************************************************************)
(* The work facts of one employee in one month (modules/payroll/workforce) *)
(* and the bridge that derives them from attendance (modules/attendance).  *)
(* A fact says what a day was; payroll reads it once somebody approved it. *)
(* Its status stands for all that is recorded: hours, overtime, site.      *)
(*                                                                         *)
(* A handler reads (Begin...) and writes at its commit (Commit...), by the *)
(* id of the row it read and only the columns that differ from it.         *)
(* Requests is the set of requests that may be in flight together.         *)
(***************************************************************************)
EXTENDS Naturals, Sessions

CONSTANTS
    FactDays,
    Statuses,    \* what a person may record of a day
    Sources,     \* where a recorded fact may say it comes from
    MaxFacts     \* bound: rows ever inserted for one day

ASSUME FactsAssumption ==
    /\ {"worked", "absent", "leave"} \subseteq Statuses
    /\ "attendance" \in Sources
    /\ MaxFacts \in Nat

VARIABLES
    attendance,  \* day_state of each day, as punches, leave and calendar have it
    fact,        \* the fact of each day, the last one inserted
    closed       \* the month's payroll is finalized

factVars == <<attendance, fact, closed, req>>

DayStates == {"off", "leave", "absent", "missing_punch", "present"}
\* approved stands for approved_at, signed for approved_by: one person approves.
Fact == [live : BOOLEAN, row : 0..MaxFacts, status : Statuses,
         source : Sources, approved : BOOLEAN, signed : BOOLEAN]
NoFact == [live |-> FALSE, row |-> 0, status |-> "worked",
           source |-> "attendance", approved |-> FALSE, signed |-> FALSE]

FactRequest ==
    {Idle}
    \cup [op : {"record"}, day : FactDays, status : Statuses, source : Sources,
          loaded : [FactDays -> Fact]]
    \cup [op : {"approve"}, days : SUBSET FactDays, loaded : [FactDays -> Fact]]
    \cup [op : {"delete"}, day : FactDays, loaded : [FactDays -> Fact]]
    \cup [op : {"derive"}, seen : [FactDays -> DayStates], loaded : [FactDays -> Fact]]
    \cup [op : {"finalize"}]

FactTypeOK ==
    /\ attendance \in [FactDays -> DayStates]
    /\ fact \in [FactDays -> Fact]
    /\ closed \in BOOLEAN
    /\ req \in [Requests -> FactRequest]

FactInit ==
    /\ attendance = [d \in FactDays |-> "absent"]
    /\ fact = [d \in FactDays |-> NoFact]
    /\ closed = FALSE
    /\ req = [t \in Requests |-> Idle]

-----------------------------------------------------------------------------

\* The ORM writes a column only if it differs from the one it loaded.
Flush(loaded, new, current) == IF new = loaded THEN current ELSE new
\* An approval carries the time, so that a new one always differs.
FlushTime(loaded, new, current) == IF new \/ loaded THEN new ELSE current

\* An UPDATE by id: of the row that was loaded, if it is still the day's.
\* A deleted row is read by nothing.
Stands(d, loaded) == fact[d].live /\ fact[d].row = loaded.row
Updated(d, loaded, new) ==
    IF ~Stands(d, loaded) THEN fact[d]
    ELSE [fact[d] EXCEPT !.status   = Flush(loaded.status, new.status, @),
                         !.source   = Flush(loaded.source, new.source, @),
                         !.approved = FlushTime(loaded.approved, new.approved, @),
                         !.signed   = Flush(loaded.signed, new.signed, @)]
Removed(d, loaded) ==
    IF Stands(d, loaded) THEN [NoFact EXCEPT !.row = loaded.row] ELSE fact[d]

\* uq_work_fact_employee_day refuses a second live fact for the day.
CanInsert(d) == ~fact[d].live /\ fact[d].row < MaxFacts
Inserted(d, new) == [new EXCEPT !.live = TRUE, !.row = fact[d].row + 1]

Saved(d, loaded, new) ==
    IF loaded.live THEN Updated(d, loaded, new) ELSE Inserted(d, new)

(***************************************************************************)
(* record_fact: record or replace one day, unapproved.  record_facts is    *)
(* the same for several days of one transaction.                           *)
(***************************************************************************)
\* Mutant: re-recording a day keeps its approval.
MutRecorded(r, loaded) ==
    [loaded EXCEPT !.status = r.status, !.source = r.source]
Recorded(r, loaded) ==
    [loaded EXCEPT !.status = r.status, !.source = r.source,
                   !.approved = FALSE, !.signed = FALSE]

BeginRecord(t, d, status, source) ==
    /\ ~closed
    /\ Start(t, [op |-> "record", day |-> d, status |-> status, source |-> source, loaded |-> fact])
    /\ UNCHANGED <<attendance, fact, closed>>

CommitRecord(t) ==
    LET r == req[t] IN
    /\ r.op = "record"
    /\ r.loaded[r.day].live \/ CanInsert(r.day)
    /\ fact' = [fact EXCEPT ![r.day] =
                  Saved(r.day, r.loaded[r.day],
                        Recorded(r, IF r.loaded[r.day].live THEN r.loaded[r.day] ELSE NoFact))]
    /\ Finish(t)
    /\ UNCHANGED <<attendance, closed>>

(***************************************************************************)
(* approve_facts: somebody signs off days, whatever the rows say by then.  *)
(***************************************************************************)
\* Mutant: the closed month is not checked.
MutBeginApprove(t, S) ==
    /\ S # {} /\ \A d \in S : fact[d].live
    /\ Start(t, [op |-> "approve", days |-> S, loaded |-> fact])
    /\ UNCHANGED <<attendance, fact, closed>>
BeginApprove(t, S) ==
    /\ ~closed
    /\ S # {} /\ \A d \in S : fact[d].live
    /\ Start(t, [op |-> "approve", days |-> S, loaded |-> fact])
    /\ UNCHANGED <<attendance, fact, closed>>

CommitApprove(t) ==
    LET r == req[t] IN
    /\ r.op = "approve"
    /\ fact' = [d \in FactDays |->
                  IF d \in r.days
                  THEN Updated(d, r.loaded[d],
                               [r.loaded[d] EXCEPT !.approved = TRUE, !.signed = TRUE])
                  ELSE fact[d]]
    /\ Finish(t)
    /\ UNCHANGED <<attendance, closed>>

BeginDelete(t, d) ==
    /\ ~closed
    /\ fact[d].live
    /\ Start(t, [op |-> "delete", day |-> d, loaded |-> fact])
    /\ UNCHANGED <<attendance, fact, closed>>

CommitDelete(t) ==
    LET r == req[t] IN
    /\ r.op = "delete"
    /\ fact' = [fact EXCEPT ![r.day] = Removed(r.day, r.loaded[r.day])]
    /\ Finish(t)
    /\ UNCHANGED <<attendance, closed>>

(***************************************************************************)
(* derive_period: a fact for every day that needs one, from what           *)
(* attendance says of it.                                                  *)
(***************************************************************************)
StatusOf(state) ==
    CASE state = "absent" -> "absent"
      [] state = "leave" -> "leave"
      [] OTHER -> "worked"

\* Mutant: an unexplained absence arrives signed off.
MutAutoApprove(state) == state # "missing_punch"
\* A missing punch is not an absence, and neither is signed off by itself.
AutoApprove(state) == state \notin {"absent", "missing_punch"}

\* Mutant: what a person recorded is derived over.
MutTyped(f) == FALSE
\* A person recorded it.
Typed(f) == f.live /\ f.source # "attendance"

Derived(d, state, loaded) ==
    IF Typed(loaded) THEN fact[d]
    ELSE IF state = "off"
    THEN IF loaded.live THEN Removed(d, loaded) ELSE fact[d]
    ELSE Saved(d, loaded,
               [(IF loaded.live THEN loaded ELSE NoFact) EXCEPT
                   !.status = StatusOf(state), !.approved = AutoApprove(state),
                   !.signed = FALSE])

BeginDerive(t) ==
    /\ ~closed
    /\ Start(t, [op |-> "derive", seen |-> attendance, loaded |-> fact])
    /\ UNCHANGED <<attendance, fact, closed>>

CommitDerive(t) ==
    LET r == req[t] IN
    /\ r.op = "derive"
    /\ \A d \in FactDays : ~r.loaded[d].live /\ r.seen[d] # "off" => CanInsert(d)
    /\ fact' = [d \in FactDays |-> Derived(d, r.seen[d], r.loaded[d])]
    /\ Finish(t)
    /\ UNCHANGED <<attendance, closed>>

(***************************************************************************)
(* finalize_run closes the month; any exception rolls a request back; and  *)
(* punches, corrections and leave go on changing what attendance says.     *)
(***************************************************************************)
BeginFinalize(t) ==
    /\ ~closed
    /\ Start(t, [op |-> "finalize"])
    /\ UNCHANGED <<attendance, fact, closed>>

CommitFinalize(t) ==
    /\ req[t].op = "finalize"
    /\ closed' = TRUE
    /\ Finish(t)
    /\ UNCHANGED <<attendance, fact>>

FactRollback(t) ==
    /\ req[t] # Idle
    /\ Finish(t)
    /\ UNCHANGED <<attendance, fact, closed>>

AttendanceChanges(d, state) ==
    /\ attendance' = [attendance EXCEPT ![d] = state]
    /\ UNCHANGED <<fact, closed, req>>

-----------------------------------------------------------------------------
FactHandler(t) ==
    \/ \E d \in FactDays, status \in Statuses, source \in Sources :
          BeginRecord(t, d, status, source)
    \/ CommitRecord(t)
    \/ \E S \in SUBSET FactDays : BeginApprove(t, S)
    \/ CommitApprove(t)
    \/ \E d \in FactDays : BeginDelete(t, d)
    \/ CommitDelete(t)
    \/ BeginDerive(t)
    \/ CommitDerive(t)
    \/ BeginFinalize(t)
    \/ CommitFinalize(t)
    \/ FactRollback(t)

FactNext ==
    \/ \E t \in Requests : FactHandler(t)
    \/ \E d \in FactDays, state \in DayStates : AttendanceChanges(d, state)

FactSpec == FactInit /\ [][FactNext]_factVars

-----------------------------------------------------------------------------
(***************************************************************************)
(* Properties.                                                             *)
(***************************************************************************)
\* confirmed_absences: the day costs its pay.
Docked(f) == f.live /\ f.status = "absent" /\ f.approved

\* "A MISSING PUNCH NEVER BECOMES LOP": a day comes to cost its pay only when
\* somebody approves that day, whatever attendance says, however often facts
\* are derived, imported, recorded again or deleted in between.
DockedOnlyByApproval ==
    [][\A d \in FactDays : ~Docked(fact[d]) /\ Docked(fact'[d]) =>
          \E t \in Requests : CommitApprove(t) /\ d \in req[t].days]_factVars

\* "An approved fact that quietly changed underneath its approver": while an
\* approval stands, what was approved does not change.
SignedFactsStand ==
    [][\A d \in FactDays :
          fact[d].live /\ fact[d].signed /\ fact'[d].signed /\ fact'[d].row = fact[d].row =>
             fact'[d].status = fact[d].status]_factVars

\* An approval is somebody's, or the bridge's own of what attendance explains:
\* no approval without a name stands on an absence or on what a person typed,
\* however recordings, derivations and approvals of the day follow each other.
AccountedFor(f) ==
    f.live /\ f.approved => f.signed \/ (f.source = "attendance" /\ f.status # "absent")
ApprovalsAreAccountedFor == \A d \in FactDays : AccountedFor(fact[d])

\* Every handler that writes facts refuses a finalized month: served in turn,
\* no sequence of requests changes its facts or opens it again.  A request
\* that found the month open and commits after it closed is not excluded here.
ClosedFactsStand == [][closed => UNCHANGED <<fact, closed>>]_factVars
==============================================================================
