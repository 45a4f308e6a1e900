-------------------------------- MODULE Inbox --------------------------------
(***************************************************************************)
(* The exception inbox of one company (core/inbox), its one producer       *)
(* (modules/payroll/inbox_sync) and its daily sweep.                       *)
(*                                                                         *)
(* The producer reports the work facts still waiting for approval, each to *)
(* the login of the employee's manager; a sync opens what is new and       *)
(* closes what is no longer reported.  A key (user, fact) can have several *)
(* rows over time.  A sweep syncs, escalates, mails, and commits last: the *)
(* mails cannot be taken back.  What became of a row once it is closed     *)
(* (its age, whether it was told) is read by nothing and left out.         *)
(***************************************************************************)
EXTENDS Naturals, Sessions

CONSTANTS
    Users,          \* managers who log in, each with a mail address
    Facts,          \* work facts
    EscalateAfter,  \* ESCALATE_AFTER_DAYS; ages beyond it are alike
    MaxItems,       \* bound: rows ever opened for one key
    Nobody          \* no manager, or one without a login

ASSUME InboxAssumption ==
    /\ EscalateAfter \in Nat
    /\ MaxItems \in Nat
    /\ Nobody \notin Users

VARIABLES
    pending,  \* facts unapproved, recent, and of a month not finalized
    manager,  \* whose approval a fact waits for
    item      \* the rows of each key

world   == <<pending, manager>>
boxVars == <<pending, manager, item, req>>

Keys == Users \X Facts
Rows == 1..MaxItems
\* mailed is no column: a mail has told the owner of the row.
Row  == [state : {"none", "open", "resolved", "dismissed"}, age : 0..EscalateAfter,
         escalated : BOOLEAN, notified : BOOLEAN, mailed : BOOLEAN]
Put(state) == [state |-> state, age |-> 0, escalated |-> FALSE, notified |-> FALSE,
               mailed |-> FALSE]

BoxRequest ==
    {Idle}
    \cup [op : {"sync", "sweep"}, reported : SUBSET Keys, loaded : [Keys -> [Rows -> Row]],
          pick : [Keys -> 0..MaxItems], told : SUBSET Users]
    \cup [op : {"dismiss"}, key : Keys, row : Rows, loaded : Row]

BoxTypeOK ==
    /\ pending \subseteq Facts
    /\ manager \in [Facts -> Users \cup {Nobody}]
    /\ item \in [Keys -> [Rows -> Row]]
    /\ req \in [Requests -> BoxRequest]

BoxInit ==
    /\ pending = {}
    /\ manager \in [Facts -> Users \cup {Nobody}]
    /\ item = [k \in Keys |-> [i \in Rows |-> Put("none")]]
    /\ req = [t \in Requests |-> Idle]

-----------------------------------------------------------------------------

\* sync_pending_work_facts: what must be somebody's, and whose.
Reported == {<<manager[f], f>> : f \in {g \in pending : manager[g] # Nobody}}

\* Mutant: dismissed rows are not looked up.
MutExisting(rows) == {i \in Rows : rows[i].state = "open"}
\* The rows a sync compares with.
Existing(rows) == {i \in Rows : rows[i].state \in {"open", "dismissed"}}
\* One of them for each key, in no particular order; 0 if there is none.
Picks == {p \in [Keys -> 0..MaxItems] :
            \A k \in Keys : IF Existing(item[k]) = {} THEN p[k] = 0
                            ELSE p[k] \in Existing(item[k])}

(***************************************************************************)
(* sync, from what it loaded.                                              *)
(***************************************************************************)
Opens(r, k) == k \in r.reported /\ r.pick[k] = 0

\* Mutant: what is not reported stays open.
MutResolves(r, k, i) == FALSE
Resolves(r, k, i) ==
    k \notin r.reported /\ i = r.pick[k] /\ r.loaded[k][i].state = "open"
StillOpen(r, k, i) == r.loaded[k][i].state = "open" /\ ~Resolves(r, k, i)

(***************************************************************************)
(* The sweep goes on: escalate_due, send_digests.                          *)
(***************************************************************************)
Escalates(r, k, i) ==
    r.op = "sweep" /\ StillOpen(r, k, i) /\ r.loaded[k][i].age >= EscalateAfter
Unsent(r) ==
    {ki \in Keys \X Rows :
        StillOpen(r, ki[1], ki[2]) /\ ~r.loaded[ki[1]][ki[2]].notified}
\* One mail for each person with something new.
ToTell(r) ==
    IF r.op = "sync" THEN {}
    ELSE {u \in Users : \/ \E ki \in Unsent(r) : ki[1][1] = u
                        \/ \E k \in Keys : k[1] = u /\ Opens(r, k)}

\* The row after the commit: of what is there now, the columns that changed.
\* Mutant: a sighting restarts the age.
MutRefreshed(r, k, i) ==
    [item[k][i] EXCEPT !.age = IF StillOpen(r, k, i) THEN 0 ELSE @,
                       !.escalated = @ \/ Escalates(r, k, i),
                       !.notified = @ \/ (r.op = "sweep" /\ <<k, i>> \in Unsent(r))]
Refreshed(r, k, i) ==
    LET row == item[k][i] IN
    [state |-> row.state, age |-> row.age, mailed |-> row.mailed,
     escalated |-> row.escalated \/ Escalates(r, k, i),
     notified |-> row.notified \/ (r.op = "sweep" /\ <<k, i>> \in Unsent(r))]
SavedItem(r, k, i) ==
    IF Resolves(r, k, i) THEN Put("resolved")
    ELSE IF item[k][i].state = "open" THEN Refreshed(r, k, i)
    ELSE item[k][i]

Free(k) == {i \in Rows : item[k][i].state = "none"}
Slot(k) == CHOOSE i \in Free(k) : \A j \in Free(k) : i <= j
\* uq_inbox_open refuses a second open row.
CanOpen(k) == Free(k) # {} /\ \A i \in Rows : item[k][i].state # "open"
Opened(r) == [state |-> "open", age |-> 0, escalated |-> FALSE,
              notified |-> (r.op = "sweep"), mailed |-> (r.op = "sweep")]

BeginSync(t, op) ==
    /\ \E p \in Picks :
          Start(t, [op |-> op, reported |-> Reported, loaded |-> item, pick |-> p,
                    told |-> {}])
    /\ UNCHANGED <<world, item>>

CommitSync(t) ==
    LET r == req[t]
        new == {k \in Keys : Opens(r, k)}
    IN
    /\ r.op \in {"sync", "sweep"}
    /\ r.told = ToTell(r)
    /\ \A k \in new : CanOpen(k)
    /\ item' = [k \in Keys |-> [i \in Rows |->
                  IF k \in new /\ i = Slot(k) THEN Opened(r) ELSE SavedItem(r, k, i)]]
    /\ Finish(t)
    /\ UNCHANGED world

Told(r, u) == [op |-> r.op, reported |-> r.reported, loaded |-> r.loaded, pick |-> r.pick,
               told |-> r.told \cup {u}]
\* The row after the mail to u: open, and in the mail, it is told of.
Mailed(r, u, k, i) ==
    LET row == item[k][i] IN
    [state |-> row.state, age |-> row.age, escalated |-> row.escalated,
     notified |-> row.notified,
     mailed |-> row.mailed \/ (<<k, i>> \in Unsent(r) /\ k[1] = u /\ row.state = "open")]

Mail(t, u) ==
    LET r == req[t] IN
    /\ r.op = "sweep"
    /\ u \in ToTell(r) \ r.told
    /\ req' = [req EXCEPT ![t] = Told(r, u)]
    /\ item' = [k \in Keys |-> [i \in Rows |-> Mailed(r, u, k, i)]]
    /\ UNCHANGED world

(***************************************************************************)
(* dismiss: the owner says of a row, whatever its state, that it is not a  *)
(* problem.                                                                *)
(***************************************************************************)
\* Mutant: the answer is recorded in a word the model does not have.
MutDismissed(row) == Put("dismiss")
Dismissed(row) == Put("dismissed")

BeginDismiss(t, k, i) ==
    /\ item[k][i].state # "none"
    /\ Start(t, [op |-> "dismiss", key |-> k, row |-> i, loaded |-> item[k][i]])
    /\ UNCHANGED <<world, item>>

CommitDismiss(t) ==
    LET r == req[t] IN
    /\ r.op = "dismiss"
    /\ item' = [k \in Keys |-> [i \in Rows |->
                  IF k = r.key /\ i = r.row /\ r.loaded.state # "dismissed"
                  THEN Dismissed(item[k][i]) ELSE item[k][i]]]
    /\ Finish(t)
    /\ UNCHANGED world

\* Any exception: a mail that fails, a refused row.  What was mailed stays so.
BoxRollback(t) ==
    /\ req[t] # Idle
    /\ Finish(t)
    /\ UNCHANGED <<world, item>>

-----------------------------------------------------------------------------
\* Facts are recorded, derived, approved and deleted, months are finalized,
\* and reporting lines change.  The bound is on what can be reported again.
CanReport(u, f) == u # Nobody => Free(<<u, f>>) # {}

FactPending(f) ==
    /\ f \notin pending
    /\ CanReport(manager[f], f)
    /\ pending' = pending \cup {f}
    /\ UNCHANGED <<manager, item, req>>

FactSettled(f) ==
    /\ f \in pending
    /\ pending' = pending \ {f}
    /\ UNCHANGED <<manager, item, req>>

ManagerChanges(f, u) ==
    /\ u # manager[f]
    /\ CanReport(u, f)
    /\ manager' = [manager EXCEPT ![f] = u]
    /\ UNCHANGED <<pending, item, req>>

Older(row) == IF row.state = "open" /\ row.age < EscalateAfter
              THEN [row EXCEPT !.age = row.age + 1] ELSE row
Tomorrow ==
    /\ item' = [k \in Keys |-> [i \in Rows |-> Older(item[k][i])]]
    /\ UNCHANGED <<world, req>>

BoxHandler(t) ==
    \/ \E op \in {"sync", "sweep"} : BeginSync(t, op)
    \/ CommitSync(t)
    \/ \E u \in Users : Mail(t, u)
    \/ \E k \in Keys, i \in Rows : BeginDismiss(t, k, i)
    \/ CommitDismiss(t)
    \/ BoxRollback(t)

BoxWorld(f) ==
    \/ FactPending(f)
    \/ FactSettled(f)
    \/ \E u \in Users \cup {Nobody} : ManagerChanges(f, u)

BoxNext ==
    \/ \E t \in Requests : BoxHandler(t)
    \/ \E f \in Facts : BoxWorld(f)
    \/ Tomorrow

BoxSpec == BoxInit /\ [][BoxNext]_boxVars

\* Days pass, every transaction ends, and the sweep is scheduled every day: it
\* may fail on any of them, at any point, but not at the same point for ever.
Fairness ==
    /\ WF_boxVars(Tomorrow)
    /\ \A t \in Requests :
          /\ WF_boxVars(CommitSync(t) \/ CommitDismiss(t) \/ BoxRollback(t))
          /\ SF_boxVars(BeginSync(t, "sweep"))
          /\ SF_boxVars(req[t].op = "sweep" /\ CommitSync(t))
          /\ \A u \in Users, T \in SUBSET Users :
                SF_boxVars(req[t].op = "sweep" /\ req[t].told = T /\ Mail(t, u))

FairSpec == BoxSpec /\ Fairness

-----------------------------------------------------------------------------
(***************************************************************************)
(* Properties.                                                             *)
(***************************************************************************)
IsOpen(k, i) == item[k][i].state = "open"
WasDismissed(k) == \E i \in Rows : item[k][i].state = "dismissed"

\* "Items are RECONCILED, not accumulated": after a sync, what is open is
\* what was reported, whoever it belonged to before and however often it was
\* fixed and came back, except where a person has said it is not a problem.
SyncReconciles ==
    [][\A t \in Requests : CommitSync(t) =>
          \A k \in Keys : ~WasDismissed(k) =>
             ((\E i \in Rows : IsOpen(k, i)') <=> k \in req[t].reported)]_boxVars

\* "Dismissed items are left alone": nothing opens for a person and a fact
\* the person has dismissed, in any later sync, after any number of fixes.
DismissedStaysDown ==
    [][\A k \in Keys : WasDismissed(k) =>
          \A i \in Rows : IsOpen(k, i)' => IsOpen(k, i)]_boxVars

\* "Escalation, not repetition, is how this product raises its voice": an item
\* that stays open is mailed to its owner and escalated in the end, if the
\* sweep is not failing for ever.
OpenItemsAreRaised ==
    \A k \in Keys, i \in Rows :
        IsOpen(k, i) ~> ~IsOpen(k, i) \/ (item[k][i].escalated /\ item[k][i].mailed)
==============================================================================
