---------------------------- MODULE Compensation -----------------------------
(***************************************************************************)
(* The compensation timeline of one employee (modules/compensation): the   *)
(* dated versions of what they are paid, through create_version,           *)
(* delete_version and the undated set_salary (modules/payroll/routes.py).  *)
(*                                                                         *)
(* A handler reads the versions there are (Begin...) and writes the new    *)
(* one and the neighbour it closes or reopens at its commit (Commit...);   *)
(* Requests is the set of requests that may be in flight together.         *)
(***************************************************************************)
EXTENDS Integers, Sessions

CONSTANTS
    Versions,      \* identities of version rows; bound: rows ever inserted
    Amounts,       \* monthly amounts a version's lines can come to
    LastDay,       \* days are numbered from EPOCH, day 0
    MonthLength,   \* bound: every month is this long
    MaxEdits,      \* bound: times set_salary replaces the lines of a version
    Open,          \* effective_to IS NULL
    Nobody,        \* no version
    Nothing        \* no amount

ASSUME TimelineAssumption ==
    /\ LastDay \in Nat
    /\ MonthLength \in Nat \ {0}
    /\ MaxEdits \in Nat
    /\ Open \notin Int
    /\ Nobody \notin Versions
    /\ Nothing \notin Amounts

VARIABLES
    state,     \* of each version row: "unused", "live" or "deleted"
    from,      \* effective_from
    to,        \* effective_to
    amount,    \* what its lines come to
    edits,     \* how often its lines were replaced
    joined,    \* Employee.joined_on, Open when it is not known
    today

timeline == <<state, from, to, amount, edits>>
vars     == <<timeline, joined, today, req>>

Days == 0..LastDay
Live == {v \in Versions : state[v] = "live"}

Request ==
    {Idle}
    \cup [op : {"create"}, from : Days, to : Days \cup {Open},
          amount : Amounts, prev : Versions \cup {Nobody}, prevTo : Days \cup {Open}]
    \cup [op : {"replace"}, version : Versions, edits : 0..MaxEdits, amount : Amounts]
    \cup [op : {"delete"}, version : Versions, prev : Versions \cup {Nobody},
          prevTo : Days \cup {Open}]

TypeOK ==
    /\ state \in [Versions -> {"unused", "live", "deleted"}]
    /\ from \in [Versions -> Days]
    /\ to \in [Versions -> Days \cup {Open}]
    /\ amount \in [Versions -> Amounts \cup {Nothing}]
    /\ edits \in [Versions -> 0..MaxEdits]
    /\ joined \in Days \cup {Open}
    /\ today \in Days
    /\ req \in [Requests -> Request]

Init ==
    /\ state = [v \in Versions |-> "unused"]
    /\ from = [v \in Versions |-> 0]
    /\ to = [v \in Versions |-> Open]
    /\ amount = [v \in Versions |-> Nothing]
    /\ edits = [v \in Versions |-> 0]
    /\ joined \in Days \cup {Open}
    /\ today \in Days
    /\ req = [t \in Requests |-> Idle]

-----------------------------------------------------------------------------
(***************************************************************************)
(* Reading the timeline.                                                   *)
(***************************************************************************)
\* v is the one of S that starts last; Nobody when S is empty.
Latest(v, S) ==
    IF S = {} THEN v = Nobody ELSE v \in S /\ \A w \in S : from[w] <= from[v]

StartsOn(d) == {v \in Live : from[v] = d}
Before(d)   == {v \in Live : from[v] < d}
After(d)    == {v \in Live : from[v] > d}

\* The version covers the day, both ends included.
Covers(v, d) == from[v] <= d /\ (to[v] = Open \/ d <= to[v])

\* current_version: of the versions covering the day, the last to start.
Current(v, d) == Latest(v, {w \in Live : Covers(w, d)})

\* Mutant: a version dated into the past is not bounded by the next one.
MutEndFor(d) == {Open}
\* Where a version starting on d ends: the day before the next one starts.
EndFor(d) ==
    IF After(d) = {} THEN {Open}
    ELSE {from[w] - 1 : w \in {v \in After(d) : \A u \in After(d) : from[v] <= from[u]}}

EndOf(v) == IF v = Nobody THEN Open ELSE to[v]

MonthStart(d) == (d \div MonthLength) * MonthLength


-----------------------------------------------------------------------------
(***************************************************************************)
(* create_version, as the endpoint and as set_salary call it.              *)
(***************************************************************************)
\* OverlappingVersion: never a second version on the same day.
StartCreate(t, d, a) ==
    /\ StartsOn(d) = {}
    /\ \E prev \in Versions \cup {Nobody}, end \in EndFor(d) :
          /\ Latest(prev, Before(d))
          /\ Start(t, [op |-> "create", from |-> d, to |-> end,
                       amount |-> a, prev |-> prev, prevTo |-> EndOf(prev)])

BeginCreate(t, d, a) ==
    /\ StartCreate(t, d, a)
    /\ UNCHANGED <<timeline, joined, today>>

\* Mutant: the version in force is left open.
MutClosed(r) == to
\* The version that was in force is closed the day before this one begins.
\* The ORM writes effective_to only if it differs from the one it loaded.
Closed(r) ==
    IF r.prev = Nobody \/ r.prevTo = r.from - 1 THEN to
    ELSE [to EXCEPT ![r.prev] = r.from - 1]

CommitCreate(t) ==
    LET r == req[t] IN
    /\ r.op = "create"
    /\ StartsOn(r.from) = {}    \* uq_compensation_version_start
    /\ \E v \in Versions :
          /\ state[v] = "unused"
          /\ state' = [state EXCEPT ![v] = "live"]
          /\ from' = [from EXCEPT ![v] = r.from]
          /\ to' = [Closed(r) EXCEPT ![v] = r.to]
          /\ amount' = [amount EXCEPT ![v] = r.amount]
    /\ Finish(t)
    /\ UNCHANGED <<edits, joined, today>>

(***************************************************************************)
(* set_salary carries no date.  A first salary starts on the joining date, *)
(* or at EPOCH; a change starts on the first of the current month, and on  *)
(* a day some version starts already it replaces that version's lines.     *)
(***************************************************************************)
SalaryDate(d) ==
    \E cur \in Versions \cup {Nobody} :
        /\ Current(cur, today)
        /\ d = IF cur # Nobody THEN MonthStart(today) ELSE IF joined = Open THEN 0 ELSE joined

BeginSetSalary(t, a) ==
    /\ \E d \in Days :
          /\ SalaryDate(d)
          /\ \/ StartCreate(t, d, a)
             \/ \E v \in StartsOn(d) :
                   Start(t, [op |-> "replace", version |-> v, edits |-> edits[v], amount |-> a])
    /\ UNCHANGED <<timeline, joined, today>>

\* uq_compensation_line refuses the second of two replacements that loaded
\* the same lines.
CommitReplace(t) ==
    LET r == req[t] IN
    /\ r.op = "replace"
    /\ edits[r.version] = r.edits /\ r.edits < MaxEdits
    /\ amount' = [amount EXCEPT ![r.version] = r.amount]
    /\ edits' = [edits EXCEPT ![r.version] = @ + 1]
    /\ Finish(t)
    /\ UNCHANGED <<state, from, to, joined, today>>

(***************************************************************************)
(* delete_version: only the latest, and the one before it runs on.         *)
(***************************************************************************)
\* Mutant: any version can be removed.
MutBeginDelete(t, v) ==
    /\ v \in Live
    /\ \E prev \in Versions \cup {Nobody} :
          /\ Latest(prev, Live \ {v})
          /\ Start(t, [op |-> "delete", version |-> v, prev |-> prev,
                       prevTo |-> EndOf(prev)])
    /\ UNCHANGED <<timeline, joined, today>>
BeginDelete(t, v) ==
    /\ v \in Live
    /\ Latest(v, Live)
    /\ \E prev \in Versions \cup {Nobody} :
          /\ Latest(prev, Live \ {v})
          /\ Start(t, [op |-> "delete", version |-> v, prev |-> prev,
                       prevTo |-> EndOf(prev)])
    /\ UNCHANGED <<timeline, joined, today>>

\* effective_to is written only if the version read was a closed one.
Reopened(r) ==
    IF r.prev = Nobody \/ r.prevTo = Open THEN to ELSE [to EXCEPT ![r.prev] = Open]

CommitDelete(t) ==
    LET r == req[t] IN
    /\ r.op = "delete"
    /\ state' = [state EXCEPT ![r.version] = "deleted"]
    /\ to' = Reopened(r)
    /\ Finish(t)
    /\ UNCHANGED <<from, amount, edits, joined, today>>

Rollback(t) ==
    /\ req[t] # Idle
    /\ Finish(t)
    /\ UNCHANGED <<timeline, joined, today>>

Tomorrow ==
    /\ today < LastDay
    /\ today' = today + 1
    /\ UNCHANGED <<timeline, joined, req>>

-----------------------------------------------------------------------------
Handler(t) ==
    \/ \E d \in Days, a \in Amounts : BeginCreate(t, d, a)
    \/ CommitCreate(t)
    \/ \E a \in Amounts : BeginSetSalary(t, a)
    \/ CommitReplace(t)
    \/ \E v \in Versions : BeginDelete(t, v)
    \/ CommitDelete(t)
    \/ Rollback(t)

Next == (\E t \in Requests : Handler(t)) \/ Tomorrow

Spec == Init /\ [][Next]_vars

-----------------------------------------------------------------------------
(***************************************************************************)
(* Properties.                                                             *)
(***************************************************************************)

\* "Gapless and non-overlapping by construction": a live version runs to the
\* day before the next one starts, and the last to start runs on.  Any order
\* of dated changes, undated ones and withdrawals keeps it, one at a time.
Tiles ==
    \A v \in Live :
        \/ to[v] = Open /\ \A w \in Live : from[w] <= from[v]
        \/ \E w \in Live : /\ to[v] # Open /\ from[w] = to[v] + 1 /\ from[v] < from[w]
                           /\ \A u \in Live : from[u] <= from[v] \/ from[w] <= from[u]

\* The amount in force on a day.
PayOn(d) ==
    IF \E v \in Live : Covers(v, d)
    THEN amount[CHOOSE v \in Live : Current(v, d)]
    ELSE Nothing
Schedule == INSTANCE PaySchedule WITH pay <- [d \in Days |-> PayOn(d)]

\* The timeline as PaySchedule promises it, one request at a time: create,
\* replace and delete change the amount of one span of days and no other,
\* and never leave a day without pay behind one that has it.
ImplementsPaySchedule == Schedule!Spec

\* delete_version takes only the latest because "a period that resolves to no
\* salary pays nobody": no day after a version's start is without one.
NoGap ==
    \A v \in Live, d \in Days : from[v] <= d => \E w \in Live : Covers(w, d)

\* Of any number of requests in flight, only a deletion can open a gap: each
\* new version is bounded by one that is still there, and the one it closes
\* ends where it starts, however stale the timeline it was dated against.
OnlyDeletionOpensGap == (\A v \in Versions : state[v] # "deleted") => NoGap
==============================================================================
