------------------------------ MODULE Attendance -----------------------------
(***************************************************************************)
(* The punches of one employee, and the days they are read as              *)
(* (modules/attendance).  Punches are only ever added; which day a punch   *)
(* belongs to, and what that day was, is derived whenever somebody asks.   *)
(*                                                                         *)
(* An instant is a number of slots since a midnight in UTC, a minute some  *)
(* of them; the clock of the company is ahead of UTC, or behind it, by the *)
(* offset of its timezone.  A punch of one's own reads the day             *)
(* (BeginPunch) and is written at the commit; what decides on nothing it   *)
(* reads is one step of a request.                                         *)
(*                                                                         *)
(* Rows alike in kind and instant are one element of punches: read one     *)
(* after the other, the second only adds to a list of anomalies that the   *)
(* screens show and nothing decides on.  A check-in and a check-out at one *)
(* instant are read in any order: the rows are sorted by their time alone. *)
(***************************************************************************)
EXTENDS Integers, FiniteSets, FiniteSetsExt, Sessions

CONSTANTS
    Minute,      \* slots in a minute
    DayLength,   \* slots in a day
    Offsets,     \* the timezones of the company's policy
    Horizon,     \* bound: the last instant
    MaxPunches,  \* bound
    DaysOff,     \* of "weekly_off", "holiday"
    LeaveKinds,  \* of "paid_leave", "unpaid_leave"
    WorkdayStart, Grace   \* the rest of the policy, in slots

ASSUME AttendanceAssumption ==
    /\ {Minute, DayLength} \subseteq Nat \ {0} /\ Horizon \in Nat /\ MaxPunches \in Nat
    /\ Offsets \subseteq (-DayLength)..DayLength /\ Offsets # {}
    /\ DaysOff \subseteq {"weekly_off", "holiday"}
    /\ LeaveKinds \subseteq {"paid_leave", "unpaid_leave"}
    /\ {WorkdayStart, Grace} \subseteq Nat

VARIABLES
    now,
    punches,     \* the events
    offset,      \* the policy's timezone
    calendar,    \* what the work calendar says of each day
    leave        \* the approved leave of each day

vars == <<now, punches, offset, calendar, leave, req>>

Instants == 0..Horizon
Days == (Min(Offsets) \div DayLength)..((Horizon + Max(Offsets)) \div DayLength)
Kinds == {"in", "out"}
Punch == [kind : Kinds, at : Instants]
DayKinds == {"working"} \cup DaysOff
Leaves == {"none"} \cup LeaveKinds

Request == {Idle} \cup [op : {"punch"}, kind : Kinds, at : Instants]

\* Nothing but the instants, days and kinds there are.
TypeOK ==
    /\ now \in Instants
    /\ punches \in SUBSET Punch
    /\ offset \in Offsets
    /\ calendar \in [Days -> DayKinds]
    /\ leave \in [Days -> Leaves]
    /\ req \in [Requests -> Request]

Init ==
    /\ now = 0
    /\ punches = {}
    /\ offset \in Offsets
    /\ calendar \in [Days -> DayKinds]
    /\ leave = [d \in Days |-> "none"]
    /\ req = [t \in Requests |-> Idle]

-----------------------------------------------------------------------------
(***************************************************************************)
(* Days.                                                                   *)
(***************************************************************************)
LocalDay(instant) == (instant + offset) \div DayLength
\* derive_period takes the date of its clock, which is UTC.
UtcDay == now \div DayLength

PunchesOf(d) == {p \in punches : LocalDay(p.at) = d}

\* A reading of the rows: the instants at which it has the check-in after the
\* check-out, of those that have both.
Event(kind, at) == [kind |-> kind, at |-> at]
Ties == {i \in Instants : {Event("in", i), Event("out", i)} \subseteq punches}
Readings == SUBSET Ties

(***************************************************************************)
(* pair_events: in order of time, the first check-in of several counts, an *)
(* out without one counts for nothing, the last may be open still.  Each   *)
(* session counts its whole minutes.                                       *)
(***************************************************************************)
Nothing == -1
NoPunch == [openAt |-> Nothing, firstIn |-> Nothing, worked |-> 0]

\* Mutant: tapping twice restarts the clock.
MutCheckIn(day, at) == [day EXCEPT !.openAt = at, !.firstIn = IF @ = Nothing THEN at ELSE @]
CheckIn(day, at) ==
    IF day.openAt = Nothing
    THEN [day EXCEPT !.openAt = at, !.firstIn = IF @ = Nothing THEN at ELSE @]
    ELSE day

\* Mutant: an out leaves the clock running.
MutCheckOut(day, at) ==
    IF day.openAt = Nothing THEN day
    ELSE [day EXCEPT !.worked = @ + (at - day.openAt) \div Minute]
CheckOut(day, at) ==
    IF day.openAt = Nothing THEN day
    ELSE [day EXCEPT !.worked = @ + (at - day.openAt) \div Minute, !.openAt = Nothing]

\* The rows of one instant.
PairAt(own, order, day, i) ==
    LET in  == Event("in", i) \in own
        out == Event("out", i) \in own
    IN IF in /\ out
       THEN IF i \in order THEN CheckIn(CheckOut(day, i), i) ELSE CheckOut(CheckIn(day, i), i)
       ELSE IF in THEN CheckIn(day, i) ELSE IF out THEN CheckOut(day, i) ELSE day

\* What a day comes to before each instant.
PairEvents(own, order) ==
    LET before[i \in 0..Horizon + 1] ==
            IF i = 0 THEN NoPunch ELSE PairAt(own, order, before[i - 1], i - 1)
    IN before[Horizon + 1]

\* An open day counts up to now; nobody is late on a day off.
SummaryOf(d, order) ==
    LET paired  == PairEvents(PunchesOf(d), order)
        open    == paired.openAt # Nothing
        running == IF open /\ now > paired.openAt THEN (now - paired.openAt) \div Minute ELSE 0
    IN [firstIn |-> paired.firstIn, worked |-> paired.worked + running, open |-> open,
        late |-> calendar[d] = "working" /\ paired.firstIn # Nothing
                 /\ paired.firstIn + offset > d * DayLength + WorkdayStart + Grace]

\* Mutant: a punch nobody closed is a day's work.
MutDayState(d, today, order) ==
    IF calendar[d] # "working" THEN calendar[d]
    ELSE IF SummaryOf(d, order).firstIn # Nothing THEN "present"
    ELSE IF leave[d] # "none" THEN leave[d] ELSE "absent"
DayState(d, today, order) ==
    IF calendar[d] # "working" THEN calendar[d]
    ELSE IF SummaryOf(d, order).firstIn # Nothing
         THEN IF SummaryOf(d, order).open /\ d < today THEN "missing_punch" ELSE "present"
    ELSE IF leave[d] # "none" THEN leave[d] ELSE "absent"

\* states_for_today and today_for, by the company's clock.
StateToday(order) == DayState(LocalDay(now), LocalDay(now), order)

\* bridge.derive, of the state derive_period takes.
Derive(d, order) ==
    LET state == DayState(d, UtcDay, order) IN
    CASE state \in {"holiday", "weekly_off"}         -> [status |-> "none", approved |-> FALSE]
      [] state \in {"paid_leave", "unpaid_leave"}    -> [status |-> "leave", approved |-> TRUE]
      [] state = "absent"                            -> [status |-> "absent", approved |-> FALSE]
      [] state = "missing_punch"                     -> [status |-> "worked", approved |-> FALSE]
      [] state = "present"                           -> [status |-> "worked", approved |-> TRUE]

(***************************************************************************)
(* Steps.                                                                  *)
(***************************************************************************)
\* By the reading of its own query.
MayPunch(kind) ==
    \E order \in Readings : (kind = "out") = SummaryOf(LocalDay(now), order).open

\* ess.punch, at the server's time.
BeginPunch(t, kind) ==
    /\ MayPunch(kind)
    /\ Start(t, [op |-> "punch", kind |-> kind, at |-> now])
    /\ UNCHANGED <<now, punches, offset, calendar, leave>>

CommitPunch(t) ==
    /\ req[t].op = "punch"
    /\ Cardinality(punches) < MaxPunches
    /\ punches' = punches \cup {Event(req[t].kind, req[t].at)}
    /\ Finish(t)
    /\ UNCHANGED <<now, offset, calendar, leave>>

Rollback(t) ==
    /\ req[t] # Idle
    /\ Finish(t)
    /\ UNCHANGED <<now, punches, offset, calendar, leave>>

\* punch_on_behalf: any kind, at any time.
PunchOnBehalf(t, kind, at) ==
    /\ req[t] = Idle
    /\ Cardinality(punches) < MaxPunches
    /\ punches' = punches \cup {Event(kind, at)}
    /\ UNCHANGED <<now, offset, calendar, leave, req>>

\* update_policy: every punch is read by the new timezone.
UpdatePolicy(t, o) ==
    /\ req[t] = Idle
    /\ offset' = o
    /\ UNCHANGED <<now, punches, calendar, leave, req>>

Tick ==
    /\ now < Horizon
    /\ now' = now + 1
    /\ UNCHANGED <<punches, offset, calendar, leave, req>>

\* The calendar and the leave are other modules'.
Declare(d, kind) ==
    /\ calendar' = [calendar EXCEPT ![d] = kind]
    /\ UNCHANGED <<now, punches, offset, leave, req>>
DecideLeave(d, kind) ==
    /\ leave' = [leave EXCEPT ![d] = kind]
    /\ UNCHANGED <<now, punches, offset, calendar, req>>

Handler(t) ==
    \/ \E kind \in Kinds : BeginPunch(t, kind)
    \/ CommitPunch(t)
    \/ Rollback(t)
    \/ \E kind \in Kinds, at \in Instants : PunchOnBehalf(t, kind, at)
    \/ \E o \in Offsets : UpdatePolicy(t, o)

World ==
    \/ Tick
    \/ \E d \in Days, kind \in DayKinds : Declare(d, kind)
    \/ \E d \in Days, kind \in Leaves : DecideLeave(d, kind)

Next == (\E t \in Requests : Handler(t)) \/ World

Spec == Init /\ [][Next]_vars

-----------------------------------------------------------------------------
\* A clock that a check-in starts and a check-out stops: it runs in each slot
\* after some check-in of the day with no check-out since, if a check-out of the
\* day ended it or it is past.
Since(q, p, order) == q.at > p.at \/ (q.at = p.at /\ q.at \notin order)
OnTheClock(d, order, i) ==
    /\ \E p \in PunchesOf(d) :
          /\ p.kind = "in" /\ p.at <= i
          /\ \A q \in PunchesOf(d) : q.kind = "out" /\ q.at <= i => ~Since(q, p, order)
    /\ i < now \/ \E q \in PunchesOf(d) : q.kind = "out" /\ q.at > i
CheckIns(d) == {i \in Instants : Event("in", i) \in PunchesOf(d)}

\* The minutes worked on a day are those the clock ran, but for less than a
\* minute of each session (no session without its check-in), in whatever order
\* the punches were recorded and the ties are read.
WorkedMatchesClock ==
    \A d \in Days, order \in Readings :
       LET counted == Minute * SummaryOf(d, order).worked
           ran     == Cardinality({i \in Instants : OnTheClock(d, order, i)})
       IN counted <= ran /\ ran <= counted + (Minute - 1) * Cardinality(CheckIns(d))

\* "Someone tapping twice shouldn't restart their clock and lose the earlier
\* minutes": one more check-in, whenever and by whoever, takes no time from its
\* day and makes nobody late who had come in.
CheckInNeverLoses ==
    [][\A d \in Days, order \in Readings' :
          (\E p \in punches' \ punches : p.kind = "in" /\ LocalDay(p.at) = d) =>
             \A before \in {SummaryOf(d, order)}, after \in {SummaryOf(d, order)'} :
                /\ before.worked <= after.worked
                /\ before.firstIn # Nothing => (after.late => before.late)]_vars

\* What is read last of a day is a leaving.
LeftLast(d, order) ==
    \E q \in PunchesOf(d) :
       /\ q.kind = "out"
       /\ \A p \in PunchesOf(d) : p.kind = "in" => Since(q, p, order)

\* "Somebody worked and the record is incomplete - which is NOT absence": a
\* check-in on a working day is a day's work to everybody who asks, and the
\* bridge signs it off just if the day is not over in UTC or what is read last
\* of it is the leaving.
EvidenceIsNotAbsence ==
    \A order \in Readings, p \in punches :
       LET d == LocalDay(p.at) IN
       (p.kind = "in" /\ calendar[d] = "working") =>
          /\ Derive(d, order).status = "worked"
          /\ Derive(d, order).approved <=> UtcDay <= d \/ LeftLast(d, order)
          /\ d = LocalDay(now) => StateToday(order) = "present"

==============================================================================
