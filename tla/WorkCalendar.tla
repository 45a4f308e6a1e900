---------------------------- MODULE WorkCalendar -----------------------------
(***************************************************************************)
(* Who works on which days (modules/work_calendar): calendars with a       *)
(* weekly pattern and holidays, assigned to the company or to one of its   *)
(* establishments from a date.  Payroll, leave and attendance ask which    *)
(* calendar is in force for an employee on a day.                          *)
(*                                                                         *)
(* A handler reads when it begins and writes when it commits; Requests may *)
(* be in flight together.  Days are consecutive, Monday being the days     *)
(* divisible by seven.                                                     *)
(***************************************************************************)
EXTENDS Integers, FiniteSets, SequencesExt, Sessions

CONSTANTS
    Calendars,
    Establishments,
    Rows,                \* bound: assignments alive at once
    Weeks,               \* the weekly patterns that are used
    FirstDay, LastDay,   \* the days looked at
    HolidayDays,         \* those that may become holidays
    Nowhere              \* the establishment of an employee who has none

DefaultWeek == 0..4      \* Monday to Friday

ASSUME WorkCalendarAssumption ==
    /\ FirstDay \in Nat /\ LastDay \in Nat /\ FirstDay <= LastDay
    /\ Nowhere \notin Establishments
    /\ "company" \notin Establishments
    /\ Weeks \subseteq SUBSET (0..6) /\ DefaultWeek \in Weeks /\ {} \notin Weeks

VARIABLES
    created,     \* the calendars, by (created_at, id)
    week,        \* the weekly pattern of each
    holidays,    \* the days off on each
    assignment   \* who uses which calendar, and from when

vars == <<created, week, holidays, assignment, req>>

Days  == FirstDay..LastDay
Past  == FirstDay - 1          \* 1 January 2000, before all of them
Scopes == {"company"} \cup Establishments
Assignment == [calendar : Calendars, scope : Scopes, from : Days \cup {Past}, to : Days]
NoRow == [scope |-> "none"]

Request ==
    {Idle}
    \cup [op : {"week"}, week : Weeks, covered : BOOLEAN]
    \cup [op : {"holiday"}, day : HolidayDays, covered : BOOLEAN]
    \cup [op : {"look", "create"}, covered : BOOLEAN]
    \cup [op : {"delete"}, row : Rows]

TypeOK ==
    /\ created \in Seq(Calendars) /\ IsInjective(created)
    /\ week \in [Calendars -> Weeks]
    /\ holidays \in [Calendars -> SUBSET HolidayDays]
    /\ assignment \in [Rows -> {NoRow} \cup Assignment]
    /\ req \in [Requests -> Request]

Init ==
    /\ created = <<>>
    /\ week = [c \in Calendars |-> DefaultWeek]
    /\ holidays = [c \in Calendars |-> {}]
    /\ assignment = [r \in Rows |-> NoRow]
    /\ req = [t \in Requests |-> Idle]

-----------------------------------------------------------------------------
(***************************************************************************)
(* Resolution.  The latest of the most specific assignments that cover the *)
(* day; several can be, and the query gives them in no order.              *)
(***************************************************************************)
Live == {r \in Rows : assignment[r] # NoRow}

\* Mutant: an assignment has been in force for ever.
MutCovers(a, day) == day <= a.to
Covers(a, day) == a.from <= day /\ day <= a.to

Matches(site, day) ==
    {r \in Live : Covers(assignment[r], day) /\ assignment[r].scope \in {"company", site}}

\* Mutant: the later assignment wins, whatever its scope.
MutBeats(a, b) == a.from > b.from
\* Specificity beats recency.
Beats(a, b) ==
    \/ a.scope # "company" /\ b.scope = "company"
    \/ a.scope = b.scope /\ a.from > b.from

PickAssignment(site, day) ==
    {r \in Matches(site, day) :
        \A q \in Matches(site, day) : ~Beats(assignment[q], assignment[r])}

DefaultCalendar == created[1]
CompanyRows == {r \in Live : assignment[r].scope = "company"}

\* The calendars that may be found in force.
ResolveFor(site, day) ==
    IF PickAssignment(site, day) = {} THEN {DefaultCalendar}
    ELSE {assignment[r].calendar : r \in PickAssignment(site, day)}

IsWorkingDay(c, day) == day % 7 \in week[c] /\ day \notin holidays[c]

CountWorkingDays(c, start, end) ==
    Cardinality({day \in start..end : IsWorkingDay(c, day)})

\* Mutant: the calendar is resolved at the end.
MutBillableDays(site, start, end) ==
    {CountWorkingDays(c, start, end) : c \in ResolveFor(site, end)}
\* What a leave may be billed, or the working days of a period of payroll: one
\* calendar, resolved at the start.
BillableDays(site, start, end) ==
    {CountWorkingDays(c, start, end) : c \in ResolveFor(site, start)}

-----------------------------------------------------------------------------
Data == <<created, week, holidays, assignment>>

Missing == Calendars \ Range(created)
Unused  == Rows \ Live

(***************************************************************************)
(* default_calendar, which most handlers begin with: the oldest calendar,  *)
(* made if there is none, and assigned to the company if none is.          *)
(***************************************************************************)
CoverCompany(covered, default) ==
    IF covered THEN UNCHANGED assignment
    ELSE \E r \in Unused :
            assignment' = [assignment EXCEPT ![r] =
                [calendar |-> default, scope |-> "company", from |-> Past, to |-> LastDay]]

Begins(t, request) ==
    /\ Start(t, request)
    /\ UNCHANGED Data

BeginLook(t) == Begins(t, [op |-> "look", covered |-> CompanyRows # {}])
BeginWeek(t, w) == Begins(t, [op |-> "week", week |-> w, covered |-> CompanyRows # {}])
BeginHoliday(t, day) == Begins(t, [op |-> "holiday", day |-> day, covered |-> CompanyRows # {}])
BeginCreate(t) == Begins(t, [op |-> "create", covered |-> CompanyRows # {}])

\* The default calendar of a request about to commit: the one that is there,
\* or one it has made itself.
Default(c, after) ==
    IF created # <<>> THEN c = DefaultCalendar /\ after = created
    ELSE c \in Missing /\ after = <<c>>

\* get_work_week, list_calendars, and whoever resolves without an assignment.
CommitLook(t, c) ==
    /\ req[t].op = "look"
    /\ Default(c, created')
    /\ CoverCompany(req[t].covered, c)
    /\ Finish(t)
    /\ UNCHANGED <<week, holidays>>

\* set_work_week
CommitWeek(t, c) ==
    /\ req[t].op = "week"
    /\ Default(c, created')
    /\ CoverCompany(req[t].covered, c)
    /\ week' = [week EXCEPT ![c] = req[t].week]
    /\ Finish(t)
    /\ UNCHANGED holidays

\* add_holiday; of a day that is one already, it changes the name.
CommitHoliday(t, c) ==
    /\ req[t].op = "holiday"
    /\ Default(c, created')
    /\ CoverCompany(req[t].covered, c)
    /\ holidays' = [holidays EXCEPT ![c] = @ \cup {req[t].day}]
    /\ Finish(t)
    /\ UNCHANGED week

\* create_calendar.  Both calendars of a first request carry the time the
\* transaction began, so that their random ids decide which is the older.
CommitCreate(t, c, new, w) ==
    /\ req[t].op = "create"
    /\ new \in Missing \ {c}
    /\ \/ created # <<>> /\ c = DefaultCalendar /\ created' = Append(created, new)
       \/ created = <<>> /\ c \in Missing /\ created' \in {<<c, new>>, <<new, c>>}
    /\ CoverCompany(req[t].covered, c)
    /\ week' = [week EXCEPT ![new] = w]
    /\ Finish(t)
    /\ UNCHANGED holidays

\* add_calendar_holiday and remove_holiday, on any calendar.
AddCalendarHoliday(c, day) ==
    /\ c \in Range(created)
    /\ day \notin holidays[c]
    /\ holidays' = [holidays EXCEPT ![c] = @ \cup {day}]
    /\ UNCHANGED <<created, week, assignment, req>>

RemoveHoliday(c, day) ==
    /\ day \in holidays[c]
    /\ holidays' = [holidays EXCEPT ![c] = @ \ {day}]
    /\ UNCHANGED <<created, week, assignment, req>>

\* create_assignment: from any day to any day, whatever there is already.
CreateAssignment(c, scope, from, to) ==
    /\ c \in Range(created)
    /\ \E r \in Unused :
          assignment' = [assignment EXCEPT ![r] =
              [calendar |-> c, scope |-> scope, from |-> from, to |-> to]]
    /\ UNCHANGED <<created, week, holidays, req>>

\* delete_assignment: the company keeps one, on some days.
\* Mutant: any assignment can be deleted.
MutBeginDelete(t, r) == r \in Live /\ Begins(t, [op |-> "delete", row |-> r])
BeginDelete(t, r) ==
    /\ r \in Live
    /\ r \in CompanyRows => CompanyRows \ {r} # {}
    /\ Begins(t, [op |-> "delete", row |-> r])

CommitDelete(t) ==
    /\ req[t].op = "delete"
    /\ assignment' = [assignment EXCEPT ![req[t].row] = NoRow]
    /\ Finish(t)
    /\ UNCHANGED <<created, week, holidays>>

Rollback(t) ==
    /\ req[t] # Idle
    /\ Finish(t)
    /\ UNCHANGED Data

Handler(t) ==
    \/ BeginLook(t)
    \/ \E w \in Weeks : BeginWeek(t, w)
    \/ \E day \in HolidayDays : BeginHoliday(t, day)
    \/ BeginCreate(t)
    \/ \E r \in Rows : BeginDelete(t, r)
    \/ \E c \in Calendars : CommitLook(t, c) \/ CommitWeek(t, c) \/ CommitHoliday(t, c)
    \/ \E c, new \in Calendars, w \in Weeks : CommitCreate(t, c, new, w)
    \/ CommitDelete(t)
    \/ Rollback(t)

Edit(c) ==
    \/ \E day \in HolidayDays : AddCalendarHoliday(c, day) \/ RemoveHoliday(c, day)
    \/ \E scope \in Scopes, from, to \in Days : CreateAssignment(c, scope, from, to)

Next ==
    \/ \E t \in Requests : Handler(t)
    \/ \E c \in Calendars : Edit(c)

Spec == Init /\ [][Next]_vars

-----------------------------------------------------------------------------
Sites == Establishments \cup {Nowhere}
Configured == created # <<>>

\* "A company-wide calendar introduced in July must not silently take over a
\* site that has had its own since 2020": while the assignments of a site stay
\* what they are, so does its calendar on the days they cover, whatever is
\* created, deleted or dated at the company's scope.
Own(site) == {r \in Live : assignment[r].scope = site}
OwnCalendarStands ==
    [][\A site \in Establishments :
          (Own(site) = Own(site)' /\ \A r \in Own(site) : assignment'[r] = assignment[r]) =>
             \A day \in Days :
                (\E r \in Own(site) : Covers(assignment[r], day)) =>
                    ResolveFor(site, day)' = ResolveFor(site, day)]_vars

\* "A company that resolves nothing is paid for zero working days": once there
\* is a calendar, some assignment is the company's, through any sequence of
\* first uses, creations and deletions, one after another.
CompanyStaysCovered == Configured => CompanyRows # {}

\* Assignments are effective-dated: whatever one says, what was in force on the
\* days before it starts, and after it ends, stays in force.
EffectiveFromItsDate ==
    [][\A c \in Calendars, scope \in Scopes, from, to \in Days :
          CreateAssignment(c, scope, from, to) =>
             \A site \in Sites, day \in Days :
                (day < from \/ day > to) => ResolveFor(site, day)' = ResolveFor(site, day)]_vars

\* "An assignment that changes mid-period takes effect the following period":
\* a period that has begun is still counted by the calendar it began with, all
\* of it; one that begins under the new assignment is counted by the new
\* calendar, all of it, unless the site has its own or a later one.
Outranked(site, day, scope, from) ==
    \E r \in Matches(site, day) :
        \/ scope = "company" /\ assignment[r].scope = site
        \/ scope = assignment[r].scope /\ assignment[r].from >= from
MidPeriodChangeWaits ==
    [][\A c \in Calendars, scope \in Scopes, from, to \in Days :
          CreateAssignment(c, scope, from, to) =>
             \A site \in Sites, start \in Days : \A end \in start..LastDay :
                /\ start < from => BillableDays(site, start, end)' = BillableDays(site, start, end)
                /\ scope \in {"company", site} /\ start \in from..to
                      /\ ~Outranked(site, start, scope, from) =>
                         BillableDays(site, start, end)' = {CountWorkingDays(c, start, end)}]_vars
==============================================================================
