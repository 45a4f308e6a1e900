------------------------- MODULE WorkCalendarProofs --------------------------
(***************************************************************************)
(* Theorems about WorkCalendar, for every set of calendars, sites, rows,   *)
(* patterns and days.  All but CompanyStaysCoveredHolds are about any      *)
(* number of requests in flight; that one is about requests served in      *)
(* turn, since two deletions in flight may remove both of the company's    *)
(* assignments.                                                            *)
(***************************************************************************)
EXTENDS WorkCalendar, TLAPS

\* Nothing is assigned before there is a calendar to assign.
AssignedIsCreated == created = <<>> => Live = {}

IInv == TypeOK /\ AssignedIsCreated

LEMMA RequestKinds ==
    ASSUME NEW r \in Request
    PROVE  /\ r.op \in {"look", "week", "holiday", "create"} => r.covered \in BOOLEAN
           /\ r.op = "week" => r.week \in Weeks
           /\ r.op = "holiday" => r.day \in HolidayDays
           /\ r.op = "delete" => r.row \in Rows
BY DEF Request, Idle

LEMMA AssignmentRow ==
    ASSUME NEW c \in Calendars, NEW scope \in Scopes,
           NEW from \in Days \cup {Past}, NEW to \in Days
    PROVE  LET a == [calendar |-> c, scope |-> scope, from |-> from, to |-> to]
           IN  a \in Assignment /\ a # NoRow
<1> DEFINE a == [calendar |-> c, scope |-> scope, from |-> from, to |-> to]
<1>1. a \in Assignment BY DEF Assignment
<1>2. "calendar" \in DOMAIN a /\ "calendar" \notin DOMAIN NoRow BY DEF NoRow
<1> QED BY <1>1, <1>2

\* default_calendar leaves a well-typed table, and every assignment it met.
LEMMA CoverCompanyKeeps ==
    ASSUME TypeOK, NEW covered \in BOOLEAN, NEW c \in Calendars, CoverCompany(covered, c)
    PROVE  /\ assignment' \in [Rows -> {NoRow} \cup Assignment]
           /\ \A r \in Live : assignment'[r] = assignment[r]
           /\ ~covered => CompanyRows' # {}
<1>1. CASE covered BY <1>1 DEF CoverCompany, TypeOK
<1>2. CASE ~covered
  <2> DEFINE a == [calendar |-> c, scope |-> "company", from |-> Past, to |-> LastDay]
  <2>1. LastDay \in Days BY WorkCalendarAssumption DEF Days
  <2>2. a \in Assignment /\ a # NoRow /\ a.scope = "company"
    BY <2>1, AssignmentRow DEF Scopes
  <2>3. PICK r \in Unused : assignment' = [assignment EXCEPT ![r] = a]
    BY <1>2 DEF CoverCompany
  <2> HIDE DEF a
  <2>4. assignment' \in [Rows -> {NoRow} \cup Assignment] BY <2>2, <2>3 DEF TypeOK, Unused
  <2>5. \A q \in Live : assignment'[q] = assignment[q] BY <2>3 DEF TypeOK, Unused, Live
  <2>6. r \in CompanyRows' BY <2>2, <2>3 DEF TypeOK, Unused, CompanyRows, Live
  <2> QED BY <2>4, <2>5, <2>6
<1> QED BY <1>1, <1>2

LEMMA DefaultKeeps ==
    ASSUME TypeOK, NEW c \in Calendars, Default(c, created')
    PROVE  /\ created' \in Seq(Calendars) /\ IsInjective(created')
           /\ created' # <<>>
           /\ created # <<>> => DefaultCalendar' = DefaultCalendar
<1>1. CASE created # <<>> BY <1>1 DEF Default, TypeOK, DefaultCalendar
<1>2. CASE created = <<>>
  <2>1. created' = <<c>> BY <1>2 DEF Default
  <2>2. IsInjective(<<c>>) BY DEF IsInjective
  <2> QED BY <1>2, <2>1, <2>2
<1> QED BY <1>1, <1>2

-----------------------------------------------------------------------------
LEMMA InitIInv == Init => IInv
<1> SUFFICES ASSUME Init PROVE IInv OBVIOUS
<1>1. IsInjective(<<>>) BY DEF IsInjective
<1>2. TypeOK BY <1>1, WorkCalendarAssumption DEF Init, TypeOK, Request
<1>3. AssignedIsCreated BY DEF Init, AssignedIsCreated, Live
<1> QED BY <1>2, <1>3 DEF IInv

\* A request that begins or ends, with nothing written.
LEMMA RequestKeeps ==
    ASSUME IInv, NEW t \in Requests, NEW request \in Request,
           req' = [req EXCEPT ![t] = request], UNCHANGED Data
    PROVE  IInv'
<1>1. TypeOK' BY DEF IInv, TypeOK, Data
<1>2. AssignedIsCreated' BY DEF IInv, AssignedIsCreated, Live, Data
<1> QED BY <1>1, <1>2 DEF IInv

LEMMA BeginKeeps ==
    ASSUME IInv, NEW t \in Requests,
           \/ BeginLook(t)
           \/ \E w \in Weeks : BeginWeek(t, w)
           \/ \E day \in HolidayDays : BeginHoliday(t, day)
           \/ BeginCreate(t)
           \/ \E r \in Rows : BeginDelete(t, r)
           \/ Rollback(t)
    PROVE  IInv'
<1> DEFINE covered == CompanyRows # {}
<1>1. covered \in BOOLEAN OBVIOUS
<1> HIDE DEF covered
<1>2. /\ Idle \in Request
      /\ [op |-> "look", covered |-> covered] \in Request
      /\ [op |-> "create", covered |-> covered] \in Request
      /\ \A w \in Weeks : [op |-> "week", week |-> w, covered |-> covered] \in Request
      /\ \A day \in HolidayDays :
            [op |-> "holiday", day |-> day, covered |-> covered] \in Request
      /\ \A r \in Rows : [op |-> "delete", row |-> r] \in Request
  BY <1>1 DEF Request
<1>3. \E request \in Request : req' = [req EXCEPT ![t] = request]
  BY <1>2 DEF covered, BeginLook, BeginWeek, BeginHoliday, BeginCreate, BeginDelete, Rollback,
              Begins, Start, Finish
<1>4. UNCHANGED Data
  BY DEF BeginLook, BeginWeek, BeginHoliday, BeginCreate, BeginDelete, Rollback, Begins
<1> QED BY <1>3, <1>4, RequestKeeps

\* The handlers that begin with default_calendar.
LEMMA FinishType ==
    ASSUME TypeOK, NEW t \in Requests, Finish(t)
    PROVE  req' \in [Requests -> Request]
BY DEF TypeOK, Finish, Request

LEMMA CommitKeeps ==
    ASSUME IInv, NEW t \in Requests, NEW c \in Calendars,
           CommitLook(t, c) \/ CommitWeek(t, c) \/ CommitHoliday(t, c)
    PROVE  IInv'
<1> USE DEF IInv
<1>1. req[t] \in Request /\ req[t].covered \in BOOLEAN
  BY RequestKinds DEF TypeOK, CommitLook, CommitWeek, CommitHoliday
<1>2. created' \in Seq(Calendars) /\ IsInjective(created') /\ created' # <<>>
  BY DefaultKeeps DEF CommitLook, CommitWeek, CommitHoliday
<1>3. assignment' \in [Rows -> {NoRow} \cup Assignment]
  BY <1>1, CoverCompanyKeeps DEF CommitLook, CommitWeek, CommitHoliday
<1>4. req' \in [Requests -> Request]
  BY FinishType DEF CommitLook, CommitWeek, CommitHoliday
<1>5. week' \in [Calendars -> Weeks]
  BY <1>1, RequestKinds DEF TypeOK, CommitLook, CommitWeek, CommitHoliday
<1>6. holidays' \in [Calendars -> SUBSET HolidayDays]
  <2>1. CASE UNCHANGED holidays BY <2>1 DEF TypeOK
  <2>2. CASE CommitHoliday(t, c)
    <3>1. req[t].day \in HolidayDays BY <1>1, <2>2, RequestKinds DEF CommitHoliday
    <3> QED BY <2>2, <3>1 DEF TypeOK, CommitHoliday
  <2> QED BY <2>1, <2>2 DEF CommitLook, CommitWeek
<1>7. TypeOK' BY <1>2, <1>3, <1>4, <1>5, <1>6 DEF TypeOK
<1> QED BY <1>2, <1>7 DEF AssignedIsCreated

LEMMA CommitCreateKeeps ==
    ASSUME IInv, NEW t \in Requests, NEW c \in Calendars, NEW new \in Calendars,
           NEW w \in Weeks, CommitCreate(t, c, new, w)
    PROVE  IInv'
<1> USE DEF IInv
<1>1. req[t].covered \in BOOLEAN BY RequestKinds DEF TypeOK, CommitCreate
<1>2. created' \in Seq(Calendars) /\ IsInjective(created') /\ created' # <<>>
  <2>1. new # c /\ \A i \in DOMAIN created : created[i] # new
    BY DEF CommitCreate, Missing, Range
  <2>2. CASE created # <<>> /\ created' = Append(created, new)
    <3>1. \A i \in DOMAIN created' : created'[i] = IF i = Len(created) + 1 THEN new ELSE created[i]
      BY <2>2 DEF TypeOK
    <3>2. DOMAIN created' = DOMAIN created \cup {Len(created) + 1} BY <2>2 DEF TypeOK
    <3>3. IsInjective(created') BY <2>1, <3>1, <3>2 DEF IsInjective, TypeOK
    <3> QED BY <2>2, <3>3 DEF TypeOK
  <2>3. CASE created' \in {<<c, new>>, <<new, c>>}
    <3>1. ASSUME NEW x \in Calendars, NEW y \in Calendars, x # y
          PROVE  <<x, y>> \in Seq(Calendars) /\ IsInjective(<<x, y>>) /\ <<x, y>> # <<>>
      BY <3>1 DEF IsInjective
    <3> QED BY <2>1, <2>3, <3>1
  <2> QED BY <2>2, <2>3 DEF CommitCreate
<1>3. assignment' \in [Rows -> {NoRow} \cup Assignment]
  BY <1>1, CoverCompanyKeeps DEF CommitCreate
<1>4. req' \in [Requests -> Request] BY FinishType DEF CommitCreate
<1>5. TypeOK' BY <1>2, <1>3, <1>4 DEF TypeOK, CommitCreate
<1> QED BY <1>2, <1>5 DEF AssignedIsCreated

LEMMA CommitDeleteKeeps ==
    ASSUME IInv, NEW t \in Requests, CommitDelete(t)
    PROVE  IInv'
<1> USE DEF IInv
<1>1. TypeOK' BY FinishType DEF TypeOK, CommitDelete
<1>2. Live' \subseteq Live BY DEF CommitDelete, Live, TypeOK
<1> QED BY <1>1, <1>2 DEF AssignedIsCreated, CommitDelete

LEMMA CreateAssignmentKeeps ==
    ASSUME IInv, NEW c \in Calendars, NEW scope \in Scopes, NEW from \in Days, NEW to \in Days,
           CreateAssignment(c, scope, from, to)
    PROVE  IInv'
<1> USE DEF IInv
<1> DEFINE a == [calendar |-> c, scope |-> scope, from |-> from, to |-> to]
<1>1. a \in Assignment BY AssignmentRow
<1>2. PICK r \in Unused : assignment' = [assignment EXCEPT ![r] = a] BY DEF CreateAssignment
<1> HIDE DEF a
<1>3. TypeOK' BY <1>1, <1>2 DEF TypeOK, CreateAssignment, Unused
<1>4. created' # <<>> BY DEF CreateAssignment, Range
<1> QED BY <1>3, <1>4 DEF AssignedIsCreated

LEMMA HolidayKeeps ==
    ASSUME IInv, NEW c \in Calendars, NEW day \in HolidayDays,
           AddCalendarHoliday(c, day) \/ RemoveHoliday(c, day)
    PROVE  IInv'
<1> USE DEF IInv
<1>1. TypeOK' BY DEF TypeOK, AddCalendarHoliday, RemoveHoliday
<1> QED BY <1>1 DEF AssignedIsCreated, Live, AddCalendarHoliday, RemoveHoliday

LEMMA NextKeeps == IInv /\ [Next]_vars => IInv'
<1> SUFFICES ASSUME IInv, [Next]_vars PROVE IInv' OBVIOUS
<1>1. CASE UNCHANGED vars
  BY <1>1 DEF vars, IInv, TypeOK, AssignedIsCreated, Live
<1>2. ASSUME NEW t \in Requests, Handler(t) PROVE IInv'
  BY <1>2, BeginKeeps, CommitKeeps, CommitCreateKeeps, CommitDeleteKeeps DEF Handler
<1>3. ASSUME NEW c \in Calendars, Edit(c) PROVE IInv'
  BY <1>3, HolidayKeeps, CreateAssignmentKeeps DEF Edit
<1> QED BY <1>1, <1>2, <1>3 DEF Next

LEMMA Invariance == Spec => []IInv
BY InitIInv, NextKeeps, PTL DEF Spec

\* Every calendar, assignment and request is one the handlers know.
THEOREM TypeCorrect == Spec => []TypeOK
<1>1. IInv => TypeOK BY DEF IInv
<1> QED BY <1>1, Invariance, PTL

-----------------------------------------------------------------------------
(***************************************************************************)
(* What is in force on a day depends on the rows that cover it.            *)
(***************************************************************************)
\* If the rows that match a day are the same before and after a step, and say
\* the same, the calendars in force are.
LEMMA SameMatches ==
    ASSUME NEW site, NEW day,
           Matches(site, day)' = Matches(site, day),
           \A r \in Matches(site, day) : assignment'[r] = assignment[r],
           created' = created
    PROVE  ResolveFor(site, day)' = ResolveFor(site, day)
<1> DEFINE M == Matches(site, day)
           pick == {r \in M : \A q \in M : ~Beats(assignment[q], assignment[r])}
<1>1. PickAssignment(site, day) = pick BY DEF PickAssignment
<1>2. PickAssignment(site, day)' = pick BY DEF PickAssignment, Beats
<1>3. \A r \in pick : assignment'[r] = assignment[r] OBVIOUS
<1>4. {assignment'[r].calendar : r \in pick} = {assignment[r].calendar : r \in pick} BY <1>3
<1> QED BY <1>1, <1>2, <1>4 DEF ResolveFor, DefaultCalendar

LEMMA EffectiveStep ==
    ASSUME IInv, NEW c \in Calendars, NEW scope \in Scopes, NEW from \in Days, NEW to \in Days,
           CreateAssignment(c, scope, from, to), NEW site \in Sites, NEW day \in Days,
           day < from \/ day > to
    PROVE  ResolveFor(site, day)' = ResolveFor(site, day)
<1> USE DEF IInv
<1> DEFINE a == [calendar |-> c, scope |-> scope, from |-> from, to |-> to]
<1>1. PICK r \in Unused : assignment' = [assignment EXCEPT ![r] = a] BY DEF CreateAssignment
<1>2. a.from = from /\ a.to = to OBVIOUS
<1> HIDE DEF a
<1>3. ~Covers(a, day) BY <1>2, WorkCalendarAssumption DEF Covers, Days
<1>4. r \notin Live BY DEF Unused
<1>5. assignment'[r] = a /\ \A q \in Rows \ {r} : assignment'[q] = assignment[q]
  BY <1>1 DEF TypeOK, Unused
<1>6. Matches(site, day)' = Matches(site, day)
  BY <1>3, <1>4, <1>5 DEF Matches, Live, Covers
<1>7. \A q \in Matches(site, day) : assignment'[q] = assignment[q]
  BY <1>4, <1>5 DEF Matches, Live
<1> QED BY <1>6, <1>7, SameMatches DEF CreateAssignment

\* An assignment changes nothing on a day it does not cover, whatever there is
\* already and whatever is in flight.
THEOREM EffectiveFromItsDateHolds == Spec => EffectiveFromItsDate
<1>1. IInv /\ [Next]_vars =>
        [\A c \in Calendars, scope \in Scopes, from, to \in Days :
            CreateAssignment(c, scope, from, to) =>
               \A site \in Sites, day \in Days :
                  (day < from \/ day > to) => ResolveFor(site, day)' = ResolveFor(site, day)]_vars
  BY EffectiveStep
<1> QED BY <1>1, Invariance, PTL DEF Spec, EffectiveFromItsDate

\* A row of the site that covers the day shuts out every row of the company's:
\* of the rows of any table, those that match and are beaten by none are the
\* site's own that begin last.
Matching(table, live, site, day) ==
    {r \in live : Covers(table[r], day) /\ table[r].scope \in {"company", site}}
OwnRows(table, live, site, day) ==
    {r \in live : table[r].scope = site /\ Covers(table[r], day)}
Unbeaten(table, rows) == {r \in rows : \A q \in rows : ~Beats(table[q], table[r])}
Latest(table, rows) == {r \in rows : \A q \in rows : ~(table[q].from > table[r].from)}

LEMMA OwnWins ==
    ASSUME NEW table, NEW live, NEW site \in Establishments, NEW day, NEW o \in live,
           table[o].scope = site, Covers(table[o], day)
    PROVE  Unbeaten(table, Matching(table, live, site, day))
             = Latest(table, OwnRows(table, live, site, day))
<1> DEFINE matches == Matching(table, live, site, day)
           own     == OwnRows(table, live, site, day)
<1>1. site # "company" BY WorkCalendarAssumption
<1>2. o \in matches BY DEF Matching
<1>3. \A r \in matches : r \notin own => table[r].scope = "company" BY DEF Matching, OwnRows
<1>4. \A r \in matches : r \notin own => Beats(table[o], table[r]) BY <1>1, <1>3 DEF Beats
<1>5. own \subseteq matches BY DEF Matching, OwnRows
<1>6. \A r \in own, q \in matches :
         Beats(table[q], table[r]) <=> q \in own /\ table[q].from > table[r].from
  BY <1>1, <1>3 DEF Beats, OwnRows
<1> HIDE DEF matches, own
<1>7. Unbeaten(table, matches) = Latest(table, own)
  BY <1>2, <1>4, <1>5, <1>6 DEF Unbeaten, Latest
<1> QED BY <1>7 DEF matches, own

LEMMA OwnStep ==
    ASSUME IInv, [Next]_vars, NEW site \in Establishments, NEW day \in Days,
           Own(site) = Own(site)', \A r \in Own(site) : assignment'[r] = assignment[r],
           NEW o \in Own(site), Covers(assignment[o], day)
    PROVE  ResolveFor(site, day)' = ResolveFor(site, day)
<1> DEFINE own  == OwnRows(assignment, Live, site, day)
           pick == Latest(assignment, own)
<1>0. o \in Live /\ assignment[o].scope = site BY DEF Own
<1>1. PickAssignment(site, day) = pick
  <2>1. Unbeaten(assignment, Matching(assignment, Live, site, day)) = pick BY <1>0, OwnWins
  <2> QED BY <2>1 DEF PickAssignment, Matches, Unbeaten, Matching
<1>2. PickAssignment(site, day)' = pick
  <2>1. o \in Live' /\ assignment'[o].scope = site /\ Covers(assignment'[o], day)
    BY DEF Own, Covers
  <2>2. Unbeaten(assignment', Matching(assignment', Live', site, day))
          = Latest(assignment', OwnRows(assignment', Live', site, day))
    BY <2>1, OwnWins
  <2>3. PickAssignment(site, day)' = Unbeaten(assignment', Matching(assignment', Live', site, day))
    BY DEF PickAssignment, Matches, Unbeaten, Matching, Covers, Beats
  <2>4. OwnRows(assignment', Live', site, day) = own BY DEF OwnRows, Own, Covers
  <2>5. \A r \in own : assignment'[r] = assignment[r] BY DEF OwnRows, Own
  <2>6. Latest(assignment', own) = pick BY <2>5 DEF Latest
  <2> QED BY <2>2, <2>3, <2>4, <2>6
<1>3. {assignment'[r].calendar : r \in pick} = {assignment[r].calendar : r \in pick}
  BY DEF Latest, OwnRows, Own
<1>4. DefaultCalendar' = DefaultCalendar
  <2>1. created # <<>> BY DEF IInv, AssignedIsCreated, Own
  <2>2. created \in Seq(Calendars) BY DEF IInv, TypeOK
  <2>3. created' = created \/ \E new \in Calendars : created' = Append(created, new)
    BY <2>1 DEF Next, Handler, Edit, vars, Data, Begins, Rollback, Default,
                BeginLook, BeginWeek, BeginHoliday, BeginCreate, BeginDelete,
                CommitLook, CommitWeek, CommitHoliday, CommitCreate, CommitDelete,
                AddCalendarHoliday, RemoveHoliday, CreateAssignment
  <2> QED BY <2>1, <2>2, <2>3 DEF DefaultCalendar
<1> QED BY <1>1, <1>2, <1>3, <1>4 DEF ResolveFor

\* A site that has had its own calendar keeps it, whatever is assigned to the
\* company, by however many requests in flight.
THEOREM OwnCalendarStandsHolds == Spec => OwnCalendarStands
<1>1. IInv /\ [Next]_vars =>
        [\A site \in Establishments :
            (Own(site) = Own(site)' /\ \A r \in Own(site) : assignment'[r] = assignment[r]) =>
               \A day \in Days :
                  (\E r \in Own(site) : Covers(assignment[r], day)) =>
                      ResolveFor(site, day)' = ResolveFor(site, day)]_vars
  BY OwnStep
<1> QED BY <1>1, Invariance, PTL DEF Spec, OwnCalendarStands

-----------------------------------------------------------------------------
(***************************************************************************)
(* Served in turn, a handler that found the company covered still does     *)
(* when it commits, and one that deletes leaves another row of the         *)
(* company's.                                                              *)
(***************************************************************************)
Knows(r) ==
    /\ r.op \in {"look", "week", "holiday", "create"} /\ r.covered => CompanyRows # {}
    /\ r.op = "delete" => r.row \in Live
    /\ r.op = "delete" /\ r.row \in CompanyRows => CompanyRows \ {r.row} # {}

CoveredInv ==
    /\ IInv
    /\ CompanyStaysCovered
    /\ \A t \in Requests : Knows(req[t])

LEMMA ServedKeepsCover ==
    ASSUME NEW t0, Requests = {t0}, CoveredInv, NEW t \in Requests, Handler(t)
    PROVE  CompanyStaysCovered' /\ Knows(req[t])'
<1> USE DEF CoveredInv, IInv
<1>1. TypeOK OBVIOUS
<1>2. ASSUME UNCHANGED Data, Knows(req'[t]) PROVE CompanyStaysCovered' /\ Knows(req[t])'
  BY <1>2 DEF Data, CompanyStaysCovered, Configured, CompanyRows, Live, Knows
<1>3. CASE \/ BeginLook(t)
           \/ \E w \in Weeks : BeginWeek(t, w)
           \/ \E day \in HolidayDays : BeginHoliday(t, day)
           \/ BeginCreate(t)
  <2>1. UNCHANGED Data
    BY <1>3 DEF BeginLook, BeginWeek, BeginHoliday, BeginCreate, Begins
  <2>2. req'[t].op \in {"look", "week", "holiday", "create"} /\ req'[t].covered = (CompanyRows # {})
    BY <1>1, <1>3 DEF BeginLook, BeginWeek, BeginHoliday, BeginCreate, Begins, Start, TypeOK
  <2>3. Knows(req'[t]) BY <2>2 DEF Knows
  <2> QED BY <1>2, <2>1, <2>3
<1>4. CASE \E r \in Rows : BeginDelete(t, r)
  <2>1. PICK r \in Rows : BeginDelete(t, r) BY <1>4
  <2>2. req'[t] = [op |-> "delete", row |-> r] BY <1>1, <2>1 DEF BeginDelete, Begins, Start, TypeOK
  <2>3. Knows(req'[t]) BY <2>1, <2>2 DEF Knows, BeginDelete
  <2> QED BY <1>2, <2>1, <2>3 DEF BeginDelete, Begins
<1>5. CASE Rollback(t)
  <2>1. req'[t] = Idle BY <1>1, <1>5 DEF Rollback, Finish, TypeOK
  <2> QED BY <1>2, <1>5, <2>1 DEF Rollback, Knows, Idle
<1>6. ASSUME NEW c \in Calendars, Finish(t), req[t].op \in {"look", "week", "holiday", "create"},
             CoverCompany(req[t].covered, c)
      PROVE  CompanyStaysCovered' /\ Knows(req[t])'
  <2>1. req[t].covered \in BOOLEAN BY <1>1, <1>6, RequestKinds DEF TypeOK
  <2>2. CompanyRows' # {}
    <3>1. CASE req[t].covered
      BY <1>6, <3>1 DEF Knows, CoverCompany, CompanyRows, Live
    <3>2. CASE ~req[t].covered BY <1>1, <1>6, <2>1, <3>2, CoverCompanyKeeps
    <3> QED BY <3>1, <3>2
  <2>3. req'[t] = Idle BY <1>1, <1>6 DEF Finish, TypeOK
  <2> QED BY <2>2, <2>3 DEF CompanyStaysCovered, Knows, Idle
<1>7. CASE \E c \in Calendars : CommitLook(t, c) \/ CommitWeek(t, c) \/ CommitHoliday(t, c)
  BY <1>6, <1>7 DEF CommitLook, CommitWeek, CommitHoliday
<1>8. CASE \E c, new \in Calendars, w \in Weeks : CommitCreate(t, c, new, w)
  BY <1>6, <1>8 DEF CommitCreate
<1>9. CASE CommitDelete(t)
  <2> DEFINE row == req[t].row
  <2>1. row \in Rows /\ Knows(req[t]) /\ req[t].op = "delete"
    BY <1>1, <1>9, RequestKinds DEF CommitDelete, TypeOK
  <2>2. assignment' = [assignment EXCEPT ![row] = NoRow] /\ created' = created
    BY <1>9 DEF CommitDelete
  <2>3. CompanyRows' = CompanyRows \ {row}
    BY <1>1, <2>1, <2>2 DEF CompanyRows, Live, TypeOK, NoRow
  <2>4. CompanyRows # {} => CompanyRows' # {} BY <2>1, <2>3 DEF Knows
  <2>5. req'[t] = Idle BY <1>1, <1>9 DEF CommitDelete, Finish, TypeOK
  <2> QED BY <2>2, <2>4, <2>5 DEF CompanyStaysCovered, Configured, Knows, Idle
<1> QED BY <1>3, <1>4, <1>5, <1>7, <1>8, <1>9 DEF Handler

LEMMA EditKeepsCover ==
    ASSUME CoveredInv, NEW c \in Calendars, Edit(c)
    PROVE  CompanyStaysCovered' /\ \A t \in Requests : Knows(req[t])'
<1> USE DEF CoveredInv, IInv
<1>1. created' = created /\ req' = req
  BY DEF Edit, AddCalendarHoliday, RemoveHoliday, CreateAssignment
<1>2. Live \subseteq Live' /\ \A r \in Live : assignment'[r] = assignment[r]
  <2>1. CASE UNCHANGED assignment BY <2>1 DEF Live
  <2>2. ASSUME NEW scope \in Scopes, NEW from \in Days, NEW to \in Days,
               CreateAssignment(c, scope, from, to)
        PROVE  Live \subseteq Live' /\ \A r \in Live : assignment'[r] = assignment[r]
    BY <2>2 DEF CreateAssignment, Unused, Live, TypeOK
  <2> QED BY <2>1, <2>2 DEF Edit, AddCalendarHoliday, RemoveHoliday
<1>3. CompanyRows \subseteq CompanyRows' BY <1>2 DEF CompanyRows
<1>4. CompanyRows' \cap Live = CompanyRows BY <1>2 DEF CompanyRows
<1>5. CompanyStaysCovered' BY <1>1, <1>3 DEF CompanyStaysCovered, Configured
<1>6. ASSUME NEW t \in Requests PROVE Knows(req[t])'
  BY <1>1, <1>2, <1>3, <1>4 DEF Knows
<1> QED BY <1>5, <1>6

\* Served in turn, a company that has a calendar keeps an assignment of its own,
\* through any sequence of first uses, creations and deletions.
THEOREM CompanyStaysCoveredHolds ==
    ASSUME NEW t0, Requests = {t0}
    PROVE  Spec => []CompanyStaysCovered
<1>1. Init => CoveredInv
  <2> SUFFICES ASSUME Init PROVE CoveredInv OBVIOUS
  <2>1. CompanyStaysCovered BY DEF Init, CompanyStaysCovered, Configured
  <2>2. \A t \in Requests : Knows(req[t]) BY DEF Init, Knows, Idle
  <2> QED BY <2>1, <2>2, InitIInv DEF CoveredInv
<1>2. CoveredInv /\ [Next]_vars => CoveredInv'
  <2> SUFFICES ASSUME CoveredInv, [Next]_vars PROVE CoveredInv' OBVIOUS
  <2>1. IInv' BY NextKeeps DEF CoveredInv
  <2>2. CASE UNCHANGED vars
    BY <2>1, <2>2 DEF vars, CoveredInv, CompanyStaysCovered, Configured, CompanyRows, Live, Knows
  <2>3. ASSUME NEW t \in Requests, Handler(t) PROVE CoveredInv'
    <3>1. CompanyStaysCovered' /\ Knows(req[t])' BY <2>3, ServedKeepsCover
    <3> QED BY <2>1, <3>1 DEF CoveredInv, Knows
  <2>4. ASSUME NEW c \in Calendars, Edit(c) PROVE CoveredInv'
    BY <2>1, <2>4, EditKeepsCover DEF CoveredInv
  <2> QED BY <2>2, <2>3, <2>4 DEF Next
<1>3. CoveredInv => CompanyStaysCovered BY DEF CoveredInv
<1> QED BY <1>1, <1>2, <1>3, PTL DEF Spec

-----------------------------------------------------------------------------
(***************************************************************************)
(* A range is counted by the calendar of its first day.                    *)
(***************************************************************************)
\* A new assignment that nothing on the day outranks is the one in force.
LEMMA NewestWins ==
    ASSUME IInv, NEW c \in Calendars, NEW scope \in Scopes, NEW from \in Days, NEW to \in Days,
           CreateAssignment(c, scope, from, to), NEW site \in Sites, NEW day \in from..to,
           scope \in {"company", site}, ~Outranked(site, day, scope, from)
    PROVE  ResolveFor(site, day)' = {c}
<1> USE DEF IInv
<1> DEFINE a == [calendar |-> c, scope |-> scope, from |-> from, to |-> to]
           M == Matches(site, day)
<1>1. PICK r \in Unused : assignment' = [assignment EXCEPT ![r] = a] BY DEF CreateAssignment
<1>2. /\ a # NoRow /\ a.calendar = c /\ a.scope = scope /\ a.from = from /\ a.to = to
  BY AssignmentRow
<1> HIDE DEF a
<1>3. r \notin Live /\ r \in Rows BY <1>1 DEF Unused
<1>4. assignment'[r] = a /\ \A q \in Rows \ {r} : assignment'[q] = assignment[q]
  BY <1>1, <1>3 DEF TypeOK
<1>5. Covers(a, day) /\ from \in Int
  BY <1>2, WorkCalendarAssumption DEF Covers, Days
<1>6. Matches(site, day)' = M \cup {r}
  BY <1>2, <1>3, <1>4, <1>5 DEF Matches, Live, Covers
<1>7. \A q \in M : q # r /\ assignment'[q] = assignment[q] /\ assignment[q] \in Assignment
  BY <1>3, <1>4 DEF Matches, Live, TypeOK
<1>8. ASSUME NEW q \in M
      PROVE  Beats(assignment'[r], assignment'[q]) /\ ~Beats(assignment'[q], assignment'[r])
  <2>1. /\ assignment[q].from \in Int /\ assignment[q].scope \in {"company", site}
    BY <1>7, WorkCalendarAssumption DEF Matches, Assignment, Days, Past
  <2>2. /\ ~(scope = "company" /\ assignment[q].scope = site)
        /\ ~(scope = assignment[q].scope /\ assignment[q].from >= from)
    BY DEF Outranked
  <2>3. CASE assignment[q].scope = scope
    BY <1>2, <1>4, <1>5, <1>7, <2>1, <2>2, <2>3 DEF Beats
  <2>4. CASE assignment[q].scope # scope
    BY <1>2, <1>4, <1>7, <2>1, <2>2, <2>4 DEF Beats
  <2> QED BY <2>3, <2>4
<1>9. ~Beats(assignment'[r], assignment'[r]) BY <1>2, <1>4, <1>5 DEF Beats
<1>10. PickAssignment(site, day)' = {r}
  <2>1. PickAssignment(site, day)'
          = {q \in Matches(site, day)' :
               \A p \in Matches(site, day)' : ~Beats(assignment'[p], assignment'[q])}
    BY DEF PickAssignment, Beats
  <2> QED BY <1>6, <1>8, <1>9, <2>1
<1>11. {assignment'[q].calendar : q \in {r}} = {c} BY <1>2, <1>4
<1> QED BY <1>10, <1>11 DEF ResolveFor

\* Whatever is assigned while a period runs, its working days are counted by
\* the calendar it began with; the new one counts the periods that begin under
\* it.  However many requests are in flight.
THEOREM MidPeriodChangeWaitsHolds == Spec => MidPeriodChangeWaits
<1>1. ASSUME IInv, NEW c \in Calendars, NEW scope \in Scopes, NEW from \in Days, NEW to \in Days,
             CreateAssignment(c, scope, from, to),
             NEW site \in Sites, NEW start \in Days, NEW end \in start..LastDay
      PROVE  /\ start < from => BillableDays(site, start, end)' = BillableDays(site, start, end)
             /\ scope \in {"company", site} /\ start \in from..to
                   /\ ~Outranked(site, start, scope, from) =>
                      BillableDays(site, start, end)' = {CountWorkingDays(c, start, end)}
  <2>1. \A d : CountWorkingDays(d, start, end)' = CountWorkingDays(d, start, end)
    BY <1>1 DEF CreateAssignment, CountWorkingDays, IsWorkingDay
  <2>2. BillableDays(site, start, end)'
          = {CountWorkingDays(d, start, end)' : d \in ResolveFor(site, start)'}
    BY DEF BillableDays
  <2>3. BillableDays(site, start, end)'
          = {CountWorkingDays(d, start, end) : d \in ResolveFor(site, start)'}
    BY <2>1, <2>2
  <2>4. ASSUME start < from
        PROVE  BillableDays(site, start, end)' = BillableDays(site, start, end)
    BY <1>1, <2>3, <2>4, EffectiveStep DEF BillableDays
  <2>5. ASSUME scope \in {"company", site}, start \in from..to,
               ~Outranked(site, start, scope, from)
        PROVE  BillableDays(site, start, end)' = {CountWorkingDays(c, start, end)}
    BY <1>1, <2>3, <2>5, NewestWins
  <2> QED BY <2>4, <2>5
<1>2. IInv /\ [Next]_vars =>
        [\A c \in Calendars, scope \in Scopes, from, to \in Days :
            CreateAssignment(c, scope, from, to) =>
               \A site \in Sites, start \in Days : \A end \in start..LastDay :
                  /\ start < from =>
                        BillableDays(site, start, end)' = BillableDays(site, start, end)
                  /\ scope \in {"company", site} /\ start \in from..to
                        /\ ~Outranked(site, start, scope, from) =>
                           BillableDays(site, start, end)' = {CountWorkingDays(c, start, end)}]_vars
  BY <1>1
<1> QED BY <1>2, Invariance, PTL DEF Spec, MidPeriodChangeWaits
==============================================================================
