# Lamoon: a verification project

TLA+ specifications of the Lamoon HR and payroll service (`apps/api/app`), the
TLC configurations that check them on small instances, and proofs of their most
important properties for every instance.  Paths below are relative to
`apps/api/app`; "payroll/service.py" is `modules/payroll/service.py`.

Contents: how the program runs · the parts of the system · the modules · the
runs and their bounds · fairness · what is proved · what is only model-checked ·
disagreements met while modelling · what is not modelled · plan.

## How the program runs, and how a module stands for it

The service is a FastAPI application over PostgreSQL.  Four facts about it
shape every module.

* **One request, one transaction** (`core/db.py` 40-56).  A handler gets a
  session, its statements run in one transaction at READ COMMITTED, the session
  commits when the handler returns, and *any* exception, a refusal (HTTP 4xx)
  included, rolls everything back.  The jobs of the scheduler are transactions
  too, one for each company (`core/db.py` 17-34).
* **No row locks, but one.**  No handler uses `SELECT ... FOR UPDATE`.  Between
  the reads a guard decides on and the commit, other requests can commit
  anything.  So a handler whose guard matters is two actions here, `Begin...`
  (the reads its guards decide on) and `Commit...` (what it writes); the local
  variables it carries from one to the other are a record in the variable
  `req`.  The exception is the booking of an interview, which is written with
  conditional UPDATEs: they lock the rows they change until the transaction
  ends (`Locks`, `Unlocked` in Hiring).
* **Column-level writes.**  SQLAlchemy's unit of work writes the columns whose
  value differs from the one it loaded, to the row with that id, whatever has
  become of the row.  The operator `Flush(loaded, new, current)` is this rule,
  and several properties hold only because of it.
* **Unique partial indexes.**  `... WHERE deleted_at IS NULL` (or `state =
  'open'`) indexes turn the second of two racing inserts into an exception,
  hence a rollback: a guard of the commit.

A handler that runs alone (one element in `Requests`) is the serial case; two
elements are the concurrent case.  A property is stated once; which of the two
it holds in is a matter of the run, and of the theorem's assumption.

## The parts of the system

| Part | State | Operations | Hard behaviour | What makes it correct |
|---|---|---|---|---|
| Payroll run (`payroll/routes.py`, `service.py`) | the run, its payslips, its totals | create or recompute, correct a payslip, finalize | a recompute against a finalization or a correction in flight; leavers and blocked employees between recomputes; what HR typed must survive | a finalized month is frozen, totals sum the payslips, typed days and tax stay, only approved lines are paid |
| Input ledger (`payroll/ledger.py`, `workforce_routes.py`) | structure, overtime and manual lines of each employee | rebuild, enter, approve, delete | rebuild against entry; the month closing meanwhile | closed with the month |
| Compensation (`compensation/`) | dated versions of pay | create dated, replace undated, delete the latest | two changes in flight; dates in the past; months with several versions | the timeline tiles, each month is paid once |
| Work facts and the bridge (`payroll/workforce_routes.py`, `attendance/bridge.py`) | one fact per employee and day, its approval | record, import, approve, delete, derive | re-recording against approval; derivation after hand correction | no pay lost without an approval; approvals stand, and each is accounted for |
| Inbox (`core/inbox/`, `payroll/inbox_sync.py`) | items per person, their age, escalation and watermark | sync, dismiss, daily sweep (sync, escalate, mail) | mails before the commit; items that come back; dismissals in any state | open items are what is still true; dismissed stays so; everything open is raised |
| Adjustments (`payroll/adjustments.py`) | corrections filed against a closed month, their line in the ledger | raise, approve, cancel | approve against cancel; the target month closing meanwhile | the ledger is what is approved and not withdrawn; a closed month stands |
| Contractors (`payroll/contractors.py`, `contractor_routes.py`) | invoices, who is deployed | record, dispute, approve | invoice revised during approval | what was agreed goes on matching |
| Statutory rules (`payroll/rules.py`, `statutory.py`) | none: pure | provident fund and pension, ESI, the statutory wage | ceilings, contribution periods across the new year, rounding | shares reconcile; who contributes goes on to the period's end |
| Attendance (`attendance/service.py`, `bridge.py`) | punches, the policy's timezone | punch, punch on behalf, pair into days, derive | open punches, midnight, punches recorded late, two clocks | the hours are the clock's; evidence of work is never an absence |
| Leave (`leave/`) | requests, policies | request, approve, reject, grant, carry forward | two approvals in flight, two sources of one balance, months and year ends | quota not exceeded; accrual consistent; precedence of policies |
| Work calendar (`work_calendar/`) | calendars, holidays, dated assignments | create, assign, delete, resolve, count | overlapping assignments, fallbacks, first use | each site has one calendar a day, its own before the company's |
| Applicant tracking (`ats/`, `public/`) | candidates, applications, slots, interviews | apply, screen, propose, book, remind, auto-reject | two bookings in flight; a model that answers differently; mails before commits | one booking per offer, slots and interviews agree, one verdict per resume |
| Artifacts (`core/artifacts/`) | versioned files and their rows | generate, read | blob and row not in one transaction | not modelled |
| Seats and directory (`core/billing/`, `hr_core/`) | employees, seats | hire, invite, exit | check, then insert | not modelled |
| Authentication (`auth/`, `core/auth/`) | refresh tokens, revocations | login, refresh, logout | two refreshes of one token | not modelled |
| Self-service, assistant, notifications, audit, feature flags, search, migrations, web | none of their own that the parts above rely on | | | punching and filing leave are modelled where they belong, the rest is not |

How they interact: the work calendar says which days attendance, leave and
payroll count; attendance and leave feed the day states the bridge turns into
work facts; approved facts, compensation and approved corrections feed the
ledger; the ledger and the unpaid days (leave, approved absences, days before
joining) feed the payslips, from which the statutory shares are reckoned and
contractors' invoices checked; unapproved facts feed the inbox; a finalized run
closes the ledger and the facts of its month.  All of it is through rows of one
database: there are no callbacks, and the only asynchronous work is the beat
schedule (`workers/celery_app.py`).

## The modules

* **PayrollRun** — one month of one company: `create_run` (compute and
  recompute), `adjust_payslip`, `finalize_run`, and the ledger handlers.
  `status`, `header` and `slip` are the run and its payslips; `structure`,
  `overtime`, `manual` the ledger; `fact` and `person` what the other parts say
  of an employee, changed by them at any moment.  `adjust_payslip` has three
  steps, because it reads the *other* payslips to sum the run before it
  commits.  Money is abstracted: the figures of a payslip are a function of the
  lines, days and tax they were computed from, and a total stands for the
  figures it summed, so a total that is out of date is one that names other
  figures.
* **PaidMonth** — what the month promises: revised while open, closed once, the
  total always the sum.  `PayrollRun!ImplementsPaidMonth` is the refinement,
  with `paid` the figures of the live payslips and `total` the header.
* **Compensation** — the dated versions of one employee's pay:
  `create_version`, `delete_version`, and the undated `set_salary`.  A date is a
  number; `from`, `to` and `state` are the columns.
* **PaySchedule** — what the timeline promises: on each day at most one amount,
  each change over one span of days, no hole.  `Compensation!
  ImplementsPaySchedule` is the refinement, with the amount in force on each
  day as the mapping.
* **PeriodPay** — extends Compensation with what a month pays for it:
  proration by working days, rounding half up segment by segment, and the days
  before joining, as operators checked on every reachable timeline.
* **WorkFacts** — the facts of one employee in one month: `record_fact` (and
  `record_facts`, which is the same for several days), `approve_facts`,
  `delete_fact`, `derive_facts`, and the closing of the month.  `attendance` is
  `day_state` for each day and changes freely.  `approved` and `signed` stand
  for `approved_at` and `approved_by`.
* **Attendance** — the punches of one employee: one's own (a read of the day,
  then the insert), HR's on somebody's behalf at any time, the timezone of the
  policy; `pair_events`, `summarise`, `day_state` and `derive` as operators on
  what was punched.  Instants are slots of UTC, a minute some of them, and a
  local day is shifted by the offset, ahead or behind.  Any punch may have any
  instant.  A check-in and a check-out at one instant are sorted by nothing, so
  that every operator takes the order in which they are read as a parameter
  (`Readings`); two rows of one kind and instant are one, for read in either
  order the second changes nothing but a list of anomalies.  The pairing is a
  function of the instants before each one, not a recursion over a list.
* **Leave**, **Entitlement** — the requests of one employee for one type of
  leave, the policies that concern the employee, and the balances derived from
  them; Entitlement is the arithmetic of accrual.  A date is a number in which
  every month has 32 days, so that order, year, month and day are those of the
  calendar; days of leave are counted in tenths, as policies are stored, of which
  five make the half day that a grant is rounded to.
* **WorkCalendar** — calendars, their weekly pattern and holidays, and the dated
  assignments to the company or an establishment; `pick_assignment`,
  `resolve_for` (and `resolve_many`, the same of each of many),
  `count_working_days` and `billable_days` as operators.  The default calendar that a first use creates is part of every
  handler that may be the first.
* **Settlement**, **Statutory** — corrections and contractors' invoices over the
  months' payroll, and the provident fund, ESI and statutory wage reckoned from
  the payslips.  A month here is what a computation of it paid; how it computes
  is PayrollRun.  Rates are in hundredths of a percent, money in paise.
* **Hiring**, **Scoring** — applications from the webhook to the interview and
  the three jobs of the scheduler; Scoring is the arithmetic of a verdict.  A
  booking is in stages, because each of its UPDATEs takes locks that the next
  statement of another booking waits for.
* **Inbox** — the items of one company: `run_sync` and the sweep (`sync`,
  `escalate_due`, `send_digests`, one commit at the end), and `dismiss`.  A key
  is a person and a fact; it can have several rows over time.  `pending` and
  `manager` are what the producer reads: which facts are unapproved in a month
  that can still be paid, and to whom they belong.  `mailed` is not a column:
  it records a mail that cannot be taken back.
* **Sessions** — what the modules above have in common (but for Hiring, whose jobs
  open sessions of their own): a request begins when it is idle, carries what it
  has read in `req`, and is idle again after its commit or rollback.
* **MC...** — the symmetry sets and structured constants of the runs.
  **...Proofs** — the theorems; **SumTheorems** — what they need of sums over
  finite sets.  **TimeProofs** is about Attendance, WorkFacts and Inbox, the way
  of a day from the punch to the approval of its fact; it extends all three, so
  what they declare has names of its own (`FactSpec`, `BoxSpec`, `MaxFacts`...).

PayrollRun's `fact` is WorkFacts for one day, WorkFacts' `attendance` the
`DayState` of Attendance, Attendance's `calendar` and `leave` what WorkCalendar
and Leave say of a day, Inbox's `pending` the live, unapproved facts of an open
month: a module that uses another's state lets it change in every way the other
allows, and more.

## The runs and their bounds

| Run | Asks | Instance |
|---|---|---|
| PayrollRunSerial | do header, typed days, shortfall, the closed ledger and PaidMonth survive any order of computations, corrections, entries, approvals, deletions, rebuilds and changes of the roll? | 2 employees, requests in turn, 2 payslip rows each (a slip removed and inserted again); everything HR enters is entered for one of them (`Recorded`: a manual line, overtime, days, tax, leave), against the payslip of the other, who only comes and goes |
| PayrollRunRace | what column-level writes still guarantee with two requests in flight | 1 employee, 2 requests of any kind, one manual code, overtime |
| PayrollRunFrozenRace | *violation*: a computation in flight rewrites a finalized month | 2 requests |
| CompensationSerial | does the timeline tile and implement PaySchedule; is each month paid once? | 3 versions, 4 days in months of 2 with a day off, two amounts one of which does not divide evenly |
| WorkFactsSerial | is a day docked only by approval; do approvals stand, each somebody's or the bridge's own; is a closed month refused? | 2 days (an approval or a derivation of several), all statuses, 2 rows per day |
| InboxReconciles | does a sync leave open what was reported, and a dismissed item alone? | 2 managers, 1 fact, 2 rows per key (a problem that comes back) |
| InboxRaised | is what stays open mailed and escalated in the end? | 2 managers, 1 fact, escalation after 2 days |
| Hiring | is an offer booked at most once; do slots and interviews agree; does one resume get one verdict? | 2 applications with one resume, 2 slots in up to 2 offers, two candidates in flight against one request of HR or the scheduler, a model with two opinions |
| WorkCalendar | does a site keep its own calendar, the company always have one, a date bound what an assignment changes, a change in the middle of a period wait for the next? | 2 calendars, 1 establishment, 3 assignments, a Friday and a Saturday one of which may be a holiday, two weekly patterns |
| Leave | does the quota hold, do the methods of accrual meet, is nothing earned taken back, does the narrower policy stand? | 2 requests of 1.5 days against a quota of 2, 2 policies of 2 scopes, terms and spans, one of 1.3 days a year, an employee who joins and leaves on any of two dates, dates at the end of a month, in July and in the next year |
| Settlement | does the ledger match the corrections, a closed month stand, an agreed invoice go on matching; do shares reconcile and contributions follow their periods? | 2 corrections of one worker over December, January and April, a salary at the ESI ceiling, two arrears of which are twice the salary, so that the statutory wage is raised to half of the pay; wages on both sides of the pension ceiling and a few paise from a rounding |
| Attendance | are the hours the clock's; is evidence never an absence; does a second check-in cost nothing? | 3 punches at any of 5 instants, alike or not, in minutes of 2 slots and days of 3, a timezone behind UTC and one ahead |

Why the bounds are enough to mean something.  Handlers treat employees, days,
versions and keys independently except where they sum or date against the
others, and two of each (three versions: before, between and after; three
assignments: two for one scope and one for the other; three months: one on each
side of a new year, one in the same ESI period) show that.  A row bound of 2 is
one deletion and one re-insertion, the case in which ids matter.  Two requests
in flight show every hazard of reading before writing; a third adds more of the
same, except in Hiring, where two bookings wait for each other and a third
request writes the rows they read.  Three punches are an in, an out and one that
is out of place or shares the instant of one of them; two slots to a minute are
the least of which something is floored.  In PayrollRunSerial one employee has a
manual line, overtime, leave, and days and a tax typed, the other comes and goes,
which shows both sides of every sum; the tax typed there is nil, so that a
correction of the tax alone differs from one of the days by what it must leave,
and the tax itself is PayrollRunRace's.

Every bound is a constant.  `MaxRows` and `Recorded` (PayrollRun), `MaxFacts`
(WorkFacts), `MaxItems` (Inbox), `MaxEdits` (Compensation), `MaxOffers` (Hiring),
`MaxPunches` and `Horizon` (Attendance) and the sets `Claims`, `Leaves`,
`Policies` and `Rows` (of what may exist at once, or ever) are guards: reaching
one stops further insertions, not other steps.  In Inbox the bound is on facts
that become pending and on managers who change, so that no sync is ever refused
by it.  Ages in Inbox stop at the threshold, beyond which the code treats them
alike.

For every property of a passing run there is a mutant: a definition of the model
changed the way a bug in that line of code would, under which the property is
violated.  They are the definitions named `Mut...`.

## Fairness

Only `Inbox!FairSpec` assumes any.  Days pass; every transaction ends, in a
commit or a rollback; and the sweep, scheduled daily (`workers/celery_app.py`,
`inbox-sweep-daily`), may fail on any day and at any mail, but not at the same
point for ever: strong fairness on its beginning, on each mail after each set of
earlier mails, and on its commit.  The last is what a mail server that recovers
gives.  It is needed: one address that is refused for ever rolls back every
sweep, and nobody is ever recorded as told.  Nobody is assumed to approve,
dismiss or sync.

All other properties are safety properties of `Spec` (`FactSpec`, `BoxSpec`),
which may stop anywhere.  In particular nothing is promised of a reminder: its
job may fail every hour.

## What is proved

Every safety property of a passing run is a theorem, for any sets of employees,
days, versions, amounts, codes and rows.  The type invariant of every module is
proved too, for any number of requests in flight: `TypeCorrect`, of WorkFacts
`FactsTypeCorrect` and of Inbox `BoxTypeCorrect`.

| Theorem | Statement | Requests |
|---|---|---|
| PayrollRunProofs `FinalizedForGoodHolds` | a finalized month stays finalized | any number |
| `OnlyAdjustChangesTaxHolds` | only a correction of the payslip changes its tax | any number |
| `OnlyApprovedLinesPaidHolds` | no payslip pays an unapproved manual line | any number |
| `SerialMonth` | PayrollRun implements PaidMonth | in turn |
| `SerialHeader` | the header sums the payslips | in turn |
| `SerialShortfall` | the top-up is settled on the payslips a computation leaves | in turn |
| `SerialTypedDays` | neither a recompute nor a correction of the tax alone changes the unpaid days HR typed | in turn |
| `SerialLedger` | nothing reaches a finalized month's ledger | in turn |
| CompensationProofs `OnlyDeletionOpensGapHolds` | without a deletion there is no gap | any number |
| `SerialTiles` | the versions tile the days since the first | in turn |
| `SerialSchedule` | Compensation implements PaySchedule | in turn |
| `MonthPaidOnceHolds` | a month is paid between its lowest and its highest amount, but for half a unit per segment | in turn |
| `UnchangedPayIsExactHolds` | a month that one version covers is paid its amount, to the unit | in turn |
| TimeProofs `WorkedMatchesClockHolds` | the minutes of a day are those somebody was in, but for less than one of each session | any number |
| `EvidenceIsNotAbsenceHolds` | a check-in on a working day is never an absence, and is signed off when the day's last word is a leaving | any number |
| `CheckInNeverLosesHolds` | one more check-in takes no time and makes nobody late | any number |
| `DockedOnlyByApprovalHolds` | a day costs its pay only by an approval of it | in turn |
| `SignedFactsStandHolds` | an approved row goes on saying what was approved | in turn |
| `ApprovalsAreAccountedForHolds` | no unsigned approval of an absence or of a typed day | in turn |
| `ClosedFactsStandHolds` | a finalized month's facts do not change | in turn |
| `SyncReconcilesHolds` | a sync leaves open what it was told | in turn |
| `DismissedStaysDownHolds` | what was dismissed never opens again | in turn |
| HiringProofs `OneBookedPerOfferHolds` | at most one slot of an offer is booked | any number |
| `BookedSlotsAreInterviewsHold` | slots booked and interviews held agree | any number |
| `SameResumeSameTierHolds` | one resume, one verdict | one HR request, any number of others |
| WorkCalendarProofs `EffectiveFromItsDateHolds` | an assignment changes no day outside its dates | any number |
| `OwnCalendarStandsHolds` | a site keeps its own calendar | any number |
| `CompanyStaysCoveredHolds` | the company is never left without one | in turn |
| `MidPeriodChangeWaitsHolds` | a new assignment counts the periods that begin under it, and no day of one that has begun | any number |
| LeaveProofs `MethodsMeetHolds` | annual and monthly accrual meet at the year's end, within a quarter day of the year's days | any number |
| `NarrowerStandsHolds` | a wider policy takes nothing over | any number |
| `EarnedStaysHolds` | within a year neither a passing day nor a leaving not yet past takes what was granted | any number |
| `QuotaKeptHolds` | what is approved in a year for that year is within the quota | in turn |
| SettlementProofs `SharesReconcileHolds` | the shares of the provident fund reconcile, on at least half of the pay | any number |
| `LedgerMatchesClaimsHolds` | the ledger is what is approved and not withdrawn | in turn |
| `ClosedMonthStandsHolds` | neither figures nor lines of a closed month change | in turn |
| `EsiFollowsPeriodsHolds` | who contributes follows the ceiling and the period's closed months | in turn |
| `AgreedGoesOnMatchingHolds` | an agreed invoice of a closed month keeps matching its payslips | in turn |

That requests are in turn is a hypothesis of the theorem: `Requests = {t}` for
some t (of PayrollRun, `InTurn`), or `\A t, u \in Requests : t = u` (of
WorkFacts, `FactsInTurn`; of Hiring's HR alone, `OneHR`), and of Leave that in
no state two decisions are in flight (`[]InTurn`).  The other hypotheses are the
named assumptions on the constants, which every run evaluates (among them that
versions and leave requests are finitely many, and that an amount of pay is not
negative, compensation/schemas.py 12), and three about the law, stated in the
theorem: `FairRule` (employer and employee pay one rate, of which the pension is
a part), and for ESI a positive salary and rate (of nothing, nobody
contributes).  The instance of the run Settlement satisfies them.

The arguments.

*Any number, by columns.*  Column-level writes mean that a commit changes a
column only if its handler did, whatever it had read, so a theorem of PayrollRun
is about which handler writes which column; `OnlyApprovedLinesPaid` needs,
besides, that what is approved can only be deleted, and that figures in flight
hold only such lines (`ApprovedInv`).  `OnlyDeletionOpensGap` needs that the end
a commit gives a version is bounded by a start that is still live; among the
live versions there is always one ending last, which is found by well-founded
minimality.

*Any number, by locks.*  Hiring's inductive invariant says what a booking in
flight may count on.  `Holds`: the slot it claimed is still open, it has seen
every other open slot of the offer, and those it has freed are still open.
`Apart`: no two bookings hold one row.  `Offered`: of one offer, once a slot is
booked none is open.  With it, a second booking of an offer has no slot to
claim.  `Refers` (a request is about rows that exist) and `Owned` carry the
types.

*Any number, by shape.*  What WorkCalendar and Leave promise of precedence is
about one insertion: `OwnCalendarStands` because a row of a narrower scope beats
every other that covers the day, `NarrowerStands` likewise by the rank of the
policies; the invariant only says that there are no assignments before there is
a calendar (`AssignedIsCreated`), and no decision on what was not filed
(`Filed`).  `MethodsMeet` is arithmetic: no more than twelve months are completed
within a year, so the cap of annual accrual never bites; twelve are completed
from its first day to its last; and rounding moves a number of days by a quarter
at most (`QuantizeNear`).

*Any number, by the walk.*  A day is the fold of its punches, and `PairEvents`
the last of a function on the instants, each value made from the one before by
what was punched at that instant (`PairAt`, whose cases are `Stepped`).  That
function is shown to exist by the least instant up to which it does not
(`WalkExists`), and what it has found by each instant (`WalkInv`) is then an
invariant of the walk: the clock has been running since the check-in it
remembers (`ClockAt`), the minutes counted are those of the sessions up to it,
with less than a minute lost for each (`WorkedAt`), and the first check-in is
the first (`FirstAt`).  At the last instant that is `WorkedMatchesClock`.
`EvidenceIsNotAbsence` follows, for a check-in leaves something to be found, and
the clock is stopped in the end exactly if what is read last is a leaving.
`CheckInNeverLoses` compares two walks, with and without the check-in, step by
step: the one with it is never behind (`StaysAhead`), for a session that began
earlier has more whole minutes.  All of it is shown of every reading of the
ties, and needs nothing of the punches but that they are of the kinds there are.

*Any number, by dates.*  `MidPeriodChangeWaits`: a new row matches no day before
its first, so the calendar of a day before it, and with it the count of the
whole range that begins there, is what it was; and of a range that begins under
it, a row that nothing outranks beats every other.  `EarnedStays`: the months
completed only grow within a year, and prorating keeps their order (`Divided`
of SumTheorems is what integer division is); a day of leaving that is not past
bounds nothing before today.

*Sums.*  The facts about sums over finite sets (SumTheorems) are shown without
induction over sets: of the subsets for which one fails, there would be one that
contains no other (`SmallestSet`), and taking an element from it gives one that
fails too.  A sum over a set is that without an element, plus it (`SumWithout`);
it grows with the set (`SumMonotone`); it is bounded by bounds of its summands
(`SumBounded`); and the sizes of disjoint parts sum to that of the whole
(`SumOfSizes`).  In Leave, deciding a request moves one summand, and what was
approved up to an earlier decision is as it was; that nothing is decided later
than today, nor after a decision in flight (`Checked`), makes the decision the
last of its year.  In PeriodPay, the segments of a month are disjoint because
the versions tile the days, so the working days of the segments sum to those
that are paid; each share is within half a unit of what its days earn; and a
month that one version covers is a single segment of all its working days, of
which the share is the amount itself.

*In turn.*  The strengthening says that what a request has loaded is still what
the rows say (`SerialInv`, `Serial`, `Fresh`, `Knows`); without it no commit can
be related to the state it changes.  In Inbox that is the state of every row and
the row a sync picked for each key; with at most one open row per key
(`OneOpen`, which the index gives any number of requests), the row picked is the
open one, unless a dismissed one is there.  In Settlement, `BillInv` adds that an
invoice about to be written is not agreed, and that the payslips pay corrections
that were raised, whose worker and kind never change; in Hiring, `Verdicts` says
that of each resume one finding is stored, from which every verdict on it
follows, and that a screening in flight has found the same.

## What is only model-checked

Liveness, and ENABLED, are beyond the proof system: `OpenItemsAreRaised`.  Every
other property of a passing run is a theorem.

## Disagreements met while modelling

One is checked by a run that finds a violation: a recompute that began before
the finalization commits rewrites the finalized month (PayrollRunFrozenRace).

The others were seen in the same models, by giving a serial property two
requests, or by a property that is not stated because the code has nothing to
hold it.

Payroll and its ledger:

* After an employee's compensation is removed, a rebuild marks the structure row
  deleted and returns before the flush, so the overtime it goes on to rate is
  rated on the row it just deleted; a second rebuild gives another ledger
  (payroll/ledger.py 127).
* A first salary dated on the joining day is prorated once by the ledger and
  once by the payslip (payroll/ledger.py 158, payroll/service.py 284).
* Two corrections of different payslips in flight: the header sums neither
  (`HeaderMatchesSlips`).  An entry or a rebuild and a finalization in flight:
  the closed ledger changes (`LedgerClosedOnceFinalized`).  A computation and a
  correction in flight: typed days are overwritten (`TypedDaysSurvive`).
* Typed tax is lost when an employee is blocked, computed without, unblocked and
  computed again: the second row starts at zero (payroll/service.py 565).
* Overtime whose fact was deleted or unapproved after the last computation is
  still paid when the month is finalized (payroll/routes.py 529), though
  payroll/workforce.py 102 says that what nobody signed off "is a claim, not a
  cost".  A correction approved after it is in the ledger and in no payslip.
* A correction re-adds the administration shortfall of an earlier computation
  (payroll/routes.py 504).
* `PayrollInput.locked` is "set when the period is finalized" (payroll/
  workforce.py 201) and is never set.

Compensation:

* Two versions created in flight overlap; a creation and a deletion in flight
  leave days without pay (compensation/service.py 174 promises neither).
* An undated salary in a month with a later dated version changes only the days
  before that version (payroll/routes.py 271).
* In a month without a working day each of several versions is paid in full
  (compensation/service.py 131).

Work facts and attendance:

* `record_fact` clears an approval it did not load by writing None over None,
  which writes nothing; an approval committed in between stands over the new
  content (payroll/workforce_routes.py 314).  So does the approval of a
  derivation in flight with it, in nobody's name, though "anything a human typed
  is left exactly alone" (attendance/bridge.py 13; `ApprovalsAreAccountedFor`).
* Every handler checks that the month is open before it writes, and nothing
  holds it open: a recording, an approval, a deletion or a derivation in flight
  with a finalization writes the closed month (payroll/workforce_routes.py 85;
  `ClosedFactsStand`).
* The bridge is described as running nightly (attendance/bridge.py 81); nothing
  schedules it.  It withdraws the approval of an absence it derives again
  (bridge.py 140), so a confirmed absence costs its pay only until the next
  derivation.  Two derivations in flight can leave an absence approved that
  nobody signed.
* A fact recorded by a person with the source "attendance" is the bridge's, to
  replace and to approve.
* `approve_facts` takes ids and no version: it approves what is there, not what
  the approver saw.
* `derive_period` takes the date of a UTC clock: between the company's midnight
  and that of UTC a missing punch is signed off as worked, and so is today while
  somebody is still at work.  Deriving the current month marks its future days
  absent, though nothing of it is approved.
* A day with only a check-out is absent, and so is the second day of a night
  shift (attendance/service.py 227, 359); self-service refuses the check-out
  after midnight, and an open punch accrues hours without bound.
* Two punches of one employee may have one instant, and pairing orders by the
  instant alone (service.py 83, 169): of an out and an in both at noon the
  database may give either first, and the afternoon counts or does not, from
  one reading to the next.
* Each session is floored to whole minutes (service.py 98, 108), so that a day
  of several sessions can lose almost a minute with each.
* A change of timezone files past punches under other days.  Two first uses in
  flight create two policies; two taps in flight both pass the check on what the
  last punch was.

Inbox:

* The sweep commits after its mails: a mail that fails rolls back the watermark
  of those sent before it, and they are sent again on the next sweep
  (core/inbox/digest.py 60), though the digest "sends only what it has not
  already mentioned".
* An item mailed before its escalation is not mailed because of it
  (digest.py 32, `notified_at IS NULL`), though core/inbox/tasks.py 4-6 has
  "an item that has just crossed the threshold" go out "in the same message".
* Dismissing a resolved item whose problem has come back leaves two rows with
  one key, and the sync looks at either; if it is the dismissed one, the open
  row is never closed (core/inbox/service.py 86).  A dismissal and a sync in
  flight can lose the dismissal.

Work calendar:

* Two deletions in flight each see the other's company-wide assignment and leave
  none; two first uses in flight make two default calendars.
* On a fresh tenant `POST /calendars` creates the default and the new calendar
  in one transaction, with one `created_at`: which of the two `/work-week` and
  `/holidays` then edit is not determined, and it may be the one nobody is
  assigned.
* Assignments of one scope and date tie, and are answered in no order, though
  work_calendar/service.py 23-24 calls the resolution deterministic; assignments
  dated into the past, or deleted, change what was (lines 10-11).
* The last company-wide assignment may end, or begin later: the days it does not
  cover fall back to the default.
* A range is resolved on its first day, so one day may be billed otherwise by
  leave or payroll than presence and heatmap show it.

Leave:

* leave/service.py 1-3 has balances and approval "never disagree"; an approval
  uses the type's annual quota, the balance its policies and compensatory off.
* Two approvals in flight exceed the quota; an approval and a rejection in
  flight leave whichever commits last.  A request for next year is compared with
  this year's use.  Overlapping requests are both billed.
* leave/entitlement.py 64-67 counts a month "only once it has been served", and a
  joiner of 31 July has not served July; `completed_months` counts a month from
  its first day, and its test expects that (apps/api/tests/test_entitlement.py
  30-32).
* "A full year gives the full quota exactly, with no rounding applied at all"
  (entitlement.py 115): line 118 rounds it to a half day, so that of a quota of
  1.3 days, which a policy can hold, a year grants 1.5.
* Carry-forward grants last year by this year's terms.  Policies of one scope and
  date tie.  `allow_negative_balance` is not read.

Corrections, contractors, statutory:

* An approval and a cancellation in flight leave a live line for a withdrawn
  correction; an approval and a finalization leave a line in a closed month; a
  record and an approval of an invoice leave a figure approved that was never
  compared.
* Two corrections of one worker from and to the same months have one default
  code, and the second cannot be approved (payroll/workforce.py 165).
* An arrear is an earning, and is prorated by the days paid of the month it is
  paid in.  It still counts in the half of pay that allowances may not exceed, so
  it can raise the base of the provident fund, though payroll/adjustments.py
  140-142 says it does not; and it raises the wage that ESI looks at.
* A reconciliation is of who is deployed today, whatever month it is of.
* The lock-in of a contribution period looks only at finalized months.

Applicant tracking:

* A candidate may book once per offer, not once: two proposals are two bookings.
  A slot in the past can be booked.
* A confirmation is mailed before the commit; if the next mail fails the booking
  is rolled back.  A reminder sweep that is delivered again mails again
  (ats/tasks.py 92).
* Two screenings in flight both ask the model and may store two verdicts.
  Screening again after a booking may send the application to rejection, and the
  auto-rejection overwrites a proposal committed meanwhile.
* A second application with a resume that cannot be read is "received", where the
  first "needs review".

## What is not modelled

Row-level security (each module is one company's data); payslip wording, register
and export files; the readiness, validation warning and movement views, which
only read; soft-delete columns beyond their effect; HTTP, authentication of the
caller and permissions.  Of the parts that are modelled: compensatory off
(leave/comp_off.py), professional tax, income tax, insurance and administration
charges, the choice of the statutory rule in force, pay components and slabs,
establishments and their default, the parsing of resumes, job openings, and the
lists and labels of every view.  Artifacts, seats, authentication, the assistant,
notifications, search, flags and the web application are left out for the
reasons given in PROJECT.json's `components`: they keep no state the others rely
on, or what can go wrong with them is outside the program.

## Plan

Done, in this order because money that has been paid cannot be corrected:
PayrollRun with PaidMonth, Compensation with PaySchedule and PeriodPay,
WorkFacts, Inbox; then Hiring, WorkCalendar, Leave with Entitlement, Settlement
with Statutory, Attendance.

What would come next:

1. Compensatory off in Leave: what overtime earns, and when it lapses.
2. Logins, Seats and Artifacts, small protocols of check and write.
3. One composition of WorkFacts, Inbox and PayrollRun over a month, in place of
   the free environments they have now.
