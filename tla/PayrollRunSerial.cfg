CONSTANTS
    Employees = {e1, e2}
    Requests = {r1}
    Salaries = {1}
    Codes = {bonus}
    Deductions = {}
    FactKinds = {"overtime"}
    LeaveDays = {0, 1}
    TaxAmounts = {0}
    TypedDays = {2}
    WorkingDays = 1
    MaxRows = 2
    Recorded = {e1}
    Keep = Keep
SPECIFICATION Spec
SYMMETRY Symmetry
INVARIANTS HeaderMatchesSlips
PROPERTIES ImplementsPaidMonth TypedDaysSurvive ShortfallSettled LedgerClosedOnceFinalized
