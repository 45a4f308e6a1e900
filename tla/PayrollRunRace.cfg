CONSTANTS
    Employees = {e1}
    Requests = {r1, r2}
    Salaries = {1}
    Codes = {recovery}
    Deductions = {recovery}
    FactKinds = {"overtime"}
    LeaveDays = {0}
    TaxAmounts = {2}
    TypedDays = {}
    WorkingDays = 1
    MaxRows = 1
    Recorded = {e1}
    Keep = Keep
SPECIFICATION Spec
SYMMETRY Symmetry
INVARIANTS OnlyApprovedLinesPaid
PROPERTIES FinalizedForGood OnlyAdjustChangesTax
