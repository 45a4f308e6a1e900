CONSTANTS
    Months = {11, 12, 15}
    Billed = {12}
    Workers = {w1}
    Claims = {a1, a2}
    Codes = {}
    Requests = {t1}
    Salary = 1
    EsiCeiling = 1
    EsiRate = 75
    Figures = {1, 2}
    EpfRule <- Epf
    PfCeiling = 2000
    Amounts <- Salaries
SPECIFICATION Spec
SYMMETRY Symmetry
INVARIANTS LedgerMatchesClaims SharesReconcile
PROPERTIES ClosedMonthStands AgreedGoesOnMatching EsiFollowsPeriods
