CONSTANTS
    Leaves = {l1, l2}
    Policies = {p1, p2}
    Requests = {t1}
    Dates <- SomeDates
    ServiceDates <- SomeServiceDates
    LeaveDates <- SomeLeaveDates
    Bills = {15}
    Ranks = {1, 3}
    Terms <- SomeTerms
    Spans <- SomeSpans
    Quota = 20
SPECIFICATION Spec
SYMMETRY Symmetry
INVARIANTS TypeOK QuotaKept MethodsMeet
PROPERTIES EarnedStays NarrowerStands
