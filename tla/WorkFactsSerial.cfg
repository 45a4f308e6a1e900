CONSTANTS
    FactDays = {d1, d2}
    Requests = {r1}
    Statuses = {"worked", "absent", "leave"}
    Sources = {"attendance", "manual"}
    MaxFacts = 2
SPECIFICATION FactSpec
SYMMETRY Symmetry
INVARIANTS ApprovalsAreAccountedFor
PROPERTIES DockedOnlyByApproval SignedFactsStand ClosedFactsStand
