CONSTANTS
    Users = {u1, u2}
    Facts = {f1}
    Requests = {r1}
    EscalateAfter = 1
    MaxItems = 2
    Nobody = Nobody
SPECIFICATION BoxSpec
INVARIANTS BoxTypeOK
PROPERTIES SyncReconciles DismissedStaysDown
