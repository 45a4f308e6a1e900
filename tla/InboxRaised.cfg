CONSTANTS
    Users = {u1, u2}
    Facts = {f1}
    Requests = {r1}
    EscalateAfter = 2
    MaxItems = 1
    Nobody = Nobody
SPECIFICATION FairSpec
PROPERTIES OpenItemsAreRaised
