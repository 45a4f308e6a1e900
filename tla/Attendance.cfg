CONSTANTS
    Minute = 2
    DayLength = 3
    Offsets <- BehindAndAhead
    Horizon = 4
    MaxPunches = 3
    DaysOff = {"holiday"}
    LeaveKinds = {"unpaid_leave"}
    WorkdayStart = 1
    Grace = 0
    Requests = {t1}
SPECIFICATION Spec
INVARIANTS WorkedMatchesClock EvidenceIsNotAbsence
PROPERTIES CheckInNeverLoses
