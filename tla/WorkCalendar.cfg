CONSTANTS
    Calendars = {c1, c2}
    Establishments = {e1}
    Rows = {r1, r2, r3}
    Requests = {t1}
    Weeks <- TwoWeeks
    FirstDay = 4
    LastDay = 5
    HolidayDays = {4}
    Nowhere = Nowhere
SPECIFICATION Spec
SYMMETRY Symmetry
INVARIANTS CompanyStaysCovered
PROPERTIES OwnCalendarStands EffectiveFromItsDate MidPeriodChangeWaits
