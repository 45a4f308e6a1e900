CONSTANTS
    Resumes = {r1}
    Readable = {}
    Applications = {a1, a2}
    Slots = {s1, s2}
    HR = {p1}
    Visitors = {c1, c2}
    Workers = {p1}
    Findings <- Readings
    Job <- Opening
    MaxOffers = 2
SPECIFICATION Spec
SYMMETRY Symmetry
INVARIANTS OneBookedPerOffer BookedSlotsAreInterviews SameResumeSameTier
