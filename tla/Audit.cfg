SPECIFICATION Spec
CONSTANTS
    Browsers = {b1}
    Slots = {q1, q2}
    Sids = {s1, s2}
    Tasks = {t1}
    AuditLimit = 2
    MaxEntries = 4
    MaxRequests = 2
    Junk = Junk
    None = None
SYMMETRY AuditSymmetry
INVARIANTS TypeOK NewestInMemory LossesAreBounded LogoutsAddUp
CHECK_DEADLOCK FALSE
