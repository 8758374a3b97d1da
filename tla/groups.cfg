\* One dashboard against requests from others; reloads overlap.
SPECIFICATION HistorySpec
CONSTANTS
    Device = {d1, d2}
    Group = {g1}
    Tab = {t1}
    Request = {r1, r2}
    MaxRequests = 2
    MaxLoads = 2
    MaxFaults = 1
    None = None
SYMMETRY MCSymmetry
INVARIANTS TypeOK StaleOnlyIfUnannounced StableMembersReached
PROPERTIES ReplacesMembership
CHECK_DEADLOCK FALSE
