\* Two screens, three sessions, two concurrent claims.
SPECIFICATION Spec
CONSTANTS
    Agent = {a1, a2}
    Session = {x1, x2, x3}
    Device = {d1, d2}
    Claim = {c1, c2}
    MaxFaults = 1
    None = None
INVARIANTS TypeOK OneScreenPerDevice OfferedDeviceExists
PROPERTIES ClaimReachesScreen ImplementsBinding
CHECK_DEADLOCK FALSE
