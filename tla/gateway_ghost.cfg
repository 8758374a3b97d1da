\* A connection that closes while its handler awaits.
SPECIFICATION Spec
CONSTANTS
    Device = {d1}
    Socket = {s1, s2}
    Request = {r1}
    page = page
    blank = blank
    one = one
    two = two
    None = None
    Content <- MCContent
    Blank <- blank
    Zoom <- MCZoom
    DefaultZoom <- one
    Commands <- ContentCommands
    MaxQueue = 1
    MaxFaults = 1
INVARIANTS NoGhostOnline
CHECK_DEADLOCK FALSE
