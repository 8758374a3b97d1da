\* Detection of dead links and reconnection.
SPECIFICATION FairSpec
CONSTANTS
    Device = {d1}
    Socket = {s1, s2}
    Request = {r1}
    page = page
    blank = blank
    one = one
    two = two
    None = None
    Content <- MCContent
    Blank <- blank
    Zoom <- MCZoom
    DefaultZoom <- one
    Commands <- LifeCommands
    MaxQueue = 1
    MaxFaults = 2
PROPERTIES HalfOpenDetected ReconnectsForGood
CHECK_DEADLOCK FALSE
