\* Content, scale factor, TV power and removal, by requests that may overlap.
SPECIFICATION HistorySpec
CONSTANTS
    Device = {d1}
    Socket = {s1, s2}
    Request = {r1, r2}
    page = page
    blank = blank
    one = one
    two = two
    None = None
    Content <- MCContent
    Blank <- blank
    Zoom <- MCZoom
    DefaultZoom <- one
    Commands <- ControlCommands
    MaxQueue = 1
    MaxFaults = 1
CONSTRAINT OverlapBeforeFaults
SYMMETRY SlotSymmetry
INVARIANTS TypeOK LiveSocketRegistered StaleOnlyFromLookup DeviceFollowsRow
PROPERTIES OnlyRegisteredSocketWritten
CHECK_DEADLOCK FALSE
