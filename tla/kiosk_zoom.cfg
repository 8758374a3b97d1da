\* The scale factor under a crash and its respawn.
SPECIFICATION Spec
CONSTANTS
    Url = {u1, u2}
    PairingPage = pairing
    Zoom = {one, two}
    DefaultZoom = one
    Process = {p1, p2, p3}
    Timer = {k1, k2}
    MaxCrashes = 2
    Blank = blank
    None = None
INVARIANTS ScreenFollowsZoom
CHECK_DEADLOCK FALSE
