\* Two pages, two scale factors, two crashes.
SPECIFICATION FairSpec
CONSTANTS
    Url = {u1, u2}
    PairingPage = pairing
    Zoom = {one, two}
    DefaultZoom = one
    Process = {p1, p2, p3}
    Timer = {k1, k2}
    MaxCrashes = 2
    Blank = blank
    None = None
INVARIANTS TypeOK OneBrowser ScreenFollowsContent
PROPERTIES CrashedBrowserReturns ImplementsScreen
CHECK_DEADLOCK FALSE
