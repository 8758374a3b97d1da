SPECIFICATION FairSpec
CONSTANTS
    Handler = {h1, h2}
    NumPorts = 2
    MaxBeats = 2
    MaxUp = 1
    MaxWrites = 2
    Starts <- MCStarts
    None = None
INVARIANTS TypeOK TvStateTrue AdapterKnownAfterSearch RunsCheckout ReportUnderWay PowerFollowsRow
PROPERTIES ReportCatchesUp NewestVersionRuns
CHECK_DEADLOCK FALSE
