\* Two writers of one schedule, three requests, the grid kept in four rows.
CONSTANTS
    None = None
    h1 = h1
    h2 = h2
    Handlers = {h1, h2}
    Templates = {1, 2, 3, 4}
    Names = {"sat", "sun"}
    MaxDay = 2
    Horizon = 1
    GuardMin = 2
    MaxRequests = 3
    Files <- MCFiles
    InitStarts <- MCInitStarts
SYMMETRY Symmetry
SPECIFICATION Spec
INVARIANTS StrayOnlyByRace
PROPERTIES PassLeavesExactSchedule WantedStartKeepsBells 
CHECK_DEADLOCK FALSE
