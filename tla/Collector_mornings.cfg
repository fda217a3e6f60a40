\* Two snapshots, two managers, one import or pass at a time.
CONSTANTS
    None = None
    h1 = h1
    m1 = m1
    m2 = m2
    Handlers = {h1}
    Managers = {m1, m2}
    Templates = {1, 2}
    Changes = {1, 2, 3, 4}
    Names = {"sat", "knockout"}
    MaxDay = 1
    Horizon = 1
    Near = 0
    GuardMin = 10
    MaxRequests = 2
    MaxPasses = 2
    Files <- MCFiles
    InitStarts <- MCInitStarts
    Lobbies <- MCLobbies
SYMMETRY Symmetry
SPECIFICATION CSpec
INVARIANTS OneVerdict
 
CHECK_DEADLOCK FALSE
