SPECIFICATION MCSpec
CONSTANTS
    Slugs = {"scholar", "web", "maps"}
    Railway = {"maps"}
    NoShelf = {NoShelf}
    Scenarios = {
        {"addWeb", "rmScholar", "enable", "view", "toggleWeb"},
        {"addWeb", "disable", "enable", "save"},
        {"pickWeb", "enable", "rmScholar", "hide", "keys"},
        {"visit", "create", "edit", "delete", "addMaps"},
        {"create", "toggleMaps", "delete", "edit"},
        {"toggleMaps", "twiceMaps", "visit", "hide"},
        {"browse", "promote", "raise", "demote", "addWeb"},
        {"show", "create", "visit", "delete"}}
    Requests <- MCRequests
    Kind <- MCKind
    SlugsOf <- MCSlugsOf
    Change <- MCChange
    Procs = {"p1", "p2"}
    NoRequest = NoRequest
    MaxFaults = 1
INVARIANTS TypeOK OnlyAgentsAreStale
PROPERTIES ChangesWhatItMust StaysUnpublished
\* The workload is finite: a run ends when every request is answered.
CHECK_DEADLOCK FALSE
