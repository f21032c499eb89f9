\* Two tabs; five clicks, pages opened, uploads and submits among them, or four with
\* a second upload or while a submit is in flight; a download is retried once, and
\* the worker may be killed.
CONSTANTS
    Road = {1, 2, 3, 4}
    Node = {1, 2, 3, 4, 5, 6, 7, 8, 9, 10, 11}
    Grade = {"grade1"}
    DefaultGrades = {"grade1"}
    Tag = {"Road", "Track"}
    TypesOf <- MCTypesOf
    Writer = {w1}
    Osm <- MCOsm
    Areas <- MCAreas
    MaxRetries = 1
    MaxUploads = 2
    Tab = {a, b}
    MaxClicks = 5
SPECIFICATION Spec
INVARIANTS TypeOK FinalFilesAreWhole BorderRoadsAreKept NothingIsOutOfReach
    KeptNetworkIsTheLargest FinishedRemovalsStay CalmTabsShowTheRow
CONSTRAINT FewClicks
SYMMETRY Symmetry
CHECK_DEADLOCK FALSE
