\* Two requests on one disk, as in production: one rewrites a file while the
\* other records it.
CONSTANTS
    Handler = {h1, h2}
    Worker = {w1}
    WebDisk = {"pvc"}
    WorkerDisk = "pvc"
    Intent = {"default", "edited"}
    NoEdits = "default"
    Net = {n1}
    None = None
    MaxCrashes = 0
    MaxRequests = 6
SPECIFICATION Spec
INVARIANTS HalfWrittenIsNeverCurrent
CHECK_DEADLOCK FALSE
