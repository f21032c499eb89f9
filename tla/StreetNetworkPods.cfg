\* Requests one after the other on either of two web pods, the worker pod on a
\* disk of its own; two networks; one request or run may be killed half way.
CONSTANTS
    Handler = {h1}
    Worker = {w1}
    WebDisk = {d1, d2}
    WorkerDisk = "worker"
    Intent = {"default", "edited"}
    NoEdits = "default"
    Net = {n1, n2}
    None = None
    MaxCrashes = 1
    MaxRequests = 5
SPECIFICATION Spec
INVARIANTS TypeOK CurrentFilesAreTrue PagesShowTheRow RunComputesItsInput
SYMMETRY Symmetry
CHECK_DEADLOCK FALSE
