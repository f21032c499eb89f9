\* Two tabs that upload and delete, a submit or an adoption beside them, and one
\* worker process, on one volume; anything may be killed.  The job may be left
\* alone for good.
CONSTANTS
    Handler = {h1, h2}
    Saver = {s1}
    Worker = {w1}
    Upload = {u1, u2}
    None = None
    WebDisk = "pvc"
    WorkerDisk = "pvc"
    MaxRetries = 0
    MayCrash = TRUE
    MaxRequests = 3
SPECIFICATION Spec
INVARIANTS TypeOK CompletedHasChecksum
PROPERTIES EndedUploadIsLeftAlone 
SYMMETRY Symmetry
CHECK_DEADLOCK FALSE
