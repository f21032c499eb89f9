\* An upload whose job starts after the check still wipes the job's files.
CONSTANTS
    Handler = {h1}
    Saver = {s1}
    Worker = {w1}
    Upload = {u1, u2}
    None = None
    WebDisk = "web"
    WorkerDisk = "worker"
    MaxRetries = 0
    MayCrash = FALSE
    MaxRequests = 3
SPECIFICATION Spec
PROPERTIES RefusedBeforeAnythingIsDeleted
