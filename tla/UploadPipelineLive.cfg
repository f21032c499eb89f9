\* Uploads and deletions of one tab, submits of another, retries and late polls,
\* on one volume; nothing is killed but revoked tasks.  The job may be left
\* alone for good.
CONSTANTS
    Handler = {h1}
    Saver = {s1}
    Worker = {w1}
    Upload = {u1, u2}
    None = None
    WebDisk = "pvc"
    WorkerDisk = "pvc"
    MaxRetries = 1
    MayCrash = FALSE
    MaxRequests = 3
SPECIFICATION FairSpec
PROPERTIES UploadEnds
CHECK_DEADLOCK FALSE
