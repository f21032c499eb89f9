\* One user who waits for answers and runs; two web pods and the worker pod, a
\* disk each; three runs.
CONSTANTS
    Handler = {h1}
    WebDisk = {d1, d2}
    WorkerDisk = "worker"
    None = None
    OneAtATime = TRUE
    MaxRuns = 3
    MaxRequests = 12
SPECIFICATION Spec
INVARIANTS TypeOK AnswersShowTheStorage GpxHasTheDirection CompletedHasItsOutputs
SYMMETRY Symmetry
CHECK_DEADLOCK FALSE
