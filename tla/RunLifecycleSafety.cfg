\* Two tabs, two workers, two submits, a pod restart; requests may be killed
\* half way.
CONSTANTS
    Handler = {h1, h2}
    Worker = {w1, w2}
    Task = {t1, t2}
    NoTask = NoTask
    WebMayCrash = TRUE
    MaxClicks = 2
    MaxEdits = 1
    MaxRestarts = 1
SPECIFICATION Spec
INVARIANTS TypeOK AttemptClaimedOnce
PROPERTIES ImplementsJobRun
SYMMETRY Symmetry
