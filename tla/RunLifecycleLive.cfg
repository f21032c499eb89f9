\* Two tabs, one worker, two submits, a pod restart; no request is killed.
CONSTANTS
    Handler = {h1, h2}
    Worker = {w1}
    Task = {t1, t2}
    NoTask = NoTask
    WebMayCrash = FALSE
    MaxClicks = 2
    MaxEdits = 0
    MaxRestarts = 1
SPECIFICATION FairSpec
INVARIANTS QueuedRunIsBacked
PROPERTIES RunEnds
