\* A submit writes the inputs of the job it loaded over a newer edit.
CONSTANTS
    Handler = {h1, h2}
    Worker = {w1}
    Task = {t1, t2}
    NoTask = NoTask
    WebMayCrash = FALSE
    MaxClicks = 2
    MaxEdits = 1
    MaxRestarts = 0
SPECIFICATION Spec
PROPERTIES RunningInputIsFrozen
