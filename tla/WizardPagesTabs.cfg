\* Two tabs of one job, at any step of the wizard; four clicks.
CONSTANTS
    Tab = {a, b}
    FirstStage = {0, 3}
    MaxClicks = 4
SPECIFICATION Spec
INVARIANTS TypeOK TicksStayTrue ResumeOpensAStepReached
PROPERTIES RunPageSeesTheEnd
CHECK_DEADLOCK FALSE
