\* Two tabs of one job, one upload at a time, two pages opened or runs started.
CONSTANTS
    Tab = {a, b}
    Upload = {u1}
    None = None
    MaxMoves = 2
SPECIFICATION Spec
INVARIANTS TypeOK AnswersAgreeWithLayout
PROPERTIES PagesSeeTheUploadEnd
CHECK_DEADLOCK FALSE
