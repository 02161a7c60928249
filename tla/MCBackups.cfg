SPECIFICATION Spec
CONSTANTS
    Depth = 2
    MaxOps = 2
    MaxTrouble = 2
    Foreign = {1}
    Absent = Absent
    Torn = Torn
INVARIANTS TargetWhole
PROPERTIES GenerationsSurvive AllOrNothing NothingTrampled
CHECK_DEADLOCK FALSE
