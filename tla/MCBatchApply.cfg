SPECIFICATION Spec
CONSTANTS
    r1 = r1
    f1 = f1
    Requests = {r1}
    Foreign = {f1}
    MaxCalls = 2
    MaxTrouble = 2
    Absent = Absent
PROPERTIES RolledBackIsTrue OkIsTrue KeyMeansDone PreimageSurvives
CHECK_DEADLOCK FALSE
