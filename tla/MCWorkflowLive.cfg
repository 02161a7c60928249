SPECIFICATION FairSpec
CONSTANTS
    p1 = p1
    p2 = p2
    look = look
    edit = edit
    residue = residue
    Procs = {p1}
    Drivers = {p1}
    Look = look
    Edit = edit
    Checks <- OneCheck
    Actions = {look, edit, residue}
    NoAction = NoAction
    Orders <- OnlyFill
    MaxAttempts = 1
    Says = {"good", "vague", "bad"}
    Found = {"absent"}
    ResultsExpire = TRUE
PROPERTY DoubtSettles
CHECK_DEADLOCK FALSE
