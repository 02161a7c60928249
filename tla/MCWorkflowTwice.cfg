SPECIFICATION Spec
CONSTANTS
    p1 = p1
    p2 = p2
    look = look
    edit = edit
    residue = residue
    Procs = {p1, p2}
    Drivers = {p1, p2}
    Look = look
    Edit = edit
    Checks <- OneCheck
    Actions = {look, edit, residue}
    NoAction = NoAction
    Orders <- OnlyFill
    MaxAttempts = 1
    Says = {"good", "vague", "bad"}
    Found = {"absent"}
    ResultsExpire = FALSE
INVARIANT EditRunsOnce
SYMMETRY Symmetry
CHECK_DEADLOCK FALSE
