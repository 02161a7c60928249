SPECIFICATION Spec
CONSTANTS
    p1 = p1
    p2 = p2
    look = look
    edit = edit
    residue = residue
    Procs = {p1, p2}
    Drivers = {p1}
    Look = look
    Edit = edit
    Checks <- OneCheck
    Actions = {look, edit, residue}
    NoAction = NoAction
    Orders <- AllOrders
    MaxAttempts = 2
    Says = {"good", "bad"}
    Found = {"absent", "other"}
    ResultsExpire = FALSE
INVARIANTS RunsOnce OneOutcome CompletedIsRendered MutationDecided ResultIsReceipted CompletedIsVerified
PROPERTY EndIsFinal
CHECK_DEADLOCK FALSE
