SPECIFICATION Spec
CONSTANTS
    p1 = p1
    r1 = r1
    e1 = e1
    e2 = e2
    Publishers = {p1}
    Removers = {r1}
    Edits = {e1, e2}
    Initial = Initial
    Nothing = Nothing
    Serialised = TRUE
SYMMETRY EditSymmetry
INVARIANTS NoResidue FailureLeavesNoCandidate ReaderFindsFile
PROPERTIES KeepsPromise
CHECK_DEADLOCK FALSE
