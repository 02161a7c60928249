SPECIFICATION Spec
CONSTANTS
    m1 = m1
    m2 = m2
    m3 = m3
    a1 = a1
    a2 = a2
    b1 = b1
    c1 = c1
    c2 = c2
    Processes = {m1, m2, m3}
    Threads = {a1, a2, b1, c1, c2}
    ProcOf <- MCProcOf
    Forked = {m2, m3}
    MaxDepth = 2
    Free = Free
SYMMETRY ThreadSymmetry
INVARIANTS Alone Reenters
