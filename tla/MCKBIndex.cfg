CONSTANTS
    w1 = w1
    w2 = w2
    r1 = r1
    r2 = r2
    p1 = p1
    p2 = p2
    Doc = {d1, d2, d3}
    Process = {p1, p2}
    Worker = {w1, w2}
    Request = {r1, r2}
    ProcOf <- MCProcOf
    Batches = 2
    MaxDocs = 1
    MaxOps = 2
    MaxFaults = 1
SYMMETRY MCSymmetry
SPECIFICATION Spec
INVARIANTS
    TypeOK
    RowHasFile
    ExactIndex
    IndexingIsOwned
    
CHECK_DEADLOCK FALSE
