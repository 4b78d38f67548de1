SPECIFICATION Spec
CONSTANTS
    w1 = w1
    w2 = w2
    r1 = r1
    r2 = r2
    Requests = {r1, r2}
    NoRequest = NoRequest
    Workers = {w1, w2}
    Objects = {o1, o2}
    NoObject = NoObject
SYMMETRY Symmetric
INVARIANTS TypeOK   
 
CHECK_DEADLOCK FALSE
