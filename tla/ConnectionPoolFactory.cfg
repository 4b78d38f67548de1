SPECIFICATION Spec
CONSTANTS
    c1 = c1
    c2 = c2
    c3 = c3
    s1 = s1
    s2 = s2
    p1 = p1
    p2 = p2
    p3 = p3
    p4 = p4
    p5 = p5
    None = None
    Callers = {c1, c2, c3}
    Servers = {s1, s2}
    Pools = {p1, p2, p3, p4, p5}
SYMMETRY Symmetry
INVARIANT OpenIsKept
PROPERTY StaleOnlyInShutdown
