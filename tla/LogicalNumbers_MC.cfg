SPECIFICATION Spec
CONSTANTS
    p1 = p1
    p3 = p3
    l5 = l5
    l6 = l6
    l7 = l7
    n = n
    c = c
    None = None
    Primaries <- ThePrimaries
    Logicals <- TheLogicals
    Created = {n}
    Copies = {c}
    MaxOps = 3
INVARIANTS
    NumbersTell
    ActivatedIsActive
