\* Two requests for any selection of the university and its department run side
\* by side while members come and go.
SPECIFICATION AllocationSpec
CONSTANTS
    o1 = o1  o2 = o2
    Users = {u1, u2}
    Orgs = {o1, o2}
    Semesters = {s1}
    Requests = {p1, p2}
    Ancestors <- MCAncestors
    TargetLists = {{o1}, {o2}, {o1, o2}}
    MaxAllocations = 2
SYMMETRY MCSymmetry
INVARIANTS AllocationsAreSound
