CONSTANTS
    a = a b = b p1 = p1 p2 = p2 c1 = c1 c2 = c2 t1 = t1 t2 = t2
    Same = Same
    Users = {a, b}
    Me = b
    InitialRole <- TwoAdmins
    Patches = {p1, p2}
    Changes <- FewChanges
    Calls = {c1, c2}
    MaxTokens = 3
    MaxFaults <- FaultsWithLocks
    Tabs = {t1, t2}
    Scenes <- TabsOrChanges
SYMMETRY Symmetry
SPECIFICATION Spec
INVARIANTS ReuseMeansLoss SignedInHasToken LastAdminIsLocked
PROPERTY DeadFamilyStaysDead
CHECK_DEADLOCK FALSE
