SPECIFICATION Spec
CONSTANTS
    r1 = r1 r2 = r2 None = None
    NServices = 2
    NSources = 3
    NAddresses = 2
    Rest = {r1}
    Labels <- FreeLabels
INVARIANTS ReplacesAll
