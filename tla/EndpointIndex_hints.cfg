SPECIFICATION Spec
CONSTANTS
    r1 = r1 r2 = r2 None = None
    NServices = 2
    NSources = 2
    NAddresses = 2
    Rest = {r1, r2}
    Labels <- FixedLabels
INVARIANT UpdatesExisting
