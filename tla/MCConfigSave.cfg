SPECIFICATION Spec
CONSTANTS
    Machines = {"m1", "m2"}
    Names = {"a", "a2"}
    Words = {"", "host", "a"}
    Slug <- MCSlug
    t1 = t1
    t2 = t2
    Tabs <- MCTabs
    Initial <- MCInitial
    Written <- MCWritten
    MaxHosts = 2
    MaxSaves = 2
    Faults = {"write", "crash", "old"}
INVARIANTS KeysAreUnique
PROPERTIES IdsStay TokensStay TokensAreKept
SYMMETRY Alike
