SPECIFICATION FairSpec
CONSTANTS
    Names = {"p"}
    Packages = {"v2"}
    Shipped = "v1"
    Values = {"a", "b", "x"}
    Unknown = {"x"}
    Configs <- MCFewConfigs
    MaxJobs = 2
    MaxCrashes = 1
    MaxUploads = 1
    ClockSteps = FALSE
    Faults = {"partial", "copy", "pip"}
PROPERTIES ServiceComesBack RestartFollows
\* A failed copy, or a package written over in the middle of one, ends in a service that
\* nothing starts again.
CHECK_DEADLOCK FALSE
