SPECIFICATION Spec
CONSTANTS
    Names = {"p"}
    Packages = {"v2"}
    Shipped = "v1"
    Values = {"a", "b", "x"}
    Unknown = {"x"}
    Configs <- MCConfigs
    MaxJobs = 2
    MaxCrashes = 1
    MaxUploads = 2
    ClockSteps = FALSE
    Faults = {"send", "partial", "copy", "pip", "set", "mark"}
INVARIANTS SettingsInForce ReportedOnce OnlyCheckedIsUnpacked
\* A failed copy, or a package written over in the middle of one, ends in a service that
\* nothing starts again.
CHECK_DEADLOCK FALSE
