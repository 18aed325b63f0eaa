SPECIFICATION Spec
CONSTANTS
    MaxCommits = 1
    MaxReports = 1
    MaxErrors = 0
    MaxCrashes = 0
INVARIANTS AckedReportKept
CHECK_DEADLOCK FALSE
