SPECIFICATION FairSpec
CONSTANTS
    MaxCommits = 3
    MaxReports = 1
    MaxErrors = 1
    MaxCrashes = 1
INVARIANTS TypeOK FlushPending
PROPERTIES OutcomesNeverRegress OutcomesSaved
CHECK_DEADLOCK FALSE
