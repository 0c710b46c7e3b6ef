SPECIFICATION TranscriptSpec
CONSTANTS
    MaxLog = 7
    MaxRounds = 3
    MaxReports = 1
    MaxResumes = 1
    MaxProcessCrashes = 1
    Tools = {1}
    Large = 3
    HeaderTokens = 1
    MemoryTokens = 1
    ProjectTokens = 1
    MaxInput = 6
    SemanticAt = 6
    KeepRecent = 1
    MaxFailures = 2
    MaxRetries = 1
    Overclaim = 2
CONSTRAINT OneWindow
CHECK_DEADLOCK FALSE
INVARIANTS NothingHidden Paired
PROPERTIES CompactionProgress
