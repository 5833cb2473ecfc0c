SPECIFICATION FairSpec
CONSTANTS
    Windows = {"chat", "float"}
    SeedWindow = "chat"
    MaxSends = 2
    MaxMounts = 2
    MaxLines = 1
    MaxDeaths = 1
INVARIANTS
    NoOrphanPlaceholder
    ReplyShownOnce
PROPERTY BubblesSettle
CHECK_DEADLOCK FALSE
