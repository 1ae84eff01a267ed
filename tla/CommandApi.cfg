SPECIFICATION FairSpec
CONSTANTS
    Posts = 6
    NoKey = "none"
    KeyOf <- Key
    CommandOf <- Command
    QueueCapacity = 2
    HistoryCapacity = 2
    Preparations = 2
INVARIANTS
    KeyContract
    NothingLost
PROPERTY
    Settles
\* The process ends.
CHECK_DEADLOCK FALSE
