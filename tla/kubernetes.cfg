\* A job that is edited twice and deleted, with one fault anywhere.
SPECIFICATION FairSpec
CONSTANTS
    MaxScale = 3
    InitialScales = {3}
    MaxEdits = 2
    MaxFaults = 1
INVARIANTS
    TypeOK
    NoOrphans
    CoordinatorAgrees
PROPERTIES
    NoCountedPodRemoved
    DeletionCompletes
    PodsFollowJob
\* a deleted job comes to rest
CHECK_DEADLOCK FALSE
