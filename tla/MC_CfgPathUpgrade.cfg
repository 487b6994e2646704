\* The upgrade with commits that may fail and a worker that may crash.
CONSTANTS
    Hosts <- MC_Hosts
    Workers <- MC_Workers
    HostOrder <- MC_HostOrder
    WorkerOrder <- MC_WorkerOrder
    CommitCount = 2
    arch <- MC_arch
    items <- MC_items
    osInit <- MC_osInit
    cached <- MC_cached
    CommitMayFail = TRUE
    GenericRowsFound = {TRUE, FALSE}
SPECIFICATION Spec
\* The script ends: the state after `Finish` has no successor.
CHECK_DEADLOCK FALSE
INVARIANTS
    TypeOK
PROPERTIES
    Terminates
