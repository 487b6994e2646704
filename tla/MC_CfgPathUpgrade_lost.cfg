\* The upgrade with every commit succeeding, every cfg_path cached and the
\* generic OS rows present: only the join timeouts can lose work.
CONSTANTS
    Hosts <- MC_Hosts
    Workers <- MC_Workers
    HostOrder <- MC_HostOrder
    WorkerOrder <- MC_WorkerOrder
    CommitCount = 2
    arch <- MC_arch
    items <- MC_items
    osInit <- MC_osInit
    cached <- MC_all_cached
    CommitMayFail = FALSE
    GenericRowsFound = {TRUE}
SPECIFICATION Spec
CHECK_DEADLOCK FALSE
INVARIANT
    OsItemCopiedBeforeDelete
