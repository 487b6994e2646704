\* The change-management context over the CMDB of MC_ChangeManagement.
CONSTANTS
    Hosts <- MC_Hosts
    Clusters <- MC_Clusters
    HwEntities <- MC_HwEntities
    Locations <- MC_Locations
    Fqdns <- MC_Fqdns
    DnsRecords <- MC_DnsRecords
    OtherObjects <- MC_OtherObjects
    Envs <- MC_Envs
    Statuses <- MC_Statuses
    kindOf <- MC_kindOf
    envOf <- MC_envOf
    statusOf <- MC_statusOf
    clusterHosts <- MC_clusterHosts
    members <- MC_members
    hostHw <- MC_hostHw
    hwLocation <- MC_hwLocation
    clusterLocation <- MC_clusterLocation
    children <- MC_children
    bound <- MC_bound
    slots <- MC_slots
    hostEnvName <- MC_hostEnvName
    requiresCM <- MC_requiresCM
    toplevel <- MC_toplevel
    recFqdn <- MC_recFqdn
    recKind <- MC_recKind
    recTarget <- MC_recTarget
    Targets <- MC_Targets
    Replies <- MC_Replies
    OptionLists <- MC_OptionLists
    ChunkSize = 2
    MaxConsider = 2
    NoObject = NoObject
    NoRequest = NoRequest
    NoAudit = NoAudit
SPECIFICATION Spec
INVARIANTS
    TypeOK
    BlastRadiusSent
    UnknownKindFailsFast
    AuditTrail
PROPERTY
    ImplementsChangeGate
