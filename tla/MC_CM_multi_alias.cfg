\* An alias whose chain reaches two real names: the impact sent to aqd_checkedm.
CONSTANTS
    Hosts <- MC_Hosts
    Clusters <- MC_Clusters
    HwEntities <- MC_HwEntities
    Locations <- MC_Locations
    Fqdns <- Multi_Fqdns
    DnsRecords <- Multi_DnsRecords
    OtherObjects <- MC_OtherObjects
    Envs <- MC_Envs
    Statuses <- MC_Statuses
    kindOf <- Multi_kindOf
    envOf <- MC_envOf
    statusOf <- MC_statusOf
    clusterHosts <- MC_clusterHosts
    members <- MC_members
    hostHw <- MC_hostHw
    hwLocation <- MC_hwLocation
    clusterLocation <- MC_clusterLocation
    children <- MC_children
    bound <- Multi_bound
    slots <- Multi_slots
    hostEnvName <- Multi_hostEnvName
    requiresCM <- Multi_requiresCM
    toplevel <- Multi_toplevel
    recFqdn <- Multi_recFqdn
    recKind <- Multi_recKind
    recTarget <- Multi_recTarget
    Targets <- Multi_Targets
    Replies <- MC_Replies
    OptionLists <- MC_OptionLists
    ChunkSize = 2
    MaxConsider = 2
    NoObject = NoObject
    NoRequest = NoRequest
    NoAudit = NoAudit
SPECIFICATION Spec
INVARIANT
    BlastRadiusSent
