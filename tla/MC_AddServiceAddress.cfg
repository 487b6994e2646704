\* Two broker threads running add_service_address on one DNS domain.
CONSTANTS
    Cmds = {c1, c2}
    Holders <- MC_Holders
    HostHolders <- MC_HostHolders
    Bunkered <- MC_Bunkered
    IpFromTypeAllowed = TRUE
    Names <- MC_Names
    Shortnames = {g1, 2}
    MaxNumber = 3
    NoCmd = NoCmd
    NoPending = NoPending
SPECIFICATION Spec
INVARIANTS
    TypeOK
    PrefixAllocationSerialized
    DsdbMatchesDatabase
