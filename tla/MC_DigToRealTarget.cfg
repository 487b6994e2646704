\* dig_to_real_target over an acyclic zone: every start name.
CONSTANTS
    Fqdns <- Acyclic_Fqdns
    DnsRecords <- Acyclic_DnsRecords
    recFqdn <- Acyclic_recFqdn
    recKind <- Acyclic_recKind
    recTarget <- Acyclic_recTarget
    NoObject = NoObject
SPECIFICATION Spec
\* The function returns: its final state has no successor.
CHECK_DEADLOCK FALSE
INVARIANTS
    TypeOK
    ResolvesToRealTarget
PROPERTIES
    Terminates
