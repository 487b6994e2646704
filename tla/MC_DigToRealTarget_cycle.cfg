\* dig_to_real_target over a zone where fX and fY alias each other.
CONSTANTS
    Fqdns <- Cyclic_Fqdns
    DnsRecords <- Cyclic_DnsRecords
    recFqdn <- Cyclic_recFqdn
    recKind <- Cyclic_recKind
    recTarget <- Cyclic_recTarget
    NoObject = NoObject
SPECIFICATION Spec
CHECK_DEADLOCK FALSE
PROPERTIES
    Terminates
