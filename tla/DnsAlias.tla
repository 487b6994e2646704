------------------------------ MODULE DnsAlias ------------------------------
(***************************************************************************)
(* DNS names and records as ChangeManagement.validate_fqdn sees them, and  *)
(* its inner function dig_to_real_target, which follows Alias and          *)
(* AddressAlias records breadth first to the name that carries a real      *)
(* record.                                                                 *)
(***************************************************************************)
EXTENDS FiniteSets, Sequences, SequencesExt

CONSTANTS
    Fqdns,          \* Fqdn rows
    DnsRecords,     \* DnsRecord rows (ARecord, Alias, AddressAlias, ...)
    recFqdn,        \* dns_record.fqdn
    recKind,        \* class of a DnsRecord
    recTarget,      \* target of an Alias / AddressAlias
    NoObject        \* None

ASSUME NoObject \notin Fqdns \cup DnsRecords

AliasKinds == {"Alias", "AddressAlias"}

(* db_fqdn.dns_records for every name of a level                           *)
RecordsOf(F) == {r \in DnsRecords : recFqdn[r] \in F}

(* Defect: the AddressAlias branch forgotten, so only Alias is followed.   *)
RealRecordsAliasOnly(recs) == {r \in recs : recKind[r] # "Alias"}

(* The records of a level that are not aliases: final_target = rec.fqdn.   *)
RealRecords(recs) == {r \in recs : recKind[r] \notin AliasKinds}

(* fqdns_to_test for the next level: the targets of the alias records.    *)
NextLevel(recs) == {recTarget[r] : r \in recs \ RealRecords(recs)}

(* Defect: final_target = rec instead of rec.fqdn.                         *)
FinalOfRecord(r) == r

(* final_target = rec.fqdn                                                 *)
FinalOf(r) == recFqdn[r]

(* The guard `rec in fqdns_tested`: fqdns_tested holds Fqdn rows, rec is a *)
(* DnsRecord row, and rows of two classes are never equal.                 *)
LoopSuspected(recs, tested) == \E r \in recs : r \in tested

(* dig_to_real_target, one while-iteration per recursion: the result is    *)
(* the set of names it may return, since the order in which a level is     *)
(* iterated (list(set(...)) and dns_records) decides which real record is  *)
(* seen last; NoObject stands for the "There might be a loop!!!" raise.    *)
(* Like the code, it does not terminate on an alias cycle.                 *)
RECURSIVE Dig(_, _, _)
Dig(toTest, tested, final) ==
    IF toTest = {} THEN {final}
    ELSE LET recs    == RecordsOf(toTest)
             testedN == tested \cup toTest
             reals   == RealRecords(recs)
             finals  == IF reals = {} THEN {final} ELSE {FinalOf(r) : r \in reals}
         IN  IF LoopSuspected(recs, testedN) THEN {NoObject}
             ELSE UNION {Dig(NextLevel(recs), testedN, f) : f \in finals}

dig_to_real_target(f) == Dig({f}, {}, f)

-----------------------------------------------------------------------------
(* What the resolution should find, from reachability: the names an alias  *)
(* chain from f ends in that carry a real record (f itself if none does).  *)
AliasTargets(g) == {recTarget[r] : r \in {q \in RecordsOf({g}) : recKind[q] \in AliasKinds}}

(* The least set holding S and closed under alias edges.                   *)
RECURSIVE AliasClosure(_)
AliasClosure(S) ==
    LET S2 == S \cup UNION {AliasTargets(g) : g \in S}
    IN  IF S2 = S THEN S ELSE AliasClosure(S2)

RealTargets(f) ==
    LET reals == {g \in AliasClosure({f}) :
                     \E q \in RecordsOf({g}) : recKind[q] \notin AliasKinds}
    IN  IF reals = {} THEN {f} ELSE reals
=============================================================================
