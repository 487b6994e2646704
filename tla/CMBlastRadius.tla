---------------------------- MODULE CMBlastRadius ----------------------------
(***************************************************************************)
(* The blast radius as the specification (section 4.2) states it, per      *)
(* target kind, from reachability rather than from the code's recursion,   *)
(* chunking and alias loop: the reference the change-management model is   *)
(* checked against.                                                        *)
(***************************************************************************)
EXTENDS CMImpact

(* Cluster nesting, cluster -> member clusters.                           *)
MemberGraph == [node |-> Clusters,
                edge |-> {p \in Clusters \X Clusters : p[2] \in members[p[1]]}]

(* A cluster, every cluster nested below it, and all their hosts.          *)
ClusterClosure(c) ==
    LET cs == {c} \cup Descendants(MemberGraph, c)
    IN  cs \cup UNION {clusterHosts[x] : x \in cs}

Rows(S) == UNION {IF x \in Clusters THEN ClusterClosure(x) ELSE {x} : x \in S}

HostsOn(H) == {h \in Hosts : hostHw[h] \in H}

(* The cluster row of specification 4.1: Cluster and its subtypes.       *)
SpecClusterKinds == {"Cluster", "ComputeCluster", "StorageCluster", "EsxCluster", "MetaCluster"}

BlastRadius(o) ==
    LET k == kindOf[o] IN
    CASE k \in SpecClusterKinds -> ClusterClosure(o)
      [] k = "Host" -> {o}
      [] k \in {"Machine", "NetworkDevice"} -> HostsOn({o})
      [] k \in LocationKinds ->
            LET below == {o} \cup children[o]
            IN  HostsOn({hw \in HwEntities : hwLocation[hw] \in below})
                  \cup Rows({c \in Clusters : clusterLocation[c] \in below})
      [] k = "Fqdn" -> UNION {Rows(bound[g]) : g \in RealTargets(o)}
      [] k \in {"Chassis", "ConsoleServer"} -> HostsOn(slots[o])
      [] k \in HolderKinds ->
            IF hostEnvName[o] # NoObject \/ toplevel[o] \notin Walked THEN {}
            ELSE Rows({toplevel[o]})
      [] k \in {"Network", "Personality", "PersonalityStage", "ServiceInstance",
                "OperatingSystem", "Archetype"} \cup FeatureKinds -> Rows(bound[o])
      [] OTHER -> {}

(* Objects whose change always requires strict review.                     *)
ForcesEnforce(o) ==
    \/ kindOf[o] \in EnvKinds \cup HolderKinds /\ hostEnvName[o] = "prod"
    \/ kindOf[o] = "Domain" /\ requiresCM[o]

(* The (environment, status) pairs of a set of hosts and clusters.        *)
ImpactOf(S) == [e \in Envs |-> {statusOf[x] : x \in {y \in S : envOf[y] = e}}]

(* For a set C of consider() calls [target, flag]: what the oracle must    *)
(* be asked.                                                               *)
ExpectedHits(C) == UNION {UNION {BlastRadius(o) : o \in c.target.objs} : c \in C}
ExpectedImpact(C) == ImpactOf(ExpectedHits(C))
ExpectedEnforce(C) == \E c \in C : c.flag \/ \E o \in c.target.objs : ForcesEnforce(o)
ExpectedRequest(C) == [impacted |-> ExpectedImpact(C), enforce |-> ExpectedEnforce(C)]
=============================================================================
