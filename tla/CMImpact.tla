------------------------------ MODULE CMImpact ------------------------------
(***************************************************************************)
(* The impact calculation of aquilon's change management                   *)
(* (lib/aquilon/worker/dbwrappers/change_management.py): the strategy      *)
(* table ChangeManagement.handlers, one operator per validate_* strategy,  *)
(* and the dispatch done by consider / _call_handler_method.               *)
(*                                                                         *)
(* The CMDB is a read-only world given as constants: which hosts and       *)
(* clusters exist, their environment and lifecycle status, and the         *)
(* relations the strategies follow.  A strategy returns the set of hosts   *)
(* and clusters whose (environment, status) pair it appends to             *)
(* dict_of_impacted_envs, whether it sets enforce_validation, and whether  *)
(* it raised.  Every query result the code iterates over is abstracted to  *)
(* the set of rows it returns; the strategies are deterministic except     *)
(* validate_fqdn, whose result depends on set iteration order, so every    *)
(* strategy returns a set of possible outcomes.                            *)
(***************************************************************************)
EXTENDS DnsAlias, Integers, Graphs

CONSTANTS
    Hosts,          \* Host rows
    Clusters,       \* Cluster rows (all Cluster subclasses)
    HwEntities,     \* Machine / NetworkDevice rows
    Locations,      \* Location rows of any subtype
    OtherObjects,   \* every other object a command may pass to consider
    Envs,           \* host environment names
    Statuses,       \* lifecycle status names
    kindOf,         \* obj.__class__.__name__ of every object
    envOf,          \* personality_stage.personality.host_environment.name
    statusOf,       \* status.name
    clusterHosts,   \* cluster.hosts
    members,        \* cluster.members (empty unless the cluster has members)
    hostHw,         \* host.hardware_entity
    hwLocation,     \* hardware_entity.location
    clusterLocation,\* cluster.location_constraint
    children,       \* Location.children: ids of the locations below
    bound,          \* rows a query-based strategy finds for an object
    slots,          \* hardware in a chassis' slots or on a console's ports
    hostEnvName,    \* name of a HostEnvironment, or of a holder's fixed one
    requiresCM,     \* Domain.requires_change_manager
    toplevel,       \* resource_holder.toplevel_holder_object
    ChunkSize       \* 1000 in the code (ORA-01795)

Walked == Hosts \cup Clusters
Objects == Walked \cup HwEntities \cup Locations \cup Fqdns \cup OtherObjects

ASSUME /\ ChunkSize \in Nat \ {0}
       /\ NoObject \notin Objects

-----------------------------------------------------------------------------
(* An outcome of a strategy: what it appends, whether it forces            *)
(* enforce_validation, and which exception (if any) it raised.             *)
Errors == {"none", "internal", "attribute", "loop"}
Outcome == [hit : SUBSET Walked, enforce : BOOLEAN, err : Errors]

Hit(S) == [hit |-> S, enforce |-> FALSE, err |-> "none"]
Enforce(b) == [hit |-> {}, enforce |-> b, err |-> "none"]
Raise(e) == [hit |-> {}, enforce |-> FALSE, err |-> e]

(* Two strategies run one after the other (a list passed to consider).     *)
Merge(a, b) == [hit     |-> a.hit \cup b.hit,
                enforce |-> a.enforce \/ b.enforce,
                err     |-> IF a.err # "none" THEN a.err ELSE b.err]

-----------------------------------------------------------------------------
(* The strategies.                                                         *)

validate_host(h) == {h}

RECURSIVE validate_cluster(_)
validate_cluster(c) ==
    {c} \cup UNION {validate_host(h) : h \in clusterHosts[c]}
        \cup UNION {validate_cluster(m) : m \in members[c]}

(* Walk every row a query returned, a cluster with its hosts and members. *)
WalkRows(S) ==
    UNION {IF x \in Clusters THEN validate_cluster(x) ELSE validate_host(x) : x \in S}

HostOf(hw) == {h \in Hosts : hostHw[h] = hw}

validate_hardware_entity(S) == UNION {HostOf(hw) : hw \in S}

(* range(0, len(loc_ids), ChunkSize) and the slice loc_ids[i:i + ChunkSize] *)
ChunkStarts(ids) == {i \in 0..(Len(ids) - 1) : i % ChunkSize = 0}
(* Defect: the slice loc_ids[i:i + ChunkSize - 1] drops an id per chunk.   *)
ChunkShort(ids, i) == SubSeq(ids, i + 1, IF i + ChunkSize - 1 < Len(ids) THEN i + ChunkSize - 1 ELSE Len(ids))
Chunk(ids, i) == SubSeq(ids, i + 1, IF i + ChunkSize < Len(ids) THEN i + ChunkSize ELSE Len(ids))

LocationHits(ids) ==
    {h \in Hosts : hwLocation[hostHw[h]] \in ToSet(ids)}
        \cup UNION {validate_cluster(c) : c \in {x \in Clusters : clusterLocation[x] \in ToSet(ids)}}

validate_location(l) ==
    LET loc_ids == SetToSeq(children[l]) \o <<l>>
    IN  UNION {LocationHits(Chunk(loc_ids, i)) : i \in ChunkStarts(loc_ids)}

validate_prod_network(S) == WalkRows(UNION {bound[n] : n \in S})

validate_fqdn(f) ==
    {IF t = NoObject THEN Raise("loop") ELSE Hit(WalkRows(bound[t])) : t \in dig_to_real_target(f)}

validate_chassis(o) == UNION {HostOf(hw) : hw \in slots[o]}

validate_console_server(o) == UNION {HostOf(hw) : hw \in slots[o]}

validate_host_environment(name) == Enforce(name = "prod")

validate_resource_holder(o) ==
    IF hostEnvName[o] # NoObject THEN validate_host_environment(hostEnvName[o])
    ELSE IF toplevel[o] \in Clusters THEN Hit(validate_cluster(toplevel[o]))
    ELSE IF toplevel[o] \in Hosts THEN Hit(validate_host(toplevel[o]))
    ELSE Hit({})

validate_branch(o) == Enforce(requiresCM[o])

validate_prod_personality(o) == WalkRows(bound[o])
validate_prod_personality_stage(o) == WalkRows(bound[o])
validate_prod_archetype(o) == WalkRows(bound[o])
validate_prod_os(o) == WalkRows(bound[o])
validate_prod_service_instance(o) == WalkRows(bound[o])
validate_prod_feature(o) == WalkRows(bound[o])

-----------------------------------------------------------------------------
(* ChangeManagement.handlers: class name -> strategy.                      *)
ClusterKinds == {"Cluster", "ComputeCluster", "StorageCluster", "EsxCluster",
                 "HostClusterMember", "MetaCluster"}
EnvKinds == {"Development", "UAT", "QA", "Legacy", "Production", "Infra"}
LocationKinds == {"Rack", "Organization", "Hub", "Continent", "Country",
                  "Campus", "City", "Building", "Room", "Bunker", "Desk"}
HolderKinds == {"BundleResource", "ClusterResource", "HostResource",
                "ArchetypeResource", "GrnResource"}
DefaultKinds == {"DnsDomain", "DnsEnvironment", "NetworkCompartment",
                 "NetworkEnvironment", "NetGroupWhiteList", "Grn", "User",
                 "Realm", "Role"}
FeatureKinds == {"InterfaceFeature", "HardwareFeature", "HostFeature"}

handlers ==
    [k \in ClusterKinds |-> "validate_cluster"]
    @@ [k \in EnvKinds |-> "validate_host_environment"]
    @@ [k \in LocationKinds |-> "validate_location"]
    @@ [k \in HolderKinds |-> "validate_resource_holder"]
    @@ [k \in DefaultKinds |-> "validate_default"]
    @@ [k \in FeatureKinds |-> "validate_prod_feature"]
    @@ ("Personality" :> "validate_prod_personality"
        @@ "PersonalityStage" :> "validate_prod_personality_stage"
        @@ "ServiceInstance" :> "validate_prod_service_instance"
        @@ "OperatingSystem" :> "validate_prod_os"
        @@ "Archetype" :> "validate_prod_archetype"
        @@ "Domain" :> "validate_branch"
        @@ "Host" :> "validate_host"
        @@ "Machine" :> "validate_hardware_entity"
        @@ "NetworkDevice" :> "validate_hardware_entity"
        @@ "Network" :> "validate_prod_network"
        @@ "Chassis" :> "validate_chassis"
        @@ "ConsoleServer" :> "validate_console_server"
        @@ "Fqdn" :> "validate_fqdn")

(* The strategies that work when handed a Query instead of one object;     *)
(* every other one reads an attribute a Query does not have.               *)
QueryStrategies == {"validate_hardware_entity", "validate_prod_network", "validate_default"}

(* Defect: a row that is not a Cluster walked as an empty cluster.        *)
validate_cluster_targetLenient(o) ==
    IF o \in Clusters THEN {Hit(validate_cluster(o))} ELSE {Hit({})}

(* validate_cluster(self, cluster) first reads                             *)
(* cluster.personality_stage.personality.host_environment: a               *)
(* HostClusterMember link row, which handlers also maps here, has no such  *)
(* attribute and raises AttributeError.                                    *)
validate_cluster_target(o) ==
    IF o \in Clusters THEN {Hit(validate_cluster(o))} ELSE {Raise("attribute")}

(* env_calculate_method(self, obj) for a single object.                    *)
CallOne(m, o) ==
    CASE m = "validate_cluster"                -> validate_cluster_target(o)
      [] m = "validate_host"                   -> {Hit(validate_host(o))}
      [] m = "validate_hardware_entity"        -> {Hit(validate_hardware_entity({o}))}
      [] m = "validate_location"               -> {Hit(validate_location(o))}
      [] m = "validate_prod_network"           -> {Hit(validate_prod_network({o}))}
      [] m = "validate_fqdn"                   -> validate_fqdn(o)
      [] m = "validate_chassis"                -> {Hit(validate_chassis(o))}
      [] m = "validate_console_server"         -> {Hit(validate_console_server(o))}
      [] m = "validate_resource_holder"        -> {validate_resource_holder(o)}
      [] m = "validate_host_environment"       -> {validate_host_environment(hostEnvName[o])}
      [] m = "validate_branch"                 -> {validate_branch(o)}
      [] m = "validate_prod_personality"       -> {Hit(validate_prod_personality(o))}
      [] m = "validate_prod_personality_stage" -> {Hit(validate_prod_personality_stage(o))}
      [] m = "validate_prod_archetype"         -> {Hit(validate_prod_archetype(o))}
      [] m = "validate_prod_os"                -> {Hit(validate_prod_os(o))}
      [] m = "validate_prod_service_instance"  -> {Hit(validate_prod_service_instance(o))}
      [] m = "validate_prod_feature"           -> {Hit(validate_prod_feature(o))}
      [] m = "validate_default"                -> {Hit({})}

(* env_calculate_method(self, queryset) for a Query.                       *)
CallQuery(m, S) ==
    CASE m = "validate_hardware_entity" -> {Hit(validate_hardware_entity(S))}
      [] m = "validate_prod_network"    -> {Hit(validate_prod_network(S))}
      [] m = "validate_default"         -> {Hit({})}
      [] m \notin QueryStrategies       -> {Raise("attribute")}

(* Defect: handlers.get(obj.__class__, validate_default), an unknown class *)
(* silently skipped.                                                       *)
CallHandlerOrSkip(o, S, isQuery) ==
    IF kindOf[o] \notin DOMAIN handlers THEN {Hit({})}
    ELSE IF isQuery THEN CallQuery(handlers[kindOf[o]], S)
    ELSE CallOne(handlers[kindOf[o]], o)

(* _call_handler_method(obj, queryset)                                     *)
_call_handler_method(o, S, isQuery) ==
    IF kindOf[o] \notin DOMAIN handlers THEN {Raise("internal")}
    ELSE IF isQuery THEN CallQuery(handlers[kindOf[o]], S)
    ELSE CallOne(handlers[kindOf[o]], o)

(* The for-loop over a materialised list, one dispatch per element.        *)
RECURSIVE ListOutcomes(_)
ListOutcomes(S) ==
    IF S = {} THEN {Hit({})}
    ELSE LET o == CHOOSE x \in S : TRUE
         IN  {Merge(a, b) : a \in _call_handler_method(o, {}, FALSE),
                            b \in ListOutcomes(S \ {o})}

(* A target handed to consider: None, a single object, a list or a Query. *)
Shapes == {"none", "one", "list", "query"}

(* The classification done by consider for a target that is not empty:    *)
(* a Query is dispatched once on its first() row, for the whole query.     *)
Dispatch(t) ==
    CASE t.shape = "query" -> UNION {_call_handler_method(o, t.objs, TRUE) : o \in t.objs}
      [] t.shape = "list"  -> ListOutcomes(t.objs)
      [] t.shape = "one"   -> _call_handler_method(CHOOSE o \in t.objs : TRUE, {}, FALSE)

(* `not target_obj` and `target_obj.count() == 0`                          *)
NothingToValidate(t) == t.shape = "none" \/ t.objs = {}
=============================================================================
