------------------------- MODULE MC_ChangeManagement -------------------------
(***************************************************************************)
(* A small CMDB for ChangeManagement: the scenario of the specification    *)
(* (cluster c1 prod/ready with hosts h1 prod/ready and h2 dev/build) inside *)
(* metacluster m1, a location tree deep enough for two id chunks of size   *)
(* 2, an alias chain fA -> fB -> fC, and one object of every other kind a  *)
(* strategy handles. h4 runs on mC, racked at the building b1 itself.      *)
(***************************************************************************)
EXTENDS ChangeManagement

MC_Hosts == {"h1", "h2", "h3", "h4"}
MC_Clusters == {"c1", "m1"}
MC_HwEntities == {"mA", "mB", "mC", "nD"}
MC_Locations == {"b1", "r1", "r2", "k1"}
MC_Fqdns == {"fA", "fB", "fC"}
MC_DnsRecords == {"rA", "rB", "rC"}
MC_OtherObjects == {"net1", "pers1", "os1", "feat1", "envProd", "envQa", "dom1",
                    "dom2", "hr1", "gr1", "ar1", "ch1", "cs1", "u1", "sa1", "hcm1"}
MC_Envs == {"prod", "dev"}
MC_Statuses == {"ready", "build"}

MC_kindOf ==
    [o \in MC_Hosts |-> "Host"]
    @@ ("c1" :> "EsxCluster" @@ "m1" :> "MetaCluster"
        @@ "mA" :> "Machine" @@ "mB" :> "Machine" @@ "mC" :> "Machine"
        @@ "nD" :> "NetworkDevice"
        @@ "b1" :> "Building" @@ "r1" :> "Room" @@ "r2" :> "Room" @@ "k1" :> "Rack"
        @@ "fA" :> "Fqdn" @@ "fB" :> "Fqdn" @@ "fC" :> "Fqdn"
        @@ "net1" :> "Network" @@ "pers1" :> "Personality"
        @@ "os1" :> "OperatingSystem" @@ "feat1" :> "HostFeature"
        @@ "envProd" :> "Production" @@ "envQa" :> "QA"
        @@ "dom1" :> "Domain" @@ "dom2" :> "Domain"
        @@ "hr1" :> "HostResource" @@ "gr1" :> "GrnResource"
        @@ "ar1" :> "ArchetypeResource"
        @@ "ch1" :> "Chassis" @@ "cs1" :> "ConsoleServer"
        @@ "u1" :> "User" @@ "sa1" :> "ServiceAddress"
        @@ "hcm1" :> "HostClusterMember")

MC_envOf == "h1" :> "prod" @@ "h2" :> "dev" @@ "h3" :> "prod" @@ "h4" :> "dev"
            @@ "c1" :> "prod" @@ "m1" :> "dev"
MC_statusOf == "h1" :> "ready" @@ "h2" :> "build" @@ "h3" :> "build" @@ "h4" :> "ready"
               @@ "c1" :> "ready" @@ "m1" :> "build"
MC_clusterHosts == "c1" :> {"h1", "h2"} @@ "m1" :> {}
MC_members == "c1" :> {} @@ "m1" :> {"c1"}
MC_hostHw == "h1" :> "mA" @@ "h2" :> "mB" @@ "h3" :> "nD" @@ "h4" :> "mC"
MC_hwLocation == "mA" :> "k1" @@ "mB" :> "r2" @@ "mC" :> "b1" @@ "nD" :> "r1"
MC_clusterLocation == "c1" :> "k1" @@ "m1" :> "r2"
MC_children == "b1" :> {"r1", "r2", "k1"} @@ "r1" :> {"k1"} @@ "r2" :> {} @@ "k1" :> {}

MC_Objects == MC_Hosts \cup MC_Clusters \cup MC_HwEntities \cup MC_Locations
              \cup MC_Fqdns \cup MC_OtherObjects

(* f @@ g keeps f where both are defined: the defaults come last.          *)
MC_bound ==
    ("fC" :> {"h3"} @@ "net1" :> {"h3", "c1"} @@ "pers1" :> {"m1"}
     @@ "os1" :> {"h2"} @@ "feat1" :> {"h1", "c1"})
    @@ [o \in MC_Objects |-> {}]
MC_slots == ("ch1" :> {"mA", "mC"} @@ "cs1" :> {"mB"}) @@ [o \in MC_Objects |-> {}]
MC_hostEnvName ==
    ("envProd" :> "prod" @@ "envQa" :> "qa" @@ "gr1" :> "prod")
    @@ [o \in MC_Objects |-> NoObject]
MC_requiresCM == ("dom1" :> TRUE) @@ [o \in MC_Objects |-> FALSE]
MC_toplevel == ("hr1" :> "h3" @@ "ar1" :> "archetype1") @@ [o \in MC_Objects |-> NoObject]

MC_recFqdn == "rA" :> "fA" @@ "rB" :> "fB" @@ "rC" :> "fC"
MC_recKind == "rA" :> "Alias" @@ "rB" :> "AddressAlias" @@ "rC" :> "ARecord"
MC_recTarget == "rA" :> "fB" @@ "rB" :> "fC" @@ "rC" :> NoObject

One(o) == [shape |-> "one", objs |-> {o}]

MC_Targets ==
    {One(o) : o \in MC_Objects \ {"r1", "r2", "k1", "fB", "fC", "h3", "h4", "mB"}}
    \cup {[shape |-> "list", objs |-> {"h2", "envProd"}],
          [shape |-> "list", objs |-> {"u1", "sa1"}],
          [shape |-> "query", objs |-> {"mA", "mC"}],
          [shape |-> "query", objs |-> {"net1"}],
          [shape |-> "none", objs |-> {}],
          [shape |-> "list", objs |-> {}],
          [shape |-> "query", objs |-> {}]}

MC_Replies == {"Approved", "Permitted", "Denied", "Pending", "Malformed", "ProcessError",
               "NotObject"}

(* extra_options unset, with the flag, and with both valued options.      *)
MC_OptionLists == {<<>>, <<"--disable_edm">>, <<"--edm-instance", "qa", "--mode", "warn">>}
=============================================================================
