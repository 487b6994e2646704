--------------------- MODULE MC_ChangeManagementDefects ---------------------
(***************************************************************************)
(* Variations of the CMDB of MC_ChangeManagement in which the code and the *)
(* specification disagree:                                                 *)
(*  - fB carries two AddressAlias records, to fC (bound to h3, prod/build) *)
(*    and to fD (bound to h1, prod/ready);                                 *)
(*  - aqd_checkedm may print something that is not JSON;                   *)
(*  - a command hands consider() a Query of hosts;                         *)
(*  - dom2 is a Sandbox rather than a Domain;                              *)
(*  - extra_options ends with a valued option that has no value.           *)
(***************************************************************************)
EXTENDS MC_ChangeManagement

Multi_Fqdns == MC_Fqdns \cup {"fD"}
Multi_DnsRecords == MC_DnsRecords \cup {"rB2", "rD"}
Multi_kindOf == ("fD" :> "Fqdn") @@ MC_kindOf
Multi_bound == ("fD" :> {"h1"}) @@ MC_bound
Multi_slots == ("fD" :> {}) @@ MC_slots
Multi_hostEnvName == ("fD" :> NoObject) @@ MC_hostEnvName
Multi_requiresCM == ("fD" :> FALSE) @@ MC_requiresCM
Multi_toplevel == ("fD" :> NoObject) @@ MC_toplevel
Multi_recFqdn == ("rB2" :> "fB" @@ "rD" :> "fD") @@ MC_recFqdn
Multi_recKind == ("rB2" :> "AddressAlias" @@ "rD" :> "ARecord") @@ MC_recKind
Multi_recTarget == ("rB2" :> "fD" @@ "rD" :> NoObject) @@ MC_recTarget
Multi_Targets == {One("fA")}

Oracle_Targets == {One("h1")}
Oracle_Replies == {"Malformed", "ProcessError", "Approved"}

Query_Targets == {[shape |-> "query", objs |-> {"h1", "h2"}]}

Sandbox_kindOf == ("dom2" :> "Sandbox") @@ MC_kindOf
Sandbox_Targets == {One("dom2")}

Dispatch_Targets == Query_Targets \cup Sandbox_Targets

Trailing_OptionLists == {<<"--edm-instance", "qa", "--mode">>}
=============================================================================
