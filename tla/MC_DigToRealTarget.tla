------------------------- MODULE MC_DigToRealTarget -------------------------
(***************************************************************************)
(* Two DNS zones for dig_to_real_target.  The acyclic one has an alias     *)
(* chain ending in a name with two address aliases, a dangling alias and a *)
(* plain A record; the cyclic one has two aliases pointing at each other.  *)
(***************************************************************************)
EXTENDS DigToRealTarget, TLC

(* A chain ch1 -> ch2 -> ... -> ch10 of aliases ending in an A record.     *)
ChainLen == 10
Ch(i) == "ch" \o ToString(i)
ChainRec(i) == "rch" \o ToString(i)

(* fA -> fB -> {fC, fD -> fE}: real records at two depths; fF dangles;     *)
(* fH has two A records; fI -> {fH, fC} shares fC with fA's chain.          *)
Acyclic_Fqdns ==
    {"fA", "fB", "fC", "fD", "fE", "fF", "fG", "fH", "fI", "fJ", "fK"}
    \cup {Ch(i) : i \in 1..ChainLen}
Acyclic_Links ==
    "rA" :> <<"fA", "Alias", "fB">> @@ "rB1" :> <<"fB", "AddressAlias", "fC">>
    @@ "rB2" :> <<"fB", "AddressAlias", "fD">> @@ "rC" :> <<"fC", "ARecord", NoObject>>
    @@ "rD" :> <<"fD", "Alias", "fE">> @@ "rE" :> <<"fE", "ARecord", NoObject>>
    @@ "rF" :> <<"fF", "Alias", "fG">> @@ "rH1" :> <<"fH", "ARecord", NoObject>>
    @@ "rH2" :> <<"fH", "ARecord", NoObject>> @@ "rI1" :> <<"fI", "AddressAlias", "fH">>
    @@ "rI2" :> <<"fI", "AddressAlias", "fC">> @@ "rJ" :> <<"fJ", "Alias", "fI">>
    @@ "rK" :> <<"fK", "Alias", "fA">>
    @@ [r \in {ChainRec(i) : i \in 1..ChainLen} |->
          LET i == CHOOSE j \in 1..ChainLen : ChainRec(j) = r
          IN  IF i = ChainLen THEN <<Ch(i), "ARecord", NoObject>>
              ELSE <<Ch(i), "Alias", Ch(i + 1)>>]
Acyclic_DnsRecords == DOMAIN Acyclic_Links
Acyclic_recFqdn == [r \in Acyclic_DnsRecords |-> Acyclic_Links[r][1]]
Acyclic_recKind == [r \in Acyclic_DnsRecords |-> Acyclic_Links[r][2]]
Acyclic_recTarget == [r \in Acyclic_DnsRecords |-> Acyclic_Links[r][3]]

Cyclic_Fqdns == {"fX", "fY", "fZ"}
Cyclic_DnsRecords == {"rX", "rY", "rZ"}
Cyclic_recFqdn == "rX" :> "fX" @@ "rY" :> "fY" @@ "rZ" :> "fZ"
Cyclic_recKind == "rX" :> "Alias" @@ "rY" :> "Alias" @@ "rZ" :> "ARecord"
Cyclic_recTarget == "rX" :> "fY" @@ "rY" :> "fX" @@ "rZ" :> NoObject
=============================================================================
