------------------------- MODULE MC_AddServiceAddress -------------------------
(***************************************************************************)
(* A host's and a cluster's resource holder, the host in a Bunker; one    *)
(* service address name besides the reserved "hostname"; prefix numbers   *)
(* 1..3, so that two --prefix commands can both find a free number; given  *)
(* names g1 and 2, the second spelling the prefix name numbered 2.  Two    *)
(* broker threads.                                                         *)
(***************************************************************************)
EXTENDS AddServiceAddress

MC_Holders == {"hostH", "clusterC"}
MC_HostHolders == {"hostH"}
MC_Bunkered == {"hostH"}
MC_Names == {"n1", "hostname"}
=============================================================================
