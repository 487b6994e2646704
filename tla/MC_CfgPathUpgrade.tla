------------------------- MODULE MC_CfgPathUpgrade -------------------------
(***************************************************************************)
(* Two workers and four hosts, one per branch of the worker's body:        *)
(*   hA  aquilon with an os and a service build item, no OS yet;           *)
(*   hV  vmhost with an os build item (the OS becomes esx regardless);     *)
(*   hU  aurora without build items and without an OS (generic OS);        *)
(*   hK  aquilon with an os item whose cfg_path os_cache lacks, which      *)
(*       kills the worker with a KeyError.                                 *)
(* commit_count is 2, so a worker holds uncommitted hosts between commits. *)
(***************************************************************************)
EXTENDS CfgPathUpgrade, TLC

MC_Hosts == {"hA", "hV", "hU", "hK"}
MC_Workers == {"w1", "w2"}
MC_HostOrder == <<"hA", "hV", "hU", "hK">>
MC_WorkerOrder == <<"w1", "w2">>
MC_arch == "hA" :> "aquilon" @@ "hV" :> "vmhost" @@ "hU" :> "aurora" @@ "hK" :> "aquilon"
MC_items == "hA" :> {"os", "service"} @@ "hV" :> {"os"} @@ "hU" :> {} @@ "hK" :> {"os"}
MC_osInit == "hA" :> "null" @@ "hV" :> "old" @@ "hU" :> "null" @@ "hK" :> "old"
MC_cached == {"hA", "hV", "hU"}

\* Without the KeyError: every cfg_path is in the caches.
MC_all_cached == MC_Hosts
=============================================================================
