----------------------------- MODULE MC_UpdateDisk -----------------------------
(***************************************************************************)
(* A machine with a physical and a virtual disk and three device names:   *)
(* a rename can clash with the other disk or take the free name, and a     *)
(* virtual-only option can hit the physical disk.  Two broker threads, in *)
(* sequence or overlapping.                                                *)
(***************************************************************************)
EXTENDS UpdateDisk

Overlap_Disks == {"dP", "dV1"}
Overlap_Virtual == {"dV1"}
Overlap_Names == {"sda", "sdb", "sdc"}
=============================================================================
