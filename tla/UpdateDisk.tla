------------------------------ MODULE UpdateDisk ------------------------------
(***************************************************************************)
(* `aq update disk` (commands/update_disk.py) on the disks of one machine, *)
(* run by broker threads that may overlap.  Each command is a database     *)
(* transaction: render() asks change management about the machine, looks   *)
(* the disk up by device name, checks its arguments and changes the disk   *)
(* (and, for --boot, clears the bootable flag of every other disk it sees  *)
(* set); the broker commits after render() returns, or rolls everything   *)
(* back when render() raised.  A transaction reads the committed rows (the *)
(* default read-committed isolation) and takes no lock on the machine.    *)
(***************************************************************************)
EXTENDS Integers, FiniteSets

CONSTANTS
    Disks,          \* the Disk rows of the machine
    Virtual,        \* the VirtualDisk rows among them
    Names,          \* device names
    Cmds,           \* broker threads running update_disk
    None            \* an argument not given, a column not written

ASSUME Virtual \subseteq Disks /\ None \notin Names

VARIABLES
    devName,        \* committed disk.device_name
    bootable,       \* committed disk.bootable
    pc,             \* a command: "idle" or "rendered" (flushed, not committed)
    newName,        \* the device_name a rendered command writes, or None
    newBoot,        \* the bootable a rendered command writes, or None
    result,         \* how each command's last run ended ("none": running)
    overtaken       \* another command committed since this one's render()

vars == <<devName, bootable, pc, newName, newBoot, result, overtaken>>

(* How a command ended; which exception rolled it back is not recorded.    *)
Results == {"none", "committed", "rolledback", "integrity"}

(* The options of one call.  `virtualOnly` stands for --vsan_policy_key,   *)
(* --snapshot, --iops_limit, --share or --filesystem, which all require a  *)
(* VirtualDisk; `backend` is whether --share/--filesystem names an         *)
(* existing resource.  The other columns (comments, size, wwn, ...) have   *)
(* no check and no property reads them.                                    *)
Args == [disk : Names, rename : Names \cup {None}, boot : {None, TRUE, FALSE},
         virtualOnly : BOOLEAN, backend : {"none", "found", "missing"}]

NoWrites == [d \in Disks |-> None]

Init ==
    /\ devName \in [Disks -> Names]
    /\ \A d, e \in Disks : d # e => devName[d] # devName[e]
    /\ bootable \in [Disks -> BOOLEAN]
    /\ Cardinality({d \in Disks : bootable[d]}) <= 1
    /\ pc = [c \in Cmds |-> "idle"]
    /\ newName = [c \in Cmds |-> NoWrites]
    /\ newBoot = [c \in Cmds |-> NoWrites]
    /\ result = [c \in Cmds |-> "none"]
    /\ overtaken = [c \in Cmds |-> FALSE]

-----------------------------------------------------------------------------
(* Disk.get_unique(device_name=..., machine=dbmachine) on committed rows.  *)
Named(n) == {d \in Disks : devName[d] = n}

(* Defect: --rename_to not checked against the other disks.              *)
FailureNoPreclude(a, approved) ==
    CASE ~approved -> "denied"
      [] Named(a.disk) = {} -> "notfound"
      [] (a.virtualOnly \/ a.backend # "none") /\ Named(a.disk) \cap Virtual = {} -> "argument"
      [] a.backend = "missing" -> "notfound"
      [] OTHER -> "none"

(* The checks of render() in their order; the first that fails raises.     *)
(* get_unique(..., preclude=True) also finds the disk itself, so renaming  *)
(* a disk to its own name is refused.                                      *)
Failure(a, approved) ==
    CASE ~approved -> "denied"
      [] Named(a.disk) = {} -> "notfound"
      [] a.rename # None /\ Named(a.rename) # {} -> "exists"
      [] (a.virtualOnly \/ a.backend # "none") /\ Named(a.disk) \cap Virtual = {} -> "argument"
      [] a.backend = "missing" -> "notfound"
      [] OTHER -> "none"

(* Defect: the other disks' flags left alone.                              *)
BootWritesNoClear(d, boot) ==
    [e \in Disks |-> IF e = d THEN boot ELSE None]

(* dbdisk.bootable = boot, then for every other disk of dbmachine.disks:   *)
(* `if boot and disk.bootable: disk.bootable = False`.                     *)
BootWrites(d, boot) ==
    [e \in Disks |-> CASE e = d -> boot
                       [] boot /\ bootable[e] -> FALSE
                       [] OTHER -> None]

(* CommandUpdateDisk.render raising: the broker rolls the session back.   *)
RenderFails(c, a, approved) ==
    /\ pc[c] = "idle"
    /\ Failure(a, approved) # "none"
    /\ result' = [result EXCEPT ![c] = "rolledback"]
    /\ UNCHANGED <<devName, bootable, pc, newName, newBoot, overtaken>>

(* CommandUpdateDisk.render up to session.flush(); cm.validate() answered  *)
(* `approved`.                                                             *)
Render(c, a, approved) ==
    /\ pc[c] = "idle"
    /\ Failure(a, approved) = "none"
    /\ \E d \in Named(a.disk) :
          /\ newName' = [newName EXCEPT ![c] =
                            [e \in Disks |-> IF e = d THEN a.rename ELSE None]]
          /\ newBoot' = [newBoot EXCEPT ![c] =
                            IF a.boot = None THEN NoWrites ELSE BootWrites(d, a.boot)]
    /\ pc' = [pc EXCEPT ![c] = "rendered"]
    /\ overtaken' = [overtaken EXCEPT ![c] = FALSE]
    /\ result' = [result EXCEPT ![c] = "none"]
    /\ UNCHANGED <<devName, bootable>>

(* The committed columns after the flushed writes.                         *)
Written(old, new) == [d \in Disks |-> IF new[d] = None THEN old[d] ELSE new[d]]

Clashes(names) == \E d, e \in Disks : d # e /\ names[d] = names[e]

(* Defect: the thread's session keeps its flushed objects after the commit.*)
DoneKeepsWrites(c) ==
    /\ pc' = [pc EXCEPT ![c] = "idle"]
    /\ UNCHANGED <<newName, newBoot>>

(* The session is closed: the thread is free for its next command.        *)
Done(c) ==
    /\ pc' = [pc EXCEPT ![c] = "idle"]
    /\ newName' = [newName EXCEPT ![c] = NoWrites]
    /\ newBoot' = [newBoot EXCEPT ![c] = NoWrites]

(* The broker commits the session.                                        *)
Commit(c) ==
    /\ pc[c] = "rendered"
    /\ ~Clashes(Written(devName, newName[c]))
    /\ devName' = Written(devName, newName[c])
    /\ bootable' = Written(bootable, newBoot[c])
    /\ result' = [result EXCEPT ![c] = "committed"]
    /\ overtaken' = [d \in Cmds |-> overtaken[d] \/ (d # c /\ pc[d] = "rendered")]
    /\ Done(c)

(* The unique key on (machine, device_name) refuses a commit that would    *)
(* give two disks one name: IntegrityError, the session is rolled back.    *)
CommitRefused(c) ==
    /\ pc[c] = "rendered"
    /\ Clashes(Written(devName, newName[c]))
    /\ result' = [result EXCEPT ![c] = "integrity"]
    /\ Done(c)
    /\ UNCHANGED <<devName, bootable, overtaken>>

Next ==
    \E c \in Cmds :
        \/ \E a \in Args, approved \in BOOLEAN :
              RenderFails(c, a, approved) \/ Render(c, a, approved)
        \/ Commit(c)
        \/ CommitRefused(c)

Spec == Init /\ [][Next]_vars

-----------------------------------------------------------------------------
(* Properties.                                                             *)

TypeOK ==
    /\ devName \in [Disks -> Names]
    /\ bootable \in [Disks -> BOOLEAN]
    /\ pc \in [Cmds -> {"idle", "rendered"}]
    /\ newName \in [Cmds -> [Disks -> Names \cup {None}]]
    /\ newBoot \in [Cmds -> [Disks -> BOOLEAN \cup {None}]]
    /\ result \in [Cmds -> Results]
    /\ overtaken \in [Cmds -> BOOLEAN]
    /\ \A c \in Cmds : pc[c] = "idle" => newName[c] = NoWrites /\ newBoot[c] = NoWrites

(* update_disk's comment: "There should be just one boot disk".  Whatever  *)
(* sequence of update_disk commands runs, a machine never has two disks    *)
(* marked bootable: setting --boot on one clears the flag of every other.  *)
OneBootDisk == Cardinality({d \in Disks : bootable[d]}) <= 1

(* The --boot loop keeps that rule for commands that do not overlap: a    *)
(* step that leaves the machine with two boot disks is the commit of a     *)
(* command that another command's commit overtook after its render().      *)
BootRuleBrokenOnlyByRace ==
    [][OneBootDisk /\ ~OneBootDisk' =>
         \E c \in Cmds : pc[c] = "rendered" /\ overtaken[c] /\ result'[c] = "committed"]_vars

(* The preclude check of --rename_to keeps device names unique on its own  *)
(* when nothing overlaps: the unique key refuses a command's commit only   *)
(* when another command committed between its render() and its commit (a  *)
(* rename raced by another thread), never for a clash with a name that was *)
(* already committed when it checked.                                      *)
RenameCheckedEarly == \A c \in Cmds : result[c] = "integrity" => overtaken[c]
=============================================================================
