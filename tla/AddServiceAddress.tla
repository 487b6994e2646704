--------------------------- MODULE AddServiceAddress ---------------------------
(***************************************************************************)
(* `aq add service address` (commands/add_service_address.py) run by      *)
(* broker threads that may overlap.  Each command is a database           *)
(* transaction reading the committed rows.  render() checks its arguments, *)
(* asks change management about the resource holder, and picks the DNS    *)
(* name: a given one, or with --prefix the next free number after         *)
(* lock_row() on the DNS domain.  It then creates the address and the     *)
(* ServiceAddress, flushes, and sends the address to DSDB, whose           *)
(* commit_or_rollback() ends render().  The broker commits the session     *)
(* afterwards, or rolls it back when render() raised; either releases the  *)
(* row lock.  Every network is internal (the DSDB branch is taken).       *)
(* grab_address, search_next and DSDBRunner are not in this repository:   *)
(* their effect is modelled from how render() uses them.                  *)
(***************************************************************************)
EXTENDS Integers, FiniteSets

CONSTANTS
    Cmds,               \* broker threads
    Holders,            \* resource holders (of a host or a cluster)
    HostHolders,        \* those whose toplevel object is a Host
    Bunkered,           \* those whose hosts sit in a Bunker
    IpFromTypeAllowed,  \* the broker's [site] ipfromtype setting
    Names,              \* service address names, "hostname" among them
    Shortnames,         \* DNS names given with --shortname
    MaxNumber,          \* the largest number search_next may hand out
    NoCmd, NoPending

ASSUME /\ HostHolders \subseteq Holders /\ Bunkered \subseteq Holders
       /\ MaxNumber \in Nat /\ IpFromTypeAllowed \in BOOLEAN

(* The DNS names of the domain: the prefix followed by a number, or given  *)
(* with --shortname, which may spell a prefix name too.                   *)
Numbers == 1..MaxNumber
Fqdns == Numbers \cup Shortnames

VARIABLES
    records,    \* committed Fqdns with an address record
    services,   \* committed ServiceAddress rows: [holder, name, fqdn]
    dsdb,       \* the names DSDB holds
    lockOwner,  \* the transaction holding the DnsDomain row lock, or NoCmd
    pc,         \* a command: "idle", "checked", "chosen", "flushed", "rendered"
    pending,    \* what a running command has chosen and flushed
    result      \* how each command's last run ended ("none": running)

vars == <<records, services, dsdb, lockOwner, pc, pending, result>>

Results == {"none", "committed", "rolledback", "dsdbfailed", "fqdn_taken", "name_taken"}

(* --prefix given: search_next picks the name (no name of the domain is 0). *)
PrefixOpt == 0

(* The options of one call.  `address` is --prefix or a --shortname (the *)
(* --service_address form, which skips the DNS domain lookup, is not       *)
(* offered); `domain` is --dns_domain: not given, existing, or missing.    *)
(* --interfaces only checks names outside this repository.                *)
Args == [holder : Holders, name : Names, ipfromtype : BOOLEAN, shared : BOOLEAN,
         mapToPrimary : BOOLEAN, address : {PrefixOpt} \cup Shortnames,
         domain : {"none", "found", "missing"}]

(* What a running command has chosen; fqdn PrefixOpt is a --prefix name   *)
(* not chosen yet.                                                         *)
Pending == [holder : Holders, name : Names, prefix : BOOLEAN, fqdn : Fqdns \cup {PrefixOpt},
            newly : BOOLEAN, shared : BOOLEAN]

Init ==
    /\ records \in SUBSET Fqdns
    /\ services = {}
    /\ dsdb = records
    /\ lockOwner = NoCmd
    /\ pc = [c \in Cmds |-> "idle"]
    /\ pending = [c \in Cmds |-> NoPending]
    /\ result = [c \in Cmds |-> "none"]

-----------------------------------------------------------------------------
(* The checks of render() in their order; the first that fails raises.   *)
(* The --map_to_primary check comes after lock_row(), search_next and     *)
(* grab_address, none of which it depends on.                             *)
Failure(a, approved) ==
    CASE a.name = "hostname" -> "argument"
      [] ~approved -> "denied"
      [] \E s \in services : s.holder = a.holder /\ s.name = a.name -> "exists"
      [] a.ipfromtype /\ ~(IpFromTypeAllowed /\ a.holder \in Bunkered) -> "argument"
      [] a.shared /\ a.holder \notin HostHolders -> "argument"
      [] a.domain = "missing" -> "notfound"
      [] a.mapToPrimary /\ a.holder \notin HostHolders -> "maptoprimary"
      [] OTHER -> "none"

(* search_next(Fqdn.name, prefix, dns_domain) on the committed names: the *)
(* number after the largest one in use.                                    *)
search_next == IF records \cap Numbers = {} THEN 1
               ELSE 1 + CHOOSE n \in records \cap Numbers : \A m \in records \cap Numbers : m <= n

(* A check fails: the session is rolled back.  Failing at --map_to_primary *)
(* a --prefix command first waits for the lock, which the rollback frees.  *)
RenderFails(c, a, approved) ==
    /\ pc[c] = "idle"
    /\ Failure(a, approved) # "none"
    /\ Failure(a, approved) = "maptoprimary" /\ a.address = PrefixOpt => lockOwner = NoCmd
    /\ result' = [result EXCEPT ![c] = "rolledback"]
    /\ UNCHANGED <<records, services, dsdb, lockOwner, pc, pending>>

(* The checks pass.  (A --prefix command starts only while MaxNumber     *)
(* leaves search_next a number.)                                           *)
Check(c, a, approved) ==
    /\ pc[c] = "idle"
    /\ Failure(a, approved) = "none"
    /\ a.address = PrefixOpt => search_next \in Numbers
    /\ pc' = [pc EXCEPT ![c] = "checked"]
    /\ pending' = [pending EXCEPT ![c] =
                     [holder |-> a.holder, name |-> a.name, prefix |-> a.address = PrefixOpt,
                      fqdn |-> a.address,
                      newly |-> FALSE, shared |-> a.shared]]
    /\ result' = [result EXCEPT ![c] = "none"]
    /\ UNCHANGED <<records, services, dsdb, lockOwner>>

(* Defect: search_next without the lock_row() of the DNS domain.          *)
LockDomainSkipped(c) == UNCHANGED lockOwner

(* With --prefix, dbdns_domain.lock_row() blocks until no other           *)
(* transaction holds the row; the transaction then holds it.              *)
LockDomain(c) ==
    IF pending[c].prefix
    THEN lockOwner = NoCmd /\ lockOwner' = c
    ELSE UNCHANGED lockOwner

(* The name render() goes on with (search_next bounded by MaxNumber).     *)
NameOf(p) == IF p.prefix THEN search_next ELSE p.fqdn

(* The name, then generate_ip and grab_address: the address is            *)
(* newly_created when no record of that name is committed.                *)
ChooseName(c) ==
    /\ pc[c] = "checked"
    /\ NameOf(pending[c]) \in Fqdns
    /\ LockDomain(c)
    /\ pc' = [pc EXCEPT ![c] = "chosen"]
    /\ pending' = [pending EXCEPT ![c].fqdn = NameOf(pending[c]),
                                   ![c].newly = NameOf(pending[c]) \notin records]
    /\ UNCHANGED <<records, services, dsdb, result>>

(* The unique keys of the rows a command inserts: the Fqdn it creates and *)
(* (holder, name) of the ServiceAddress.                                   *)
SameKey(p, q) ==
    \/ p.newly /\ q.newly /\ p.fqdn = q.fqdn
    \/ p.holder = q.holder /\ p.name = q.name

InFlight == {c \in Cmds : pc[c] \in {"flushed", "rendered"}}

FqdnTaken(p) == p.newly /\ p.fqdn \in records
NameTaken(p) == \E s \in services : s.holder = p.holder /\ s.name = p.name

(* session.flush() inserts the rows.  An INSERT on a key another open     *)
(* transaction has inserted waits for it to end; on a committed key it    *)
(* raises IntegrityError, and the rollback releases the row lock.          *)
Flush(c) ==
    /\ pc[c] = "chosen"
    /\ ~\E d \in InFlight \ {c} : SameKey(pending[c], pending[d])
    /\ IF FqdnTaken(pending[c]) \/ NameTaken(pending[c])
       THEN /\ pc' = [pc EXCEPT ![c] = "idle"]
            /\ pending' = [pending EXCEPT ![c] = NoPending]
            /\ result' = [result EXCEPT ![c] =
                             IF FqdnTaken(pending[c]) THEN "fqdn_taken" ELSE "name_taken"]
            /\ lockOwner' = IF lockOwner = c THEN NoCmd ELSE lockOwner
       ELSE /\ pc' = [pc EXCEPT ![c] = "flushed"]
            /\ UNCHANGED <<pending, result, lockOwner>>
    /\ UNCHANGED <<records, services, dsdb>>

(* Defect: an existing unshared address is deleted and never re-added.   *)
DsdbChangesNoReadd(p) ==
    IF p.newly THEN dsdb \cup {p.fqdn}
    ELSE IF p.shared THEN dsdb ELSE dsdb \ {p.fqdn}

(* delete_host_details when the address is neither shared nor new, then   *)
(* add_host_details when it is new or was just deleted.                   *)
DsdbChanges(p) ==
    LET deleted == ~p.shared /\ ~p.newly
        afterDelete == IF deleted THEN dsdb \ {p.fqdn} ELSE dsdb
    IN  IF p.newly \/ deleted THEN afterDelete \cup {p.fqdn} ELSE afterDelete

(* dsdb_runner.commit_or_rollback() succeeds: render() returns.            *)
DsdbCommit(c) ==
    /\ pc[c] = "flushed"
    /\ dsdb' = DsdbChanges(pending[c])
    /\ pc' = [pc EXCEPT ![c] = "rendered"]
    /\ UNCHANGED <<records, services, lockOwner, pending, result>>

(* DSDB refuses: the runner rolls its own commands back and raises        *)
(* ArgumentError, the plenaries are restored and the broker rolls the     *)
(* session back, which releases the row lock.                             *)
DsdbFails(c) ==
    /\ pc[c] = "flushed"
    /\ pc' = [pc EXCEPT ![c] = "idle"]
    /\ pending' = [pending EXCEPT ![c] = NoPending]
    /\ result' = [result EXCEPT ![c] = "dsdbfailed"]
    /\ lockOwner' = IF lockOwner = c THEN NoCmd ELSE lockOwner
    /\ UNCHANGED <<records, services, dsdb>>

(* Defect: the session's objects kept for the thread's next call.         *)
CommitKeepsPending(c) ==
    /\ pc[c] = "rendered"
    /\ records' = records \cup {pending[c].fqdn}
    /\ services' = services \cup {[holder |-> pending[c].holder, name |-> pending[c].name,
                                   fqdn |-> pending[c].fqdn]}
    /\ pc' = [pc EXCEPT ![c] = "idle"]
    /\ result' = [result EXCEPT ![c] = "committed"]
    /\ lockOwner' = IF lockOwner = c THEN NoCmd ELSE lockOwner
    /\ UNCHANGED <<dsdb, pending>>

(* The broker commits the session (and the audit results of the chosen    *)
(* name) after render() returned; the commit releases the row lock.       *)
Commit(c) ==
    /\ pc[c] = "rendered"
    /\ records' = records \cup {pending[c].fqdn}
    /\ services' = services \cup {[holder |-> pending[c].holder, name |-> pending[c].name,
                                   fqdn |-> pending[c].fqdn]}
    /\ pc' = [pc EXCEPT ![c] = "idle"]
    /\ pending' = [pending EXCEPT ![c] = NoPending]
    /\ result' = [result EXCEPT ![c] = "committed"]
    /\ lockOwner' = IF lockOwner = c THEN NoCmd ELSE lockOwner
    /\ UNCHANGED dsdb

Finish(c) == Flush(c) \/ DsdbCommit(c) \/ DsdbFails(c) \/ Commit(c)

Next ==
    \E c \in Cmds :
        \/ \E a \in Args, approved \in BOOLEAN :
              RenderFails(c, a, approved) \/ Check(c, a, approved)
        \/ ChooseName(c)
        \/ Finish(c)

(* No fairness: no property of this module is about progress.             *)
Spec == Init /\ [][Next]_vars

-----------------------------------------------------------------------------
(* Properties.                                                             *)

TypeOK ==
    /\ records \subseteq Fqdns /\ dsdb \subseteq Fqdns
    /\ services \subseteq [holder : Holders, name : Names, fqdn : Fqdns]
    /\ lockOwner \in Cmds \cup {NoCmd}
    /\ pc \in [Cmds -> {"idle", "checked", "chosen", "flushed", "rendered"}]
    /\ pending \in [Cmds -> Pending \cup {NoPending}]
    /\ \A c \in Cmds : pc[c] = "idle" <=> pending[c] = NoPending
    /\ result \in [Cmds -> Results]

(* lock_row() makes --prefix allocations of one DNS domain take turns:    *)
(* until a --prefix command ends, no other --prefix command holds or       *)
(* commits the name search_next gave it.  A --shortname command takes no   *)
(* lock, so it alone can take that name first, and only when it is a name  *)
(* a --shortname can give.                                                  *)
PrefixAllocationSerialized ==
    \A c \in Cmds :
        pc[c] \in {"chosen", "flushed", "rendered"} /\ pending[c].prefix =>
            /\ pending[c].fqdn \in records => pending[c].fqdn \in Shortnames
            /\ \A d \in Cmds \ {c} :
                   pc[d] \in {"chosen", "flushed", "rendered"} /\ pending[d].prefix
                       => pending[d].fqdn # pending[c].fqdn

(* DSDB and the database agree: every committed address record is in     *)
(* DSDB (the delete of a reused address is always followed by its re-add), *)
(* and DSDB holds no name beyond them but those of commands whose rows     *)
(* are flushed and whose commit is all that is left.                       *)
DsdbMatchesDatabase ==
    /\ records \subseteq dsdb
    /\ dsdb \subseteq records \cup {pending[c].fqdn : c \in {d \in Cmds : pc[d] = "rendered"}}

=============================================================================
