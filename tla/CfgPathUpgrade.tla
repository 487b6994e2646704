--------------------------- MODULE CfgPathUpgrade ---------------------------
(***************************************************************************)
(* cfg_path_data_upgrade.py: AqdbManager.start fills a multiprocessing     *)
(* Queue with every host id while cpu_count() worker processes drain it.   *)
(* A worker copies the operating system and the service instances named by *)
(* a host's build items onto the host, commits every commit_count hosts,   *)
(* and leaves when it finds the queue empty after a host.  The main process *)
(* joins every worker with a timeout, terminates them, deletes the os      *)
(* build items, fixes aquilon hosts still without an OS and, if no host    *)
(* lacks an OS and no build item lacks a service instance, migrates the    *)
(* schema.                                                                 *)
(***************************************************************************)
EXTENDS Integers, Sequences, FiniteSets

CONSTANTS
    Hosts,          \* host ids
    Workers,        \* the worker processes
    HostOrder,      \* qry.all() of enqueue_hosts: a sequence of Hosts
    WorkerOrder,    \* self.workers: a sequence of Workers
    CommitCount,    \* commit_count (25)
    arch,           \* host.archetype.name
    items,          \* tld types of host.build_items: "os", "service", other
    osInit,         \* host.operating_system_id before the run: "null" or "old"
    cached,         \* hosts whose cfg_paths are all keys of os_cache / si_cache
    CommitMayFail,  \* whether sess.commit() may raise (deadlocks)
    GenericRowsFound \* the outcomes of work()'s .one() queries the database allows

ASSUME /\ CommitCount \in Nat \ {0}
       /\ HostOrder \in Seq(Hosts) /\ Len(HostOrder) = Cardinality(Hosts)
       /\ WorkerOrder \in Seq(Workers) /\ Len(WorkerOrder) = Cardinality(Workers)
       /\ GenericRowsFound \subseteq BOOLEAN /\ GenericRowsFound # {}

OsValues == {"null", "old", "item", "generic", "default", "esx"}

VARIABLES
    host_q,         \* the shared Queue
    enqueued,       \* how many ids enqueue_hosts has put
    wpc,            \* worker: "start", "get", "proc", "check", "exited", "dead"
    cur,            \* the host a worker holds
    pending,        \* hosts changed in a worker's session, not committed
    processed,      \* the worker's counter, modulo commit_count
    mpc,            \* main: "enqueue", "join", "fix", "finish", "done"
    joined,         \* how many workers main has joined
    os,             \* committed host.operating_system_id
    si,             \* committed: the host's service build items have an id
    osItems,        \* committed: the os build_item rows still exist
    migrated,       \* committed: the schema migration ran
    defaultCached,  \* 'linux/4.0.1-x86_64' is a key of os_cache
    genericRows     \* each generic OS query of work() finds exactly one row

vars == <<host_q, enqueued, wpc, cur, pending, processed, mpc, joined,
          os, si, osItems, migrated, defaultCached, genericRows>>

-----------------------------------------------------------------------------
(* The body of the worker loop for one host (lines 93-121).               *)

\* The build-item branch: aquilon or vmhost hosts with build items.
FromItems(h) == items[h] # {} /\ arch[h] \in {"aquilon", "vmhost"}

\* os_cache[...] and si_cache[...] raise KeyError on a missing cfg_path, and
\* so does os_cache['linux/4.0.1-x86_64'] for an aquilon host without items
\* and without an OS when that OS is not in the cache.
Crashes(h) ==
    \/ FromItems(h) /\ h \notin cached /\ items[h] \cap {"os", "service"} # {}
    \/ ~FromItems(h) /\ arch[h] = "aquilon" /\ os[h] = "null" /\ ~defaultCached

\* host.operating_system after the body, given its value before.
NewOs(h, old) ==
    LET o == CASE FromItems(h) -> IF "os" \in items[h] THEN "item" ELSE old
               [] arch[h] \in {"aurora", "windows", "pserver"} -> "generic"
               [] arch[h] = "aquilon" -> IF old = "null" THEN "default" ELSE old
               [] OTHER -> old
    IN  IF arch[h] = "vmhost" THEN "esx" ELSE o

\* item.service_instance_id set for every service item.
NewSi(h, old) == old \/ (FromItems(h) /\ "service" \in items[h])

\* sess.commit() of a session holding the changes of the hosts in S.
Commit(S) ==
    /\ os' = [h \in Hosts |-> IF h \in S THEN NewOs(h, os[h]) ELSE os[h]]
    /\ si' = [h \in Hosts |-> IF h \in S THEN NewSi(h, si[h]) ELSE si[h]]

\* try: sess.commit() except: sess.rollback(); TRUE iff the commit held.
CommitOrRollback(S, ok) ==
    IF ok THEN Commit(S) ELSE UNCHANGED <<os, si>>

\* Defect: processed += 1 without the modulo test wrapping.
TickNoWrap(n) == n + 1

\* processed += 1, read modulo commit_count
Tick(n) == (n + 1) % CommitCount

CommitOutcomes == IF CommitMayFail THEN BOOLEAN ELSE {TRUE}

-----------------------------------------------------------------------------
Init ==
    /\ host_q = <<>>
    /\ enqueued = 0
    /\ wpc = [w \in Workers |-> "start"]
    /\ cur = [w \in Workers |-> CHOOSE h \in Hosts : TRUE]
    /\ pending = [w \in Workers |-> {}]
    /\ processed = [w \in Workers |-> 0]
    /\ mpc = "enqueue"
    /\ joined = 0
    /\ os = osInit
    /\ si = [h \in Hosts |-> FALSE]
    /\ osItems = TRUE
    /\ migrated = FALSE
    /\ defaultCached \in BOOLEAN
    /\ genericRows \in GenericRowsFound

(* enqueue_hosts: host_q.put(row[0]) for every host, after the workers     *)
(* were started.                                                           *)
Enqueue ==
    /\ mpc = "enqueue"
    /\ enqueued < Len(HostOrder)
    /\ host_q' = Append(host_q, HostOrder[enqueued + 1])
    /\ enqueued' = enqueued + 1
    /\ UNCHANGED <<wpc, cur, pending, processed, mpc, joined, os, si, osItems, migrated, defaultCached, genericRows>>

EnqueueDone ==
    /\ mpc = "enqueue"
    /\ enqueued = Len(HostOrder)
    /\ mpc' = "join"
    /\ UNCHANGED <<host_q, enqueued, wpc, cur, pending, processed, joined,
                   os, si, osItems, migrated, defaultCached, genericRows>>

(* The start of work(): the session and the .one() queries of the generic *)
(* windows, aurora, esxi and ontap OS rows.  NoResultFound (or             *)
(* MultipleResultsFound) ends the worker before it takes any host.         *)
Start(w) ==
    /\ wpc[w] = "start"
    /\ wpc' = [wpc EXCEPT ![w] = IF genericRows THEN "get" ELSE "dead"]
    /\ UNCHANGED <<host_q, enqueued, cur, pending, processed, mpc, joined,
                   os, si, osItems, migrated, defaultCached, genericRows>>

(* host_id = host_q.get(): blocks while the queue is empty.               *)
Get(w) ==
    /\ wpc[w] = "get"
    /\ host_q # <<>>
    /\ cur' = [cur EXCEPT ![w] = Head(host_q)]
    /\ host_q' = Tail(host_q)
    /\ wpc' = [wpc EXCEPT ![w] = "proc"]
    /\ UNCHANGED <<enqueued, pending, processed, mpc, joined, os, si, osItems, migrated, defaultCached, genericRows>>

(* The body for one host, then `if processed % commit_count == 0: commit`. *)
Process(w) ==
    /\ wpc[w] = "proc"
    /\ LET h == cur[w]
           n == Tick(processed[w])
       IN  \/ /\ Crashes(h)
              /\ wpc' = [wpc EXCEPT ![w] = "dead"]
              /\ pending' = [pending EXCEPT ![w] = {}]
              /\ UNCHANGED <<processed, os, si>>
           \/ /\ ~Crashes(h)
              /\ processed' = [processed EXCEPT ![w] = n]
              /\ wpc' = [wpc EXCEPT ![w] = "check"]
              /\ IF n = 0
                 THEN /\ pending' = [pending EXCEPT ![w] = {}]
                      /\ \E ok \in CommitOutcomes : CommitOrRollback(pending[w] \cup {h}, ok)
                 ELSE /\ pending' = [pending EXCEPT ![w] = @ \cup {h}]
                      /\ UNCHANGED <<os, si>>
    /\ UNCHANGED <<host_q, enqueued, cur, mpc, joined, osItems, migrated, defaultCached, genericRows>>

(* if host_q.qsize() == 0: commit, close and break.                        *)
Check(w) ==
    /\ wpc[w] = "check"
    /\ \/ /\ host_q # <<>>
          /\ wpc' = [wpc EXCEPT ![w] = "get"]
          /\ UNCHANGED <<pending, os, si>>
       \/ /\ host_q = <<>>
          /\ wpc' = [wpc EXCEPT ![w] = "exited"]
          /\ pending' = [pending EXCEPT ![w] = {}]
          /\ \E ok \in CommitOutcomes : CommitOrRollback(pending[w], ok)
    /\ UNCHANGED <<host_q, enqueued, cur, processed, mpc, joined, osItems, migrated, defaultCached, genericRows>>

(* w.join(self.timeout), one worker after the other: join returns once    *)
(* the worker has ended ...                                                *)
JoinEnded ==
    /\ mpc = "join"
    /\ joined < Len(WorkerOrder)
    /\ wpc[WorkerOrder[joined + 1]] \in {"exited", "dead"}
    /\ joined' = joined + 1
    /\ UNCHANGED <<host_q, enqueued, wpc, cur, pending, processed, mpc,
                   os, si, osItems, migrated, defaultCached, genericRows>>

(* ... or when the timeout expires, whatever the worker is doing.          *)
Join ==
    \/ JoinEnded
    \/ /\ mpc = "join"
       /\ joined < Len(WorkerOrder)
       /\ joined' = joined + 1
       /\ UNCHANGED <<host_q, enqueued, wpc, cur, pending, processed, mpc,
                      os, si, osItems, migrated, defaultCached, genericRows>>

(* for w in self.workers: w.terminate(): a worker still running (blocked   *)
(* in get, or busy) is killed and its session's changes are lost.          *)
Terminate ==
    /\ mpc = "join"
    /\ joined = Len(WorkerOrder)
    /\ mpc' = "fix"
    /\ wpc' = [w \in Workers |-> IF wpc[w] = "exited" THEN "exited" ELSE "dead"]
    /\ pending' = [w \in Workers |-> {}]
    /\ UNCHANGED <<host_q, enqueued, cur, processed, joined, os, si, osItems, migrated, defaultCached, genericRows>>

-----------------------------------------------------------------------------
(* The schema migration, in one session of the main process.              *)

\* Build items left without a service instance after the os rows are gone:
\* unresolved service items, and items of any other tld type.
Unresolved(h) == ("service" \in items[h] /\ ~si[h]) \/ items[h] \ {"os", "service"} # {}

NullOs == {h \in Hosts : os[h] = "null"}

(* The delete of the os build items (uncommitted), count, count2, and if   *)
(* count2 > 0 the default OS for aquilon hosts and a commit, which makes   *)
(* the delete durable too, or a rollback, which undoes both.  Without the  *)
(* default OS in os_cache the first aquilon host raises KeyError: the main *)
(* process dies and its session, the delete with it, is never committed.   *)
FixStragglers ==
    /\ mpc = "fix"
    /\ \/ /\ NullOs = {}
          /\ mpc' = "finish"
          /\ UNCHANGED <<os, osItems>>
       \/ /\ NullOs # {}
          /\ defaultCached \/ \A h \in NullOs : arch[h] # "aquilon"
          /\ mpc' = "finish"
          /\ \E ok \in CommitOutcomes :
                IF ok THEN /\ os' = [h \in Hosts |->
                                 IF h \in NullOs /\ arch[h] = "aquilon" THEN "default" ELSE os[h]]
                           /\ osItems' = FALSE
                      ELSE UNCHANGED <<os, osItems>>
       \/ /\ ~defaultCached
          /\ \E h \in NullOs : arch[h] = "aquilon"
          /\ mpc' = "crashed"
          /\ UNCHANGED <<os, osItems>>
    /\ UNCHANGED <<host_q, enqueued, wpc, cur, pending, processed, joined, si, migrated,
                   defaultCached, genericRows>>

(* count2 again; with count == 0 and count2 == 0 the DDL statements run   *)
(* and commit (with the delete); otherwise the session is dropped, and an  *)
(* uncommitted delete with it.                                             *)
Finish ==
    /\ mpc = "finish"
    /\ mpc' = "done"
    /\ IF NullOs = {} /\ \A h \in Hosts : ~Unresolved(h)
       THEN migrated' = TRUE /\ osItems' = FALSE
       ELSE UNCHANGED <<migrated, osItems>>
    /\ UNCHANGED <<host_q, enqueued, wpc, cur, pending, processed, joined, os, si,
                   defaultCached, genericRows>>

Main == Enqueue \/ EnqueueDone \/ Join \/ Terminate \/ FixStragglers \/ Finish

Worker(w) == Start(w) \/ Get(w) \/ Process(w) \/ Check(w)

Next == Main \/ \E w \in Workers : Worker(w)

(* Every process gets the CPU, and a join timeout always expires.          *)
Spec == Init /\ [][Next]_vars /\ WF_vars(Main) /\ \A w \in Workers : WF_vars(Worker(w))

-----------------------------------------------------------------------------
TypeOK ==
    /\ host_q \in Seq(Hosts)
    /\ enqueued \in 0..Len(HostOrder)
    /\ wpc \in [Workers -> {"start", "get", "proc", "check", "exited", "dead"}]
    /\ cur \in [Workers -> Hosts]
    /\ pending \in [Workers -> SUBSET Hosts]
    /\ processed \in [Workers -> 0..(CommitCount - 1)]
    /\ mpc \in {"enqueue", "join", "fix", "finish", "done", "crashed"}
    /\ joined \in 0..Len(WorkerOrder)
    /\ os \in [Hosts -> OsValues]
    /\ si \in [Hosts -> BOOLEAN]
    /\ osItems \in BOOLEAN
    /\ migrated \in BOOLEAN
    /\ defaultCached \in BOOLEAN
    /\ genericRows \in BOOLEAN

(* The script ends, by returning from AqdbManager.start or by the KeyError *)
(* of the straggler fix: the join timeouts end the wait for workers        *)
(* blocked in host_q.get() forever.                                        *)
Terminates == <>(mpc \in {"done", "crashed"})

(* Once the os build items are deleted for good, every aquilon host that  *)
(* had one carries the operating system that item named: the upgrade      *)
(* copied it before dropping its only source.                              *)
OsItemCopiedBeforeDelete ==
    ~osItems =>
        \A h \in Hosts : arch[h] = "aquilon" /\ "os" \in items[h] => os[h] = "item"
====
