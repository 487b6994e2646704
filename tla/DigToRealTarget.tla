--------------------------- MODULE DigToRealTarget ---------------------------
(***************************************************************************)
(* The while loop of dig_to_real_target (validate_fqdn), one iteration per *)
(* step: the names of the current level are marked tested, their records   *)
(* are read, alias targets become the next level and a real record sets    *)
(* final_target.  The loop ends when a level is empty, or raises when a    *)
(* record is found among the tested names.                                 *)
(***************************************************************************)
EXTENDS DnsAlias

VARIABLES
    start,          \* the Fqdn handed to validate_fqdn
    fqdns_to_test,  \* names of the current level
    fqdns_tested,   \* names already expanded
    final_target,   \* the answer so far
    pc              \* "loop", "done" (returned) or "raised"

vars == <<start, fqdns_to_test, fqdns_tested, final_target, pc>>

Init ==
    /\ start \in Fqdns
    /\ fqdns_to_test = {start}
    /\ fqdns_tested = {}
    /\ final_target = start
    /\ pc = "loop"

(* Defect: the level is not reset (`fqdns_to_test = []` missing), so the   *)
(* names already expanded stay in it.                                      *)
IterateNoReset ==
    /\ pc = "loop"
    /\ fqdns_to_test # {}
    /\ LET recs    == RecordsOf(fqdns_to_test)
           testedN == fqdns_tested \cup fqdns_to_test
           reals   == RealRecords(recs)
       IN  /\ fqdns_tested' = testedN
           /\ fqdns_to_test' = fqdns_to_test \cup NextLevel(recs)
           /\ \/ reals = {} /\ UNCHANGED final_target
              \/ \E r \in reals : final_target' = FinalOf(r)
           /\ UNCHANGED pc
    /\ UNCHANGED start

(* One pass of `while fqdns_to_test`; which real record of the level is    *)
(* iterated last, and so becomes final_target, is not determined.          *)
Iterate ==
    /\ pc = "loop"
    /\ fqdns_to_test # {}
    /\ LET recs    == RecordsOf(fqdns_to_test)
           testedN == fqdns_tested \cup fqdns_to_test
           reals   == RealRecords(recs)
       IN  IF LoopSuspected(recs, testedN)
           THEN /\ pc' = "raised"
                /\ UNCHANGED <<fqdns_to_test, fqdns_tested, final_target>>
           ELSE /\ fqdns_tested' = testedN
                /\ fqdns_to_test' = NextLevel(recs)
                /\ \/ reals = {} /\ UNCHANGED final_target
                   \/ \E r \in reals : final_target' = FinalOf(r)
                /\ UNCHANGED pc
    /\ UNCHANGED start

(* `return final_target`                                                   *)
Return ==
    /\ pc = "loop"
    /\ fqdns_to_test = {}
    /\ pc' = "done"
    /\ UNCHANGED <<start, fqdns_to_test, fqdns_tested, final_target>>

Next == Iterate \/ Return

(* The loop runs on the broker thread without waiting on anything.         *)
Spec == Init /\ [][Next]_vars /\ WF_vars(Next)

-----------------------------------------------------------------------------
TypeOK ==
    /\ start \in Fqdns
    /\ fqdns_to_test \subseteq Fqdns
    /\ fqdns_tested \subseteq Fqdns
    /\ final_target \in Fqdns
    /\ pc \in {"loop", "done", "raised"}

(* validate_fqdn always gets an answer: the loop either returns or raises, *)
(* whatever alias and address-alias records the names carry.               *)
Terminates == <>(pc # "loop")

(* The name returned carries a real (non-alias) record reached from the    *)
(* start through alias and address-alias records, or is the start itself   *)
(* when the chain reaches no real record.                                  *)
ResolvesToRealTarget == pc = "done" => final_target \in RealTargets(start)
=============================================================================
