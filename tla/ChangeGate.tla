------------------------------ MODULE ChangeGate ------------------------------
(***************************************************************************)
(* What one broker command's change-management gate promises (section 4 of *)
(* the specification), without strategies, chunking or JSON: the command   *)
(* records targets; if change management is enabled it asks the oracle     *)
(* once, with the blast radius and enforce flag of every recorded target,  *)
(* and may apply its change only on Approved or Permitted; if disabled it  *)
(* applies without asking.  Any step before the decision may fail.         *)
(***************************************************************************)
EXTENDS CMBlastRadius

CONSTANTS
    Targets,        \* targets a command may hand to consider()
    Replies,        \* answers the oracle may give
    NoRequest       \* the oracle not asked yet

VARIABLES
    enabled,        \* change management enabled
    stage,          \* open, approved, applied, failed
    history,        \* the consider() calls of this command
    asked,          \* the request the oracle was asked
    answer          \* the oracle's answer

gateVars == <<enabled, stage, history, asked, answer>>

Accepting == {"Approved", "Permitted"}

GateInit ==
    /\ enabled \in BOOLEAN
    /\ stage = "open"
    /\ history = {}
    /\ asked = NoRequest
    /\ answer = NoRequest

(* Record a target; the walk may fail the command.                        *)
Consider(c) ==
    /\ stage = "open"
    /\ history' = history \cup {c}
    /\ stage' \in {"open", "failed"}
    /\ UNCHANGED <<enabled, asked, answer>>

(* Ask the oracle about everything recorded, and obey it.                  *)
Decide(ans) ==
    /\ enabled
    /\ stage = "open"
    /\ asked' = ExpectedRequest(history)
    /\ answer' = ans
    /\ stage' = IF ans \in Accepting THEN "approved" ELSE "failed"
    /\ UNCHANGED <<enabled, history>>

(* Change management disabled: no question, no check.                      *)
Pass ==
    /\ ~enabled
    /\ stage = "open"
    /\ stage' = "approved"
    /\ UNCHANGED <<enabled, history, asked, answer>>

ApplyChange ==
    /\ stage = "approved"
    /\ stage' = "applied"
    /\ UNCHANGED <<enabled, history, asked, answer>>

NextCommand ==
    /\ stage \in {"applied", "failed"}
    /\ stage' = "open"
    /\ history' = {}
    /\ asked' = NoRequest
    /\ answer' = NoRequest
    /\ UNCHANGED enabled

GateNext ==
    \/ \E c \in [target : Targets, flag : BOOLEAN] : Consider(c)
    \/ \E ans \in Replies : Decide(ans)
    \/ Pass
    \/ ApplyChange
    \/ NextCommand

GateSpec == GateInit /\ [][GateNext]_gateVars
=============================================================================
