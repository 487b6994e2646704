--------------------------- MODULE ChangeManagement ---------------------------
(***************************************************************************)
(* One ChangeManagement context per broker command (update_user,           *)
(* update_disk, add_service_address, ...): the command creates it, calls   *)
(* consider() on its targets, calls validate(), and applies its change     *)
(* only if validate() returned.  validate() serialises the accumulated     *)
(* impact, runs aqd_checkedm, parses its JSON answer, writes the audit     *)
(* record and maps the Status to success, warning or failure.              *)
(*                                                                         *)
(* After a command ends (applied or failed) the broker serves the next     *)
(* one with a fresh context; the change-management configuration is read   *)
(* once and does not change.                                               *)
(***************************************************************************)
EXTENDS CMBlastRadius
LOCAL INSTANCE SequencesExt

CONSTANTS
    Targets,        \* targets a command may hand to consider()
    Replies,        \* what running aqd_checkedm may produce
    OptionLists,    \* shlex.split of config change_management/extra_options
    MaxConsider,    \* bound on consider() calls per command
    NoRequest,      \* no aqd_checkedm call made yet
    NoAudit         \* no audit record written yet

(* Statuses the oracle may answer; the code tests two of them by name.     *)
Verdicts == Replies \ {"Malformed", "ProcessError", "NotObject"}

ASSUME /\ Targets \subseteq [shape : Shapes, objs : SUBSET Objects]
       /\ Replies \subseteq STRING
       /\ MaxConsider \in Nat \ {0}
       /\ OptionLists \subseteq Seq(STRING)

VARIABLES
    checkEnabled,   \* config change_management/enable
    extraOptions,   \* cm_extra_options, the split config extra_options
    phase,          \* where the command is: open, validated, applied, failed
    impacted,       \* dict_of_impacted_envs, env -> set of statuses
    enforce,        \* enforce_validation
    considered,     \* history: every consider(target, enforce_validation) call
    nConsider,      \* number of consider() calls of this command
    request,        \* the metadata passed to aqd_checkedm
    reply,          \* what aqd_checkedm produced
    audit,          \* the record logged to the change_management logger
    error           \* the exception that failed the command

vars == <<checkEnabled, extraOptions, phase, impacted, enforce, considered, nConsider,
          request, reply, audit, error>>

(* The broker configuration, read once.                                   *)
config == <<checkEnabled, extraOptions>>

Phases == {"open", "validated", "applied", "failed"}
NoImpact == [e \in Envs |-> {}]

(* Defect: the environment name appended in place of the status.          *)
RecordEnvName(imp, S) ==
    [e \in Envs |-> imp[e] \cup {envOf[x] : x \in {y \in S : envOf[y] = e}}]

(* self.dict_of_impacted_envs.setdefault(env, []).append(status) for every *)
(* walked host and cluster.                                                *)
Record(imp, S) ==
    [e \in Envs |-> imp[e] \cup {statusOf[x] : x \in {y \in S : envOf[y] = e}}]

-----------------------------------------------------------------------------
(* ChangeManagement.__init__                                               *)
Fresh ==
    /\ phase = "open"
    /\ impacted = NoImpact
    /\ enforce = FALSE
    /\ considered = {}
    /\ nConsider = 0
    /\ request = NoRequest
    /\ reply = NoRequest
    /\ audit = NoAudit
    /\ error = "none"

Init ==
    /\ checkEnabled \in BOOLEAN
    /\ extraOptions \in OptionLists
    /\ Fresh

(* consider(target_obj, enforce_validation): the flag is taken before the  *)
(* enable check, then None, an empty list and an empty Query return.       *)
ConsiderFlag(flag) == enforce \/ flag

ConsiderStep(t, flag) ==
    /\ phase = "open"
    /\ nConsider < MaxConsider
    /\ nConsider' = nConsider + 1
    /\ considered' = considered \cup {[target |-> t, flag |-> flag]}

ConsiderSkipped(t, flag) ==
    /\ ConsiderStep(t, flag)
    /\ ~checkEnabled \/ NothingToValidate(t)
    /\ enforce' = ConsiderFlag(flag)
    /\ UNCHANGED <<config, phase, impacted, request, reply, audit, error>>

ConsiderWalked(t, flag) ==
    /\ ConsiderStep(t, flag)
    /\ checkEnabled
    /\ ~NothingToValidate(t)
    /\ \E out \in Dispatch(t) :
          \/ /\ out.err = "none"
             /\ impacted' = Record(impacted, out.hit)
             /\ enforce' = (ConsiderFlag(flag) \/ out.enforce)
             /\ UNCHANGED <<phase, error>>
          \/ /\ out.err # "none"
             /\ phase' = "failed"
             /\ error' = out.err
             /\ UNCHANGED <<impacted, enforce>>
    /\ UNCHANGED <<config, request, reply, audit>>

-----------------------------------------------------------------------------
(* validate()                                                              *)

(* The metadata dict; the dedup of every status list is the set.          *)
RequestOf == [impacted |-> impacted, enforce |-> enforce]

(* cm_extra_options.index(flag) + 1: where the value of an option is read. *)
OptionAt(opts, flag) == SelectInSeq(opts, LAMBDA t : t = flag) + 1

(* The lookup raises IndexError when the flag is the last extra option.    *)
OptionRaises(opts, flag) == Contains(opts, flag) /\ OptionAt(opts, flag) > Len(opts)

LogRaises(opts) == OptionRaises(opts, "--edm-instance") \/ OptionRaises(opts, "--mode")

OptionValue(opts, flag, default) ==
    IF Contains(opts, flag) THEN opts[OptionAt(opts, flag)] ELSE default

(* Defect: any impact on 'prod' reported as a production-ready impact.     *)
LogProdNonEmpty(opts, req, status) ==
    [request |-> req, status |-> status, prodReady |-> req.impacted["prod"] # {},
     edmInstance |-> OptionValue(opts, "--edm-instance", "prod"),
     mode |-> OptionValue(opts, "--mode", "enforce"),
     disableEdm |-> Contains(opts, "--disable_edm")]

(* log_change_management_validation, when it does not raise: the options  *)
(* parsed from the extra arguments, the request and the answer, and        *)
(* prod_ready_env_impact, Yes iff the 'prod' bucket holds 'ready'.        *)
log_change_management_validation(opts, req, status) ==
    [request |-> req, status |-> status, prodReady |-> "ready" \in req.impacted["prod"],
     edmInstance |-> OptionValue(opts, "--edm-instance", "prod"),
     mode |-> OptionValue(opts, "--mode", "enforce"),
     disableEdm |-> Contains(opts, "--disable_edm")]

(* Permitted passes with a warning, Approved passes, anything else raises *)
(* AuthorizationException.                                                 *)
(* Defect: a deny-list, `elif Status == 'Denied': raise`.                 *)
VerdictRejectsDenied(status) == status # "Denied"

VerdictAccepts(status) == status = "Permitted" \/ status = "Approved"

ValidateDisabled ==
    /\ phase = "open"
    /\ ~checkEnabled
    /\ phase' = "validated"
    /\ UNCHANGED <<config, impacted, enforce, considered, nConsider,
                   request, reply, audit, error>>

(* run_command raises when aqd_checkedm fails: nothing is logged.          *)
ValidateProcessError ==
    /\ phase = "open"
    /\ checkEnabled
    /\ "ProcessError" \in Replies
    /\ request' = RequestOf
    /\ reply' = "ProcessError"
    /\ phase' = "failed"
    /\ error' = "process"
    /\ UNCHANGED <<config, impacted, enforce, considered, nConsider, audit>>

(* json.loads fails: AquilonError before anything is logged.               *)
ValidateMalformed ==
    /\ phase = "open"
    /\ checkEnabled
    /\ "Malformed" \in Replies
    /\ request' = RequestOf
    /\ reply' = "Malformed"
    /\ phase' = "failed"
    /\ error' = "malformed"
    /\ UNCHANGED <<config, impacted, enforce, considered, nConsider, audit>>

(* json.loads accepts a JSON value that is not an object: log_dict.update  *)
(* raises on it, or (an empty list) succeeds and logs, and out_dict.get    *)
(* raises next.                                                            *)
ValidateNotObject ==
    /\ phase = "open"
    /\ checkEnabled
    /\ "NotObject" \in Replies
    /\ request' = RequestOf
    /\ reply' = "NotObject"
    /\ \/ UNCHANGED audit
       \/ /\ ~LogRaises(extraOptions)
          /\ audit' = log_change_management_validation(extraOptions, RequestOf, "NotObject")
    /\ phase' = "failed"
    /\ error' = "attribute"
    /\ UNCHANGED <<config, impacted, enforce, considered, nConsider>>

(* A parsed answer: log it, then map its Status.  An exception of the      *)
(* logger propagates out of validate() before the Status is looked at.     *)
ValidateVerdict(status) ==
    /\ phase = "open"
    /\ checkEnabled
    /\ request' = RequestOf
    /\ reply' = status
    /\ IF LogRaises(extraOptions)
         THEN /\ phase' = "failed"
              /\ error' = "index"
              /\ UNCHANGED audit
         ELSE /\ audit' = log_change_management_validation(extraOptions, RequestOf, status)
              /\ phase' = IF VerdictAccepts(status) THEN "validated" ELSE "failed"
              /\ error' = IF VerdictAccepts(status) THEN "none" ELSE "authorization"
    /\ UNCHANGED <<config, impacted, enforce, considered, nConsider>>

(* The calling command goes on with its change once validate() returned.  *)
Apply ==
    /\ phase = "validated"
    /\ phase' = "applied"
    /\ UNCHANGED <<config, impacted, enforce, considered, nConsider,
                   request, reply, audit, error>>

(* The context is discarded; the next command creates a new one.           *)
NewCommand ==
    /\ phase \in {"applied", "failed"}
    /\ phase' = "open"
    /\ impacted' = NoImpact
    /\ enforce' = FALSE
    /\ considered' = {}
    /\ nConsider' = 0
    /\ request' = NoRequest
    /\ reply' = NoRequest
    /\ audit' = NoAudit
    /\ error' = "none"
    /\ UNCHANGED config

Next ==
    \/ \E t \in Targets, flag \in BOOLEAN :
          ConsiderSkipped(t, flag) \/ ConsiderWalked(t, flag)
    \/ ValidateDisabled
    \/ ValidateProcessError
    \/ ValidateMalformed
    \/ ValidateNotObject
    \/ \E status \in Verdicts : ValidateVerdict(status)
    \/ Apply
    \/ NewCommand

Spec == Init /\ [][Next]_vars

-----------------------------------------------------------------------------
(* Properties.                                                             *)

TypeOK ==
    /\ checkEnabled \in BOOLEAN
    /\ extraOptions \in OptionLists
    /\ phase \in Phases
    /\ impacted \in [Envs -> SUBSET Statuses]
    /\ enforce \in BOOLEAN
    /\ considered \subseteq [target : Targets, flag : BOOLEAN]
    /\ nConsider \in 0..MaxConsider
    /\ request \in {NoRequest} \cup [impacted : [Envs -> SUBSET Statuses], enforce : BOOLEAN]
    /\ reply \in {NoRequest} \cup Replies
    /\ error \in Errors \cup {"process", "malformed", "authorization", "index"}

(* The impact sent to aqd_checkedm is exactly the union of the blast radii *)
(* of every target the command considered: consider()'s recursion through  *)
(* cluster members, the chunked location walk and the alias resolution     *)
(* lose nothing and add nothing.                                           *)
BlastRadiusSent ==
    request # NoRequest => request.impacted = ExpectedImpact(considered)

(* The kinds of the specification's strategy table: the classes of        *)
(* ChangeManagement.handlers but the HostClusterMember link row, which no  *)
(* row of the table names, and both kinds of branch, Domain and Sandbox.   *)
BranchKinds == {"Domain", "Sandbox"}
TableKinds == (DOMAIN handlers \ {"HostClusterMember"}) \cup BranchKinds

(* A target of a class outside the strategy table (one missing from        *)
(* ChangeManagement.handlers, or a HostClusterMember link row, which       *)
(* handlers sends to validate_cluster) never lets the command through: it  *)
(* fails instead of being skipped or counted as an empty cluster.          *)
UnknownKindFailsFast ==
    phase = "applied" =>
        \A c \in considered :
            \A o \in c.target.objs : checkEnabled => kindOf[o] \in TableKinds

(* Every answer aqd_checkedm gave, accepted or not, is in the audit log    *)
(* with the request it answered, and prod_ready_env_impact says Yes iff    *)
(* the considered targets reach a production host or cluster in 'ready'.   *)
AuditTrail ==
    reply \in Verdicts =>
        /\ audit # NoAudit
        /\ audit.request = request
        /\ audit.status = reply
        /\ audit.prodReady <=> \E x \in ExpectedHits(considered) : envOf[x] = "prod" /\ statusOf[x] = "ready"

(* Specification 4.5: after every call of the oracle, success or failure,  *)
(* validate() leaves one audit record. The code logs only after json.loads *)
(* succeeded, so a malformed or failed aqd_checkedm run leaves none.       *)
OracleCallAudited == request # NoRequest => audit # NoAudit

(* Specification 4.5: logging failure must never abort the change.  The   *)
(* logger reads the value after --edm-instance and --mode from the extra   *)
(* options before validate() looks at the Status: an Approved or Permitted *)
(* answer always lets the command go on to its change.                     *)
ApprovedNotAborted ==
    reply \in {"Approved", "Permitted"} => phase \in {"validated", "applied"}

(* Specification 4.1: consider() fails with an internal error only for a   *)
(* kind absent from the strategy table; a Query is handed in bulk to the   *)
(* strategy of its first element, whatever that kind is.                   *)
KnownKindsDispatched ==
    error \in {"internal", "attribute"} =>
        \E c \in considered : \E o \in c.target.objs : kindOf[o] \notin TableKinds
(* The command implements the gate of the specification: every consider(), *)
(* validate() and apply step of the code is a step of ChangeGate (a        *)
(* validated command is an approved one), so the oracle is asked once with *)
(* the blast radius of every considered target, and the change is applied *)
(* only after Approved or Permitted or with change management disabled.    *)
StageOf == IF phase = "validated" THEN "approved" ELSE phase

Gate == INSTANCE ChangeGate
            WITH enabled <- checkEnabled, stage <- StageOf, history <- considered,
                 asked <- request, answer <- reply

ImplementsChangeGate == Gate!GateSpec
=============================================================================
