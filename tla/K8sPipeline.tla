----------------------------- MODULE K8sPipeline -----------------------------
(***************************************************************************)
(* One pipeline under the Kubernetes orchestrator: the requests of         *)
(* service/pipeline.go and orchestrator/k8s.go over three stores, the row  *)
(* in Postgres, the custom resource and the secret with the configuration. *)
(* There is no lock: a custom resource is read, changed and written with   *)
(* the version it was read with, the other two are written as they come.   *)
(*                                                                         *)
(* The operator is not part of the repository.  It is what k8s.go and      *)
(* docs/pipeline-status.md expect of it: it carries out the operations     *)
(* named by annotations, shows its progress in the status of the custom    *)
(* resource, removes the annotation and reports to the row.                *)
(***************************************************************************)
EXTENDS Integers

CONSTANTS
  Clients,       \* requests that may be under way at once
  MaxRequests,   \* bound: accepted requests
  MaxClusterFaults \* bound: calls that fail, API processes that die, components that fail

Ops == {"create", "stop", "terminate", "resume", "edit", "delete"}
Requests == Ops \cup {"resources"}

ASSUME ClusterAssumption == MaxRequests \in Nat /\ MaxClusterFaults \in Nat

VARIABLES
  row,         \* Postgres: status and configuration
  cr,          \* custom resource: status, annotations, spec, resourceVersion
  secret,      \* configuration in the secret
  req,         \* the request of each client
  report,      \* the status the operator has still to write to the row
  requests,    \* accepted so far
  clusterFaults

k8sVars == <<row, cr, secret, req, report, requests, clusterFaults>>

\* A configuration and the resources it runs with, which are saved apart.
NoConfig == [config |-> 0, resources |-> 0]
NoRow == [status |-> "absent", cfg |-> NoConfig]
NoResource(version) == [status |-> "absent", ann |-> {}, spec |-> NoConfig, version |-> version]
Idle == [op |-> "none"]

StepTo(c, pc) == req' = [req EXCEPT ![c].pc = pc]
Leave(c) == req' = [req EXCEPT ![c] = Idle]
ReqAt(c, pc) == req[c] # Idle /\ req[c].pc = pc
ClusterFault == clusterFaults < MaxClusterFaults /\ clusterFaults' = clusterFaults + 1

\* What a request saves: a configuration or resources no request has had before.
Requested(op) ==
  LET new == requests + 1 IN
  CASE op \in {"create", "edit"} -> [config |-> new, resources |-> new]
    [] op = "resources" -> [row.cfg EXCEPT !.resources = new]
    [] OTHER -> row.cfg

-----------------------------------------------------------------------------
(* Status validation *)

\* The statuses ValidatePipelineOperation and the checks of edit and delete let pass.
From(op) ==
  CASE op = "create" -> {"absent"}
    [] op = "stop" -> {"Running"}
    [] op = "terminate" -> {"Created", "Running", "Resuming", "Stopping"}
    [] OTHER -> {"Stopped", "Failed"}

During(op) ==
  CASE op = "stop" -> "Stopping" [] op = "terminate" -> "Terminating" [] op = "resume" -> "Resuming"

\* The annotation of a request, and those it takes away.
Annotation(op) == IF op = "resources" THEN "edit" ELSE op

Conflicting(op) ==
  CASE op = "terminate" -> {"create", "resume", "stop", "edit"}
    [] op = "delete" -> {"create", "resume", "stop", "terminate"}
    [] OTHER -> {}

-----------------------------------------------------------------------------
(* Requests: service/pipeline.go *)

\* The service reads the row and validates.
Begin(c, op) ==
  /\ req[c] = Idle /\ requests < MaxRequests /\ row.status \in From(op)
  /\ requests' = requests + 1
  /\ req' = [req EXCEPT ![c] =
       [op |-> op, seen |-> cr, cfg |-> Requested(op),
        pc |-> CASE op = "create" -> "insert" [] op = "edit" -> "save"
                 [] op \in {"resources", "delete"} -> "get" [] OTHER -> "status"]]
  /\ UNCHANGED <<row, cr, secret, report, clusterFaults>>

\* InsertPipeline: the id is unique.
Insert(c) ==
  /\ ReqAt(c, "insert")
  /\ IF row = NoRow
       THEN row' = [status |-> "Created", cfg |-> req[c].cfg] /\ StepTo(c, "secret")
       ELSE UNCHANGED row /\ Leave(c)
  /\ UNCHANGED <<cr, secret, report, requests, clusterFaults>>

\* UpdatePipelineStatus; an edit writes the configuration and, with it, the status Created.
WriteRow(c) ==
  /\ ReqAt(c, "status")
  /\ IF row = NoRow
       THEN UNCHANGED row /\ Leave(c)
       ELSE /\ row' = IF req[c].op = "edit"
                      THEN [status |-> "Created",
                            cfg |-> [row.cfg EXCEPT !.config = req[c].cfg.config]]
                      ELSE [row EXCEPT !.status = During(req[c].op)]
            /\ StepTo(c, "get")
  /\ UNCHANGED <<cr, secret, report, requests, clusterFaults>>

\* UpsertPipelineResources: of an edit before its configuration, of UpdatePipelineResources
\* after the orchestrator has edited.
SaveResources(c) ==
  /\ ReqAt(c, "save")
  /\ row' = IF row = NoRow THEN row ELSE [row EXCEPT !.cfg.resources = req[c].cfg.resources]
  /\ IF req[c].op = "edit" /\ row # NoRow THEN StepTo(c, "status") ELSE Leave(c)
  /\ UNCHANGED <<cr, secret, report, requests, clusterFaults>>

\* CreatePipeline deletes the row of a pipeline that could not be set up.
DeleteRow(c) ==
  /\ ReqAt(c, "undo")
  /\ row' = NoRow
  /\ Leave(c)
  /\ UNCHANGED <<cr, secret, report, requests, clusterFaults>>

-----------------------------------------------------------------------------
(* Requests: orchestrator/k8s.go *)

\* Get, and the validation of the resource's own status (not for a deletion).
GetResource(c) ==
  /\ ReqAt(c, "get")
  /\ IF cr.status = "absent" \/ (req[c].op # "delete" /\ cr.status \notin From(req[c].op))
       THEN Leave(c)
       ELSE req' = [req EXCEPT
              ![c].seen = cr,
              ![c].pc = IF req[c].op \in {"resume", "edit", "resources"} THEN "secret" ELSE "update"]
  /\ UNCHANGED <<row, cr, secret, report, requests, clusterFaults>>

\* createPipelineConfigSecret and updatePipelineConfigSecret, either of which turns to the other.
WriteSecret(c) ==
  /\ ReqAt(c, "secret")
  /\ secret' = req[c].cfg
  /\ StepTo(c, IF req[c].op = "create" THEN "create" ELSE "update")
  /\ UNCHANGED <<row, cr, report, requests, clusterFaults>>

\* SetupPipeline: a resource of that name may still be there.
CreateResource(c) ==
  /\ ReqAt(c, "create")
  /\ IF cr.status = "absent"
       THEN /\ cr' = [status |-> "Created", ann |-> {"create"}, spec |-> req[c].cfg,
                      version |-> cr.version + 1]
            /\ Leave(c)
       ELSE UNCHANGED cr /\ StepTo(c, "unsecret")
  /\ UNCHANGED <<row, secret, report, requests, clusterFaults>>

\* What a request makes of the resource it has read.
Changed(r) ==
  [status |-> r.seen.status,
   ann |-> (r.seen.ann \ Conflicting(r.op)) \cup {Annotation(r.op)},
   spec |-> IF r.op \in {"resume", "edit", "resources"} THEN r.cfg ELSE r.seen.spec,
   version |-> r.seen.version + 1]

\* Mutant: the resource is written whatever became of it since.
Overwrite(c) ==
  /\ ReqAt(c, "update")
  /\ IF cr.status # "absent"
       THEN /\ cr' = [Changed(req[c]) EXCEPT !.version = cr.version + 1]
            /\ CASE req[c].op = "delete" -> StepTo(c, "unsecret")
                 [] req[c].op = "resources" -> StepTo(c, "save")
                 [] OTHER -> Leave(c)
       ELSE UNCHANGED cr /\ Leave(c)
  /\ UNCHANGED <<row, secret, report, requests, clusterFaults>>

\* Mutant: a conflict is resolved with a resource read again and not validated.
Retry(c) ==
  /\ ReqAt(c, "update")
  /\ cr' = Changed([req[c] EXCEPT !.seen = cr])
  /\ CASE req[c].op = "delete" -> StepTo(c, "unsecret")
       [] req[c].op = "resources" -> StepTo(c, "save")
       [] OTHER -> Leave(c)
  /\ UNCHANGED <<row, secret, report, requests, clusterFaults>>

\* Update: refused if the resource is not the one that was read.
UpdateResource(c) ==
  /\ ReqAt(c, "update")
  /\ IF cr.version = req[c].seen.version
       THEN /\ cr' = Changed(req[c])
            /\ CASE req[c].op = "delete" -> StepTo(c, "unsecret")
                 [] req[c].op = "resources" -> StepTo(c, "save")
                 [] OTHER -> Leave(c)
       ELSE UNCHANGED cr /\ Leave(c)
  /\ UNCHANGED <<row, secret, report, requests, clusterFaults>>

\* deletePipelineConfigSecret; that it failed is ignored.
DeleteSecret(c) ==
  /\ ReqAt(c, "unsecret")
  /\ \/ secret' = NoConfig /\ UNCHANGED clusterFaults
     \/ UNCHANGED secret /\ ClusterFault
  /\ IF req[c].op = "create" THEN StepTo(c, "undo") ELSE Leave(c)
  /\ UNCHANGED <<row, cr, report, requests>>

\* The secret, the spec or the resource of a new pipeline cannot be made.
SetupFails(c) ==
  /\ req[c] # Idle /\ req[c].op = "create" /\ ClusterFault
  /\ \/ ReqAt(c, "secret") /\ StepTo(c, "undo")
     \/ ReqAt(c, "create") /\ StepTo(c, "unsecret")
  /\ UNCHANGED <<row, cr, secret, report, requests>>

\* Any other call fails, or the process dies: what was written stays.
RequestFails(c) ==
  /\ req[c] # Idle /\ ClusterFault /\ Leave(c)
  /\ UNCHANGED <<row, cr, secret, report, requests>>

-----------------------------------------------------------------------------
(* The operator *)

\* What it makes of the resource: everything it writes gives it a new version.
Reconciled(status, ann) ==
  [status |-> status, ann |-> ann, spec |-> cr.spec, version |-> cr.version + 1]

\* It starts one of the operations asked for; a termination does not wait for the others.
OperatorStarts(op) ==
  LET asked == cr.ann \cap {"stop", "terminate", "resume"} IN
  /\ op \in asked
  /\ \A other \in asked \ (IF op = "terminate" THEN {"stop", "resume"} ELSE {}) :
       cr.status # During(other)
  /\ cr' = Reconciled(During(op), cr.ann)
  /\ UNCHANGED <<row, secret, req, report, requests, clusterFaults>>

After(op) ==
  CASE op \in {"create", "resume"} -> {"Running", "Failed"}
    [] op \in {"stop", "terminate"} -> {"Stopped", "Failed"}
    [] op = "edit" -> {"Running", "Stopped", "Failed"}

OperatorFinishes(op, s) ==
  /\ op \in cr.ann \ {"delete"} /\ s \in After(op)
  /\ op \in {"stop", "terminate", "resume"} => cr.status = During(op)
  /\ cr' = Reconciled(s, cr.ann \ {op})
  /\ report' = s
  /\ UNCHANGED <<row, secret, req, requests, clusterFaults>>

OperatorDeletes ==
  /\ "delete" \in cr.ann
  /\ cr' = NoResource(cr.version + 1)
  /\ report' = "absent"
  /\ UNCHANGED <<row, secret, req, requests, clusterFaults>>

OperatorReports ==
  /\ report # "none"
  /\ row' = IF report = "absent" \/ row = NoRow THEN NoRow ELSE [row EXCEPT !.status = report]
  /\ report' = "none"
  /\ UNCHANGED <<cr, secret, req, requests, clusterFaults>>

ComponentFails ==
  /\ cr.status = "Running" /\ ClusterFault
  /\ cr' = Reconciled("Failed", cr.ann)
  /\ report' = "Failed"
  /\ UNCHANGED <<row, secret, req, requests>>

-----------------------------------------------------------------------------
K8sInit ==
  /\ row = NoRow
  /\ cr = NoResource(0)
  /\ secret = NoConfig /\ report = "none"
  /\ req = [c \in Clients |-> Idle]
  /\ requests = 0 /\ clusterFaults = 0

Serve(c) ==
  \/ Insert(c) \/ WriteRow(c) \/ SaveResources(c) \/ DeleteRow(c)
  \/ GetResource(c) \/ WriteSecret(c) \/ CreateResource(c) \/ UpdateResource(c) \/ DeleteSecret(c)

Operator ==
  \/ \E op \in Ops : \/ OperatorStarts(op)
                     \/ \E s \in {"Running", "Stopped", "Failed"} : OperatorFinishes(op, s)
  \/ OperatorDeletes \/ OperatorReports \/ ComponentFails

K8sNext ==
  \/ \E c \in Clients :
       \/ \E op \in Requests : Begin(c, op)
       \/ Serve(c) \/ SetupFails(c) \/ RequestFails(c)
  \/ Operator

K8sSpec == K8sInit /\ [][K8sNext]_k8sVars

-----------------------------------------------------------------------------
(* Properties *)

Statuses ==
  {"absent", "Created", "Running", "Stopped", "Failed", "Stopping", "Terminating", "Resuming"}
Config == [config : 0 .. MaxRequests, resources : 0 .. MaxRequests]
Row == [status : Statuses, cfg : Config]
Resource == [status : Statuses, ann : SUBSET Ops, spec : Config, version : Nat]
Request ==
  [op : Requests, seen : Resource, cfg : Config,
   pc : {"insert", "save", "status", "get", "secret", "create", "update", "unsecret", "undo"}]

\* The types of the variables.
K8sTypeOK ==
  /\ row \in Row
  /\ cr \in Resource /\ secret \in Config
  /\ req \in [Clients -> Request \cup {Idle}]
  /\ report \in {"none", "absent", "Running", "Stopped", "Failed"}
  /\ requests \in 0 .. MaxRequests /\ clusterFaults \in 0 .. MaxClusterFaults

\* Where a request may be: the orchestrator's validation holds of the resource it has read.
RequestOK(r) ==
  /\ r.pc \in {"insert", "create", "undo"} => r.op = "create"
  /\ r.pc = "status" => r.op \in {"stop", "terminate", "resume", "edit"}
  /\ r.pc = "get" => r.op # "create"
  /\ r.pc = "update" => /\ r.op # "create" /\ r.seen.status # "absent"
                        /\ r.op # "delete" => r.seen.status \in From(r.op)
  /\ r.pc = "secret" => \/ r.op = "create"
                        \/ r.op \in {"resume", "edit", "resources"} /\ r.seen.status \in From(r.op)

\* What Update compares: a resource with the version that was read is the one that was read.
VersionTells(r, resource) ==
  /\ r.seen.version <= resource.version
  /\ r.seen.version = resource.version => r.seen = resource

\* What the action properties below rest on.
ClusterInv ==
  /\ K8sTypeOK
  /\ cr.status = "absent" => cr.ann = {}
  /\ \A c \in Clients : req[c] # Idle => RequestOK(req[c]) /\ VersionTells(req[c], cr)

Quiet == \A c \in Clients : req[c] = Idle

\* A request does not make the operator forget another one, whatever both have read: an
\* operation asked for goes alone, which is the operator's doing, or gives way to a
\* termination or a deletion (Update in k8s.go, with the resourceVersion of Get).
RequestSurvives ==
  [][\A op \in cr.ann \ cr'.ann :
       \/ cr'.ann = cr.ann \ {op} /\ cr'.spec = cr.spec
       \/ cr'.ann \cap {"terminate", "delete"} # {} \/ cr'.status = "absent"]_k8sVars

\* The spec of a pipeline is not changed under its components, although it was stopped when
\* the request was accepted: the operator has not touched the resource since (ResumePipeline and
\* EditPipeline in k8s.go validate the resource that Update compares).
SpecChangesAtRest ==
  [][cr'.spec # cr.spec => {cr.status, cr'.status} \cap {"Stopped", "Failed", "absent"} # {}]_k8sVars

\* The comment in TerminatePipeline: no other operation keeps a pipeline from its termination.
\* Refuted for two clients: a stop that was validated before writes its annotation afterwards.
TerminateTakesPrecedence ==
  "terminate" \in cr.ann => cr.ann \cap Conflicting("terminate") = {}

\* A transitional status is somebody's work.  Refuted: the row is written first, and a resource
\* the operator touched between Get and Update refuses the annotation; a pipeline that is
\* Terminating in the row cannot be terminated again.
TransitionIsCarried ==
  (Quiet /\ row.status \in {"Stopping", "Terminating", "Resuming"})
    => cr.ann # {} \/ report # "none" \/ cr.status = row.status

\* Components read the secret, the operator the spec.  Refuted: the secret is written first,
\* and without a version.
SecretMatchesSpec == Quiet /\ cr.status # "absent" /\ secret # NoConfig => secret = cr.spec

\* The configuration, passwords included, goes with the pipeline.  Refuted: an edit accepted
\* before the operator has deleted the resource creates the secret anew.
NoSecretLeft == Quiet /\ cr.status = "absent" => secret = NoConfig

=============================================================================
