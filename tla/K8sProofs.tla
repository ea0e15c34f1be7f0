------------------------------- MODULE K8sProofs -------------------------------
(***************************************************************************)
(* The Kubernetes orchestrator, for any number of clients and requests:    *)
(* what the optimistic writes of orchestrator/k8s.go guarantee about the   *)
(* custom resource.  Both action properties follow from one invariant, that *)
(* a resource of the version a request has read is the resource it has     *)
(* read, and validated.                                                    *)
(***************************************************************************)
EXTENDS K8sPipeline, TLAPS

\* A request that goes on has everything but its place.
LEMMA Stepping ==
  ASSUME NEW c \in Clients, NEW pc, K8sTypeOK, req[c] # Idle, StepTo(c, pc),
         pc \in {"save", "status", "get", "secret", "create", "update", "unsecret", "undo"}
  PROVE  /\ req' \in [Clients -> Request \cup {Idle}]
         /\ req'[c] = [req[c] EXCEPT !.pc = pc] /\ req'[c] # Idle
         /\ \A d \in Clients \ {c} : req'[d] = req[d]
  BY DEF StepTo, K8sTypeOK, Request, Idle

\* A request that ends is idle.
LEMMA Leaving ==
  ASSUME NEW c \in Clients, K8sTypeOK, Leave(c)
  PROVE  /\ req' \in [Clients -> Request \cup {Idle}]
         /\ req'[c] = Idle /\ \A d \in Clients \ {c} : req'[d] = req[d]
  BY DEF Leave, K8sTypeOK

\* What a request saves is a configuration.
LEMMA RequestedIsConfig ==
  ASSUME NEW op \in Requests, K8sTypeOK, requests < MaxRequests
  PROVE  Requested(op) \in Config
  BY ClusterAssumption DEF Requested, K8sTypeOK, Row, Config

\* What a request makes of a resource is a resource, with the next version.
LEMMA ChangedIsResource ==
  ASSUME NEW r \in Request
  PROVE  /\ Changed(r) \in Resource
         /\ Changed(r).version = r.seen.version + 1
         /\ Changed(r).status = r.seen.status
         /\ Changed(r).ann = (r.seen.ann \ Conflicting(r.op)) \cup {Annotation(r.op)}
         /\ Changed(r).spec # r.seen.spec => r.op \in {"resume", "edit", "resources"}
<1>1. Annotation(r.op) \in Ops
  BY DEF Annotation, Request, Requests, Ops
<1>2. r.seen \in Resource /\ r.cfg \in Config
  BY DEF Request
<1>3. QED
  BY <1>1, <1>2 DEF Changed, Resource

-----------------------------------------------------------------------------
\* Steps that leave the resource alone and concern one request.
LEMMA OneRequest ==
  ASSUME NEW c \in Clients, ClusterInv, cr' = cr, K8sTypeOK',
         \A d \in Clients \ {c} : req'[d] = req[d],
         req'[c] # Idle => RequestOK(req'[c]) /\ VersionTells(req'[c], cr)
  PROVE  ClusterInv'
  BY DEF ClusterInv, VersionTells, RequestOK

\* Those that move it to a place it may be in.
LEMMA Moves ==
  ASSUME NEW c \in Clients, NEW pc, ClusterInv, req[c] # Idle, StepTo(c, pc),
         pc \in {"save", "status", "get", "secret", "create", "update", "unsecret", "undo"},
         row' \in Row, secret' \in Config, UNCHANGED <<cr, report, requests>>,
         clusterFaults' \in 0 .. MaxClusterFaults,
         RequestOK([req[c] EXCEPT !.pc = pc])
  PROVE  ClusterInv'
<1>0. K8sTypeOK /\ req[c] \in Request
  BY DEF ClusterInv, K8sTypeOK
<1>1. req'[c] = [req[c] EXCEPT !.pc = pc] /\ req'[c] # Idle
  BY <1>0, Stepping
<1>2. K8sTypeOK'
  BY <1>0, Stepping DEF K8sTypeOK
<1>3. VersionTells(req'[c], cr)
  <2>1. req'[c].seen = req[c].seen
    BY <1>0, <1>1 DEF Request
  <2> QED
    BY <2>1 DEF VersionTells, ClusterInv
<1> QED
  BY <1>0, <1>1, <1>2, <1>3, Stepping, OneRequest

\* Those that end it.
LEMMA Ends ==
  ASSUME NEW c \in Clients, ClusterInv, Leave(c),
         row' \in Row, secret' \in Config, UNCHANGED <<cr, report, requests>>,
         clusterFaults' \in 0 .. MaxClusterFaults
  PROVE  ClusterInv'
<1>1. K8sTypeOK'
  BY Leaving DEF ClusterInv, K8sTypeOK
<1> QED
  BY <1>1, Leaving, OneRequest DEF ClusterInv

\* Steps that give the resource its next version and leave the requests alone, or end one.
LEMMA NewVersion ==
  ASSUME ClusterInv, K8sTypeOK', cr'.version = cr.version + 1,
         cr'.status = "absent" => cr'.ann = {},
         \A d \in Clients : req'[d] # Idle =>
           req[d] # Idle /\ req'[d].seen = req[d].seen /\ RequestOK(req'[d])
  PROVE  ClusterInv'
<1>1. \A d \in Clients : req'[d] # Idle => VersionTells(req'[d], cr')
  <2> SUFFICES ASSUME NEW d \in Clients, req'[d] # Idle PROVE VersionTells(req'[d], cr')
    OBVIOUS
  <2>1. req[d] \in Request /\ VersionTells(req[d], cr) /\ cr.version \in Nat
    BY DEF ClusterInv, K8sTypeOK, Resource
  <2>2. req[d].seen.version \in Nat
    BY <2>1 DEF Request, Resource
  <2>3. req[d].seen.version < cr'.version /\ cr'.version \in Nat
    BY <2>1, <2>2 DEF VersionTells
  <2>4. req'[d].seen.version < cr'.version /\ req'[d].seen.version # cr'.version
    BY <2>2, <2>3
  <2> QED
    BY <2>2, <2>3, <2>4 DEF VersionTells
<1>2. QED
  BY <1>1 DEF ClusterInv, RequestOK

-----------------------------------------------------------------------------
LEMMA ClusterInit == K8sInit => ClusterInv
<1> SUFFICES ASSUME K8sInit PROVE ClusterInv
  OBVIOUS
<1>1. NoConfig \in Config
  BY ClusterAssumption DEF NoConfig, Config
<1>2. NoResource(0) \in Resource
  BY <1>1 DEF NoResource, Resource, Statuses
<1>3. K8sTypeOK
  BY <1>1, <1>2, ClusterAssumption DEF K8sInit, K8sTypeOK, NoRow, Row, Statuses
<1>4. \A c \in Clients : req[c] = Idle
  BY DEF K8sInit
<1>5. QED
  BY <1>3, <1>4 DEF ClusterInv, K8sInit, NoResource

\* The steps of a request that only concern the row, the secret and its own place.
LEMMA RequestSteps ==
  ASSUME NEW c \in Clients, ClusterInv,
         \/ \E op \in Requests : Begin(c, op)
         \/ Insert(c) \/ WriteRow(c) \/ SaveResources(c) \/ DeleteRow(c)
         \/ GetResource(c) \/ WriteSecret(c) \/ DeleteSecret(c)
         \/ SetupFails(c) \/ RequestFails(c)
  PROVE  ClusterInv'
<1>0. /\ K8sTypeOK /\ NoConfig \in Config /\ row \in Row /\ secret \in Config
      /\ clusterFaults \in 0 .. MaxClusterFaults
      /\ ClusterFault => clusterFaults' \in 0 .. MaxClusterFaults
  BY ClusterAssumption DEF ClusterInv, NoConfig, Config, K8sTypeOK, ClusterFault
<1>00. req[c] # Idle => req[c] \in Request /\ RequestOK(req[c])
  BY <1>0 DEF K8sTypeOK, ClusterInv
<1>1. ASSUME NEW op \in Requests, Begin(c, op) PROVE ClusterInv'
  <2>1. Requested(op) \in Config
    BY <1>0, <1>1, RequestedIsConfig DEF Begin
  <2>2. /\ req'[c].seen = cr /\ RequestOK(req'[c]) /\ req'[c] \in Request
    BY <1>0, <1>1, <2>1 DEF Begin, K8sTypeOK, Request, RequestOK, Requests, Ops
  <2>3. K8sTypeOK'
    BY <1>0, <1>1, <2>2, ClusterAssumption DEF Begin, K8sTypeOK
  <2>4. VersionTells(req'[c], cr)
    BY <1>0, <2>2 DEF VersionTells, K8sTypeOK, Resource
  <2> QED
    BY <1>0, <1>1, <2>2, <2>3, <2>4, OneRequest DEF Begin, K8sTypeOK
<1>2. ASSUME Insert(c) PROVE ClusterInv'
  <2>0. req[c] \in Request /\ req[c] # Idle /\ req[c].op = "create"
    BY <1>00, <1>2 DEF Insert, ReqAt, RequestOK
  <2>1. row' \in Row
    BY <1>0, <1>2, <2>0 DEF Insert, Row, Statuses, Request
  <2>2. RequestOK([req[c] EXCEPT !.pc = "secret"])
    BY <2>0 DEF RequestOK, Request
  <2> QED
    BY <1>0, <1>2, <2>0, <2>1, <2>2, Moves, Ends DEF Insert
<1>3. ASSUME WriteRow(c) PROVE ClusterInv'
  <2>0. req[c] \in Request /\ req[c] # Idle /\ RequestOK(req[c]) /\ req[c].pc = "status"
    BY <1>00, <1>3 DEF WriteRow, ReqAt
  <2>1. row' \in Row
    BY <1>0, <1>3, <2>0 DEF WriteRow, Row, Statuses, Request, Config, RequestOK, During
  <2>2. RequestOK([req[c] EXCEPT !.pc = "get"])
    BY <2>0 DEF RequestOK, Request
  <2> QED
    BY <1>0, <1>3, <2>0, <2>1, <2>2, Moves, Ends DEF WriteRow
<1>4. ASSUME SaveResources(c) PROVE ClusterInv'
  <2>0. req[c] \in Request /\ req[c] # Idle
    BY <1>00, <1>4 DEF SaveResources, ReqAt
  <2>1. row' \in Row
    BY <1>0, <1>4, <2>0 DEF SaveResources, Row, Request, Config
  <2>2. req[c].op = "edit" => RequestOK([req[c] EXCEPT !.pc = "status"])
    BY <2>0 DEF RequestOK, Request
  <2> QED
    BY <1>0, <1>4, <2>0, <2>1, <2>2, Moves, Ends DEF SaveResources
<1>5. ASSUME DeleteRow(c) PROVE ClusterInv'
  <2>1. NoRow \in Row
    BY <1>0 DEF NoRow, Row, Statuses
  <2> QED
    BY <1>0, <1>5, <2>1, Ends DEF DeleteRow
<1>6. ASSUME GetResource(c) PROVE ClusterInv'
  <2>0. req[c] \in Request /\ req[c] # Idle /\ RequestOK(req[c]) /\ req[c].pc = "get"
    BY <1>00, <1>6 DEF GetResource, ReqAt
  <2>1. CASE Leave(c)
    BY <1>0, <1>6, <2>1, Ends DEF GetResource
  <2>2. CASE ~Leave(c)
    <3> DEFINE pc == IF req[c].op \in {"resume", "edit", "resources"} THEN "secret" ELSE "update"
               r == [req[c] EXCEPT !.seen = cr, !.pc = pc]
    <3>1. /\ req' = [req EXCEPT ![c] = r] /\ UNCHANGED <<row, cr, secret, report, requests, clusterFaults>>
          /\ cr.status # "absent" /\ (req[c].op # "delete" => cr.status \in From(req[c].op))
      BY <1>6, <2>2 DEF GetResource
    <3>2. r \in Request /\ r.op = req[c].op /\ r.seen = cr /\ r.pc = pc
      BY <1>0, <2>0 DEF Request, K8sTypeOK
    <3>3. RequestOK(r)
      BY <2>0, <3>1, <3>2 DEF RequestOK
    <3>4. VersionTells(r, cr)
      BY <1>0, <3>2 DEF VersionTells, K8sTypeOK, Resource
    <3>5. req'[c] = r /\ (\A d \in Clients \ {c} : req'[d] = req[d]) /\ K8sTypeOK'
      BY <1>0, <3>1, <3>2 DEF K8sTypeOK
    <3> HIDE DEF r
    <3> QED
      BY <3>1, <3>3, <3>4, <3>5, OneRequest
  <2> QED
    BY <2>1, <2>2
<1>7. ASSUME WriteSecret(c) PROVE ClusterInv'
  <2>0. req[c] \in Request /\ req[c] # Idle /\ RequestOK(req[c]) /\ req[c].pc = "secret"
    BY <1>00, <1>7 DEF WriteSecret, ReqAt
  <2>1. secret' \in Config
    BY <1>7, <2>0 DEF WriteSecret, Request
  <2>2. /\ req[c].op = "create" => RequestOK([req[c] EXCEPT !.pc = "create"])
        /\ req[c].op # "create" => RequestOK([req[c] EXCEPT !.pc = "update"])
    BY <2>0 DEF RequestOK, Request, From
  <2> QED
    BY <1>0, <1>7, <2>0, <2>1, <2>2, Moves DEF WriteSecret
<1>8. ASSUME DeleteSecret(c) PROVE ClusterInv'
  <2>0. req[c] \in Request /\ req[c] # Idle
    BY <1>00, <1>8 DEF DeleteSecret, ReqAt
  <2>1. req[c].op = "create" => RequestOK([req[c] EXCEPT !.pc = "undo"])
    BY <2>0 DEF RequestOK, Request
  <2> QED
    BY <1>0, <1>8, <2>0, <2>1, Moves, Ends DEF DeleteSecret
<1>9. ASSUME SetupFails(c) PROVE ClusterInv'
  <2>0. req[c] \in Request /\ req[c] # Idle /\ req[c].op = "create"
    BY <1>00, <1>9 DEF SetupFails, ReqAt
  <2>1. /\ RequestOK([req[c] EXCEPT !.pc = "undo"]) /\ RequestOK([req[c] EXCEPT !.pc = "unsecret"])
    BY <2>0 DEF RequestOK, Request
  <2> QED
    BY <1>0, <1>9, <2>0, <2>1, Moves DEF SetupFails
<1>10. ASSUME RequestFails(c) PROVE ClusterInv'
  BY <1>0, <1>10, Ends DEF RequestFails
<1> QED
  BY <1>1, <1>2, <1>3, <1>4, <1>5, <1>6, <1>7, <1>8, <1>9, <1>10

\* The steps that write the resource.
LEMMA ResourceSteps ==
  ASSUME ClusterInv,
         \/ \E c \in Clients : CreateResource(c) \/ UpdateResource(c)
         \/ Operator
  PROVE  ClusterInv'
<1>0. /\ K8sTypeOK /\ NoConfig \in Config /\ cr \in Resource /\ cr.version \in Nat
      /\ clusterFaults \in 0 .. MaxClusterFaults /\ row \in Row /\ secret \in Config
      /\ cr.spec \in Config /\ cr.ann \in SUBSET Ops
      /\ ClusterFault => clusterFaults' \in 0 .. MaxClusterFaults
  BY ClusterAssumption DEF ClusterInv, NoConfig, Config, K8sTypeOK, ClusterFault, Resource
<1>00. \A c \in Clients : req[c] # Idle => req[c] \in Request /\ RequestOK(req[c])
  BY <1>0 DEF K8sTypeOK, ClusterInv
<1>1. ASSUME NEW c \in Clients, CreateResource(c) PROVE ClusterInv'
  <2>0. req[c] \in Request /\ req[c] # Idle /\ RequestOK(req[c]) /\ req[c].op = "create"
    BY <1>00, <1>1 DEF CreateResource, ReqAt, RequestOK
  <2>1. CASE cr.status = "absent"
    <3>1. cr' \in Resource /\ cr'.version = cr.version + 1 /\ cr'.status # "absent"
      BY <1>0, <1>1, <2>0, <2>1 DEF CreateResource, Resource, Request, Statuses, Ops
    <3>2. K8sTypeOK'
      BY <1>0, <1>1, <2>1, <3>1, Leaving DEF CreateResource, K8sTypeOK
    <3> QED
      BY <1>0, <1>00, <1>1, <2>1, <3>1, <3>2, Leaving, NewVersion DEF CreateResource
  <2>2. CASE cr.status # "absent"
    <3>1. RequestOK([req[c] EXCEPT !.pc = "unsecret"])
      BY <2>0 DEF RequestOK, Request
    <3> QED
      BY <1>0, <1>1, <2>0, <2>2, <3>1, Moves DEF CreateResource
  <2> QED
    BY <2>1, <2>2
<1>2. ASSUME NEW c \in Clients, UpdateResource(c) PROVE ClusterInv'
  <2>0. req[c] \in Request /\ req[c] # Idle /\ RequestOK(req[c]) /\ req[c].pc = "update"
    BY <1>00, <1>2 DEF UpdateResource, ReqAt
  <2>1. CASE cr.version = req[c].seen.version
    <3>1. req[c].seen = cr /\ cr' = Changed(req[c])
      BY <1>2, <2>0, <2>1 DEF UpdateResource, ClusterInv, VersionTells
    <3>2. cr' \in Resource /\ cr'.version = cr.version + 1 /\ cr'.status = cr.status
      BY <2>0, <3>1, ChangedIsResource
    <3>3. cr'.status # "absent"
      BY <2>0, <3>1, <3>2 DEF RequestOK
    <3>4. /\ req[c].op = "delete" => StepTo(c, "unsecret")
          /\ req[c].op = "resources" => StepTo(c, "save")
          /\ req[c].op \notin {"delete", "resources"} => Leave(c)
          /\ UNCHANGED <<row, secret, report, requests, clusterFaults>>
      BY <1>2, <2>1 DEF UpdateResource
    <3>5. K8sTypeOK'
      BY <1>0, <2>0, <3>2, <3>4, Stepping, Leaving DEF K8sTypeOK
    <3>6. /\ RequestOK([req[c] EXCEPT !.pc = "unsecret"]) /\ RequestOK([req[c] EXCEPT !.pc = "save"])
          /\ \A pc : [req[c] EXCEPT !.pc = pc].seen = req[c].seen
      BY <2>0 DEF RequestOK, Request
    <3>7. /\ \A d \in Clients \ {c} : req'[d] = req[d]
          /\ req'[c] # Idle => req'[c].seen = req[c].seen /\ RequestOK(req'[c])
      BY ZenonT(40), <1>0, <2>0, <3>4, <3>6, Stepping, Leaving
    <3> QED
      BY <1>00, <2>0, <3>2, <3>3, <3>5, <3>7, NewVersion
  <2>2. CASE cr.version # req[c].seen.version
    BY <1>0, <1>2, <2>2, Ends DEF UpdateResource
  <2> QED
    BY <2>1, <2>2
<1>3. ASSUME NEW op \in Ops, OperatorStarts(op) PROVE ClusterInv'
  <2>1. op \in {"stop", "terminate", "resume"} /\ op \in cr.ann
    BY <1>3 DEF OperatorStarts
  <2>2. cr' \in Resource /\ cr'.version = cr.version + 1 /\ cr'.status # "absent"
    BY <1>0, <1>3, <2>1 DEF OperatorStarts, Reconciled, Resource, During, Statuses
  <2>3. K8sTypeOK' /\ req' = req
    BY <1>0, <1>3, <2>2 DEF OperatorStarts, K8sTypeOK
  <2> QED
    BY <1>00, <2>2, <2>3, NewVersion
<1>4. ASSUME NEW op \in Ops, NEW s \in {"Running", "Stopped", "Failed"}, OperatorFinishes(op, s)
      PROVE  ClusterInv'
  <2>1. cr' \in Resource /\ cr'.version = cr.version + 1 /\ cr'.status # "absent"
    BY <1>0, <1>4 DEF OperatorFinishes, Reconciled, Resource, Statuses
  <2>2. K8sTypeOK' /\ req' = req
    BY <1>0, <1>4, <2>1 DEF OperatorFinishes, K8sTypeOK
  <2> QED
    BY <1>00, <2>1, <2>2, NewVersion
<1>5. ASSUME OperatorDeletes PROVE ClusterInv'
  <2>1. cr' \in Resource /\ cr'.version = cr.version + 1 /\ cr'.ann = {}
    BY <1>0, <1>5 DEF OperatorDeletes, NoResource, Resource, Statuses
  <2>2. K8sTypeOK' /\ req' = req
    BY <1>0, <1>5, <2>1 DEF OperatorDeletes, K8sTypeOK
  <2> QED
    BY <1>00, <2>1, <2>2, NewVersion
<1>6. ASSUME OperatorReports PROVE ClusterInv'
  <2>1. row' \in Row
    BY <1>0, <1>6 DEF OperatorReports, K8sTypeOK, NoRow, Row, Statuses
  <2>2. K8sTypeOK' /\ UNCHANGED <<cr, req>>
    BY <1>0, <1>6, <2>1 DEF OperatorReports, K8sTypeOK
  <2> QED
    BY <2>2 DEF ClusterInv, VersionTells, RequestOK
<1>7. ASSUME ComponentFails PROVE ClusterInv'
  <2>1. cr' \in Resource /\ cr'.version = cr.version + 1 /\ cr'.status # "absent"
    BY <1>0, <1>7 DEF ComponentFails, Reconciled, Resource, Statuses
  <2>2. K8sTypeOK' /\ req' = req
    BY <1>0, <1>7, <2>1 DEF ComponentFails, K8sTypeOK
  <2> QED
    BY <1>00, <2>1, <2>2, NewVersion
<1> QED
  BY <1>1, <1>2, <1>3, <1>4, <1>5, <1>6, <1>7 DEF Operator

LEMMA ClusterStep == ClusterInv /\ [K8sNext]_k8sVars => ClusterInv'
<1> SUFFICES ASSUME ClusterInv, [K8sNext]_k8sVars PROVE ClusterInv'
  OBVIOUS
<1>1. CASE UNCHANGED k8sVars
  BY <1>1 DEF k8sVars, ClusterInv, K8sTypeOK, RequestOK, VersionTells
<1>2. CASE K8sNext
  BY <1>2, RequestSteps, ResourceSteps DEF K8sNext, Serve
<1> QED
  BY <1>1, <1>2

\* A request is validated against the resource it will overwrite: whatever version a client has
\* read, Update takes effect only while the resource is that one (Get and Update in k8s.go).
THEOREM ClusterInvariant == K8sSpec => []ClusterInv
<1> QED
  BY ClusterInit, ClusterStep, PTL DEF K8sSpec

\* The variables keep their types.
THEOREM ClusterTypeCorrect == K8sSpec => []K8sTypeOK
<1>1. ClusterInv => K8sTypeOK
  BY DEF ClusterInv
<1> QED
  BY <1>1, ClusterInvariant, PTL

-----------------------------------------------------------------------------
\* The resource after a request has updated it.
LEMMA Updated ==
  ASSUME NEW c \in Clients, ClusterInv, UpdateResource(c), cr' # cr
  PROVE  /\ req[c] \in Request /\ cr' = Changed(req[c]) /\ req[c].seen = cr
         /\ req[c].op # "delete" => cr.status \in From(req[c].op)
         /\ req[c].op # "create"
<1>1. req[c] \in Request /\ RequestOK(req[c]) /\ VersionTells(req[c], cr) /\ req[c].pc = "update"
  BY DEF UpdateResource, ReqAt, ClusterInv, K8sTypeOK
<1> QED
  BY <1>1 DEF UpdateResource, VersionTells, RequestOK

\* The other steps that change it are the operator's, or make it.
LEMMA Writers ==
  ASSUME ClusterInv, K8sNext, cr' # cr
  PROVE  \/ \E c \in Clients : UpdateResource(c)
         \/ cr.status = "absent" /\ cr.ann = {}
         \/ cr'.spec = cr.spec /\ (cr'.ann = cr.ann \/ \E op \in Ops : cr'.ann = cr.ann \ {op})
         \/ cr'.status = "absent"
<1>0. cr \in Resource
  BY DEF ClusterInv, K8sTypeOK
<1>1. ASSUME NEW c \in Clients, \/ \E op \in Requests : Begin(c, op)
                                \/ Insert(c) \/ WriteRow(c) \/ SaveResources(c) \/ DeleteRow(c)
                                \/ GetResource(c) \/ WriteSecret(c) \/ DeleteSecret(c)
                                \/ SetupFails(c) \/ RequestFails(c)
      PROVE  cr' = cr
  BY <1>1 DEF Begin, Insert, WriteRow, SaveResources, DeleteRow, GetResource, WriteSecret,
              DeleteSecret, SetupFails, RequestFails
<1>2. ASSUME NEW c \in Clients, CreateResource(c) PROVE cr.status = "absent" /\ cr.ann = {}
  BY <1>2 DEF CreateResource, ClusterInv
<1>3. ASSUME NEW op \in Ops, OperatorStarts(op) PROVE cr'.spec = cr.spec /\ cr'.ann = cr.ann
  BY <1>0, <1>3 DEF OperatorStarts, Reconciled, Resource
<1>4. ASSUME NEW op \in Ops, NEW s \in {"Running", "Stopped", "Failed"}, OperatorFinishes(op, s)
      PROVE  cr'.spec = cr.spec /\ cr'.ann = cr.ann \ {op}
  BY <1>0, <1>4 DEF OperatorFinishes, Reconciled, Resource
<1>5. OperatorDeletes => cr'.status = "absent"
  BY DEF OperatorDeletes, NoResource
<1>6. OperatorReports => cr' = cr
  BY DEF OperatorReports
<1>7. ComponentFails => cr'.spec = cr.spec /\ cr'.ann = cr.ann
  BY <1>0 DEF ComponentFails, Reconciled, Resource
<1> QED
  BY <1>1, <1>2, <1>3, <1>4, <1>5, <1>6, <1>7 DEF K8sNext, Serve, Operator

\* An annotation leaves the resource because the operator has carried it out, or gives way to a
\* termination or a deletion: no request withdraws another's, whatever both have read.
THEOREM RequestsSurvive == K8sSpec => RequestSurvives
<1>1. ClusterInv /\ [K8sNext]_k8sVars =>
        [\A op \in cr.ann \ cr'.ann :
           \/ cr'.ann = cr.ann \ {op} /\ cr'.spec = cr.spec
           \/ cr'.ann \cap {"terminate", "delete"} # {} \/ cr'.status = "absent"]_k8sVars
  <2> SUFFICES ASSUME ClusterInv, K8sNext, NEW op \in cr.ann \ cr'.ann
               PROVE  \/ cr'.ann = cr.ann \ {op} /\ cr'.spec = cr.spec
                      \/ cr'.ann \cap {"terminate", "delete"} # {} \/ cr'.status = "absent"
    OBVIOUS
  <2>1. cr' # cr
    OBVIOUS
  <2>2. ASSUME NEW c \in Clients, UpdateResource(c) PROVE cr'.ann \cap {"terminate", "delete"} # {}
    <3>1. /\ op \in Conflicting(req[c].op) /\ Annotation(req[c].op) \in cr'.ann
      BY <2>1, <2>2, Updated DEF Changed
    <3> QED
      BY <3>1 DEF Conflicting, Annotation
  <2> QED
    BY <2>1, <2>2, Writers
<1> QED
  BY <1>1, ClusterInvariant, PTL DEF K8sSpec, RequestSurvives

\* The spec is changed by a request that has read a resource at rest, which it still is.
THEOREM SpecIsChangedAtRest == K8sSpec => SpecChangesAtRest
<1>1. ClusterInv /\ [K8sNext]_k8sVars =>
        [cr'.spec # cr.spec => {cr.status, cr'.status} \cap {"Stopped", "Failed", "absent"} # {}]_k8sVars
  <2> SUFFICES ASSUME ClusterInv, K8sNext, cr'.spec # cr.spec
               PROVE  {cr.status, cr'.status} \cap {"Stopped", "Failed", "absent"} # {}
    OBVIOUS
  <2>1. ASSUME NEW c \in Clients, UpdateResource(c) PROVE cr.status \in {"Stopped", "Failed"}
    BY <2>1, Updated, ChangedIsResource DEF From
  <2> QED
    BY <2>1, Writers
<1> QED
  BY <1>1, ClusterInvariant, PTL DEF K8sSpec, SpecChangesAtRest

=============================================================================
