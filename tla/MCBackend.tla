----------------------------- MODULE MCBackend -----------------------------
(* The OTLP receiver, the deduplicator, the join and the control plane of the cluster  *)
(* they run in for TLC.  They share streams only, which each module has for itself, so *)
(* a behaviour explores one of them while the others rest in their initial states.     *)
EXTENDS Dedup, Join, K8sPipeline, OtlpReceiver, TLC

CONSTANT Stages    \* those explored

VARIABLE stage

stageVars == <<stage, vars, joinVars, k8sVars, receiverVars>>

\* Three events of one key, of which the transformation refuses the first, or the filter the
\* first and the transformation the second.  The properties do not tell the two apart.
OneKey == [m \in Msgs |-> "a"]
FirstRefused == [m \in Msgs |-> IF m = 1 THEN "transformError" ELSE "good"]
BothRefuse ==
  [m \in Msgs |-> IF m = 1 THEN "filterError" ELSE IF m = 2 THEN "transformError" ELSE "good"]
F == INSTANCE Dedup WITH Outcome <- BothRefuse

\* An event of another key between two of one; events the filter refuses.
TwoKeys == [m \in Msgs |-> IF m = 2 THEN "b" ELSE "a"]
AllFiltered == [m \in Msgs |-> "filterError"]

\* All events of one join key.
SharedKey == [e \in Events |-> CHOOSE k \in JoinKeys : TRUE]

\* Calls whose first messages have one id.  The second configuration deduplicates.
SecondDeduplicates == <<FALSE, TRUE>>
OneIdShared == [c \in Calls |-> [m \in Batch |-> IF m = 1 THEN "id" ELSE c]]

\* A call by itself, which fails more often, of whose messages one lacks the field.
LastIdMissing == [c \in Calls |-> [m \in Batch |-> IF m = BatchSize THEN "" ELSE "id"]]
L == INSTANCE OtlpReceiver
  WITH ChunkSize <- 2, MaxAttempts <- 3, FieldValue <- LastIdMissing,
       MaxCallFaults <- 3, MaxCacheExpiries <- 1

LoneCall ==
  \/ \E c \in Calls :
       /\ \A d \in Calls \ {c} : At(d, "idle")
       /\ L!CallStep(c) \/ \E m \in Batch : L!StreamStep(c, m)
  \/ L!CacheExpires \/ L!ConfigChanges

BackendInit == stage \in Stages /\ Init /\ JoinInit /\ K8sInit /\ ReceiverInit

BackendNext ==
  /\ stage' = stage
  /\ \/ /\ stage = "dedup" /\ Next
        /\ UNCHANGED <<joinVars, k8sVars, receiverVars>>
     \/ /\ stage = "filter" /\ F!Next
        /\ UNCHANGED <<joinVars, k8sVars, receiverVars>>
     \/ /\ stage = "join" /\ JoinNext
        /\ UNCHANGED <<vars, k8sVars, receiverVars>>
     \/ /\ stage = "cluster" /\ K8sNext
        /\ UNCHANGED <<vars, joinVars, receiverVars>>
     \/ /\ stage = "receiver" /\ ReceiverNext
        /\ UNCHANGED <<vars, joinVars, k8sVars>>
     \/ /\ stage = "call" /\ LoneCall
        /\ UNCHANGED <<vars, joinVars, k8sVars>>

BackendSpec == BackendInit /\ [][BackendNext]_stageVars

Symmetric == Permutations(Clients) \cup Permutations(Calls)

=============================================================================
