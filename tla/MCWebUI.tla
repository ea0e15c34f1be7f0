------------------------------- MODULE MCWebUI -------------------------------
(* The stateful parts of the web UI for TLC.  They share no state, so a behaviour *)
(* explores one part while the others rest in an initial state.                   *)
EXTENDS FilterEditor, StatusStream, PipelineTracking, Wizard, EditSession, PipelineConfig, TLC

CONSTANTS p1, p2, r1, g1, g2

VARIABLES part, input

webVars ==
  <<part, vars, streamVars, trackingVars, wizardVars, sessionVars, input, resume>>

\* One poll before a tracker's maximal duration is over.
TicksOf(op) == 2

\* Two overlapping operations on one page; one that outlives its page.
TwoOperations == {[ops |-> 2, pages |-> 0], [ops |-> 1, pages |-> 1]}
OneOperation == {[ops |-> 1, pages |-> 1]}

\* The numerals and variables of the inputs.
IsIntegral(v) == v # "1.5"
Value(v) ==
  CASE v = "x" -> 3 [] v = "y" -> 5 [] v = "z" -> 2 [] v = "len" -> 6 [] v = "0" -> 0
    [] OTHER -> 4
L == INSTANCE MCWebLogic WITH IsInteger <- IsIntegral, ValueOf <- Value

-----------------------------------------------------------------------------
(* Deployed pipelines *)

Registry == [url |-> "u", key |-> "k"]
Hour == [key |-> "id", window |-> 3600]
KafkaSource(id, topic, fields, version, registry) ==
  [id |-> id, topic |-> topic, fields |-> fields, version |-> version, registry |-> registry]
OtlpSource == KafkaSource("o", "", {}, "", NoRegistry)
PlainPipeline ==
  [source |-> "kafka", sources |-> <<KafkaSource("a", "a", {"id", "x"}, "1", NoRegistry)>>,
   conn |-> NoConnection, dedup |-> <<{}>>, filter |-> {}, outputs |-> {}, join |-> {},
   mapping |-> {[name |-> "id", column |-> "c"], [name |-> "x", column |-> "d"]},
   delay |-> 60, resources |-> [sources |-> {}, transform |-> {}]]
TransformSizes(id, storage) == {[id |-> id, size |-> "m", storage |-> storage]}
ResourcesOf(ids, owner, kind) ==
  [sources |-> IF kind = "sizes" THEN {[id |-> id, size |-> "m"] : id \in ids} ELSE {},
   transform |-> IF kind = "none" THEN {} ELSE TransformSizes(owner, IF kind = "storage" THEN "s" ELSE "")]

FilterOf(byUI) == {[not |-> byUI, text |-> "f"]}
Dedups == {Hour, [Hour EXCEPT !.window = 5400], [Hour EXCEPT !.window = 172800]}
OneSource(id, version, registry) ==
  [PlainPipeline EXCEPT !.sources = <<KafkaSource(id, "a", {"id", "x"}, version, registry)>>]
NamedPipelines ==
  {[OneSource(id, version, registry) EXCEPT !.dedup = <<dedup>>] :
     id \in {"a", "b"}, version \in {"1", "s:2", "latest"}, dedup \in {{}, {Hour}},
     registry \in {NoRegistry, Registry, [Registry EXCEPT !.key = ""]}}
TransformedPipelines ==
  {[OneSource(id, "1", NoRegistry) EXCEPT !.dedup = <<dedup>>, !.filter = filter, !.outputs = outputs,
      !.mapping = IF outputs = {} THEN @ ELSE {[name |-> "y", column |-> "c"]},
      !.resources = ResourcesOf({id}, id, kind)] :
     id \in {"a", "b"}, dedup \in {{}} \union {{c} : c \in Dedups}, outputs \in {{}, {"y"}},
     filter \in {{}, FilterOf(TRUE), FilterOf(FALSE)}, kind \in {"none", "sizes", "storage"}}
Connections ==
  {[method |-> method, tls |-> tls, user |-> IF method = "NO_AUTH" THEN "" ELSE "u",
    service |-> IF method = "GSSAPI" THEN "s" ELSE "", ca |-> IF tls THEN ca ELSE "", skip |-> tls /\ skip] :
     method \in {"NO_AUTH", "PLAIN", "GSSAPI"}, tls \in BOOLEAN, skip \in BOOLEAN, ca \in {"", "ca"}}
ConnectedPipelines ==
  {[PlainPipeline EXCEPT !.conn = conn, !.delay = delay] :
     conn \in Connections, delay \in {30, 60, 90, 5400, 129600, 172800}}
OtlpPipelines ==
  {[PlainPipeline EXCEPT !.source = "otlp.logs", !.sources = <<OtlpSource>>, !.dedup = <<dedup>>, !.filter = filter,
                 !.resources = ResourcesOf({}, "o", kind)] :
     dedup \in {{}, {Hour}, {[Hour EXCEPT !.window = 5400]}}, filter \in {{}, FilterOf(TRUE)}, kind \in {"none", "storage"}}

JoinedBy(leftId, window, outputs) ==
  [left |-> [id |-> leftId, key |-> "id", window |-> window],
   right |-> [id |-> IF leftId = "a" THEN "b" ELSE "a", key |-> "id", window |-> 3600], fields |-> outputs]
JoinOutputs ==
  {{[id |-> "a", name |-> "x", out |-> "x"], [id |-> id, name |-> name, out |-> out]} :
     id \in {"a", "b"}, name \in {"id", "z"}, out \in {"id", "z", "out"}}
TwoSources(fields, version, r, q) ==
  [PlainPipeline EXCEPT !.sources = <<KafkaSource("a", "a", {"id", "x"}, "1", r),
                                      KafkaSource("b", "b", fields, version, q)>>]
JoinedPipeline(d, id, window, outputs, dedups) ==
  [d EXCEPT !.dedup = dedups, !.join = {JoinedBy(id, window, outputs)},
            !.mapping = {[name |-> f.out, column |-> f.out] : f \in outputs}]
Pairs == {<<a, b>> : a, b \in {{}, {Hour}}}
AttributedPipelines ==
  {JoinedPipeline(TwoSources(fields, version, r, q), id, 60, outputs, dedups) :
     fields \in {{"id", "z"}, {"id", "x", "z"}}, version \in {"1", "s:2"}, outputs \in JoinOutputs,
     r \in {NoRegistry, Registry}, q \in {NoRegistry, Registry}, id \in {"a", "b"}, dedups \in Pairs}
WindowedPipelines ==
  {[JoinedPipeline(TwoSources({"id", "z"}, "1", r, r), id, window, outputs, dedups)
      EXCEPT !.resources = ResourcesOf({"a", "b"}, owner, kind)] :
     r \in {NoRegistry, Registry}, id \in {"a", "b"}, window \in {60, 5400}, dedups \in Pairs, owner \in {"a", "b"},
     outputs \in {{[id |-> "a", name |-> "x", out |-> "x"], [id |-> "b", name |-> "z", out |-> "z"]}},
     kind \in {"none", "sizes", "storage"}}

Deployed ==
  {d \in UNION {NamedPipelines, TransformedPipelines, ConnectedPipelines, OtlpPipelines,
               AttributedPipelines, WindowedPipelines} : IsDeployed(d)}
OpenedBefore ==
  {PlainPipeline, [PlainPipeline EXCEPT !.dedup = <<{Hour}>>],
   [PlainPipeline EXCEPT !.sources[1].fields = {"id"}, !.mapping = {[name |-> "id", column |-> "c"]}],
   [PlainPipeline EXCEPT !.source = "otlp.logs", !.sources = <<OtlpSource>>, !.dedup = <<{Hour}>>],
   CHOOSE d \in AttributedPipelines : Accepted(d) /\ d.dedup[1] # {} /\ d.sources[1].registry = Registry}
Reopenings == [before: OpenedBefore, deployed: Deployed, table: {{}, {"c", "d", "x", "z"}, {"c"}}, live: BOOLEAN]

-----------------------------------------------------------------------------
Parts == {"filter", "stream", "tracking", "wizard", "session", "algorithms", "resume"}

WebInit ==
  /\ part \in Parts
  /\ Init /\ StreamInit /\ TrackingInit /\ WizardInit /\ SessionInit
  /\ IF part = "algorithms" THEN L!Init ELSE input = L!Nothing
  /\ IF part = "resume" THEN \E r \in Reopenings : resume = {r} ELSE resume = {}
  /\ part # "tracking" => (\A p \in TrackedPipelines : backend[p] = "active") /\ left.pages = 1
  /\ part # "stream" => ~tab.hidden
  /\ part # "wizard" => topicCount = 1

\* The properties of a session are about undisturbed ones.
WebNext ==
  /\ part' = part
  /\ input' = input /\ resume' = resume
  /\ \/ part = "filter" /\ Next /\ UNCHANGED <<streamVars, trackingVars, wizardVars, sessionVars>>
     \/ part = "stream" /\ StreamNext /\ UNCHANGED <<vars, trackingVars, wizardVars, sessionVars>>
     \/ part = "tracking" /\ TrackingNext /\ UNCHANGED <<vars, streamVars, wizardVars, sessionVars>>
     \/ part = "wizard" /\ WizardNext
        /\ UNCHANGED <<vars, streamVars, trackingVars, sessionVars>>
     \/ part = "session" /\ ~disturbed /\ SessionNext
        /\ UNCHANGED <<vars, streamVars, trackingVars, wizardVars>>

WebSpec == WebInit /\ [][WebNext]_webVars

\* A part that rests has nothing its fairness would make it do.
FairWebSpec == WebSpec /\ Fairness /\ StreamFairness /\ TrackingFairness

\* Connections are interchangeable.
Symmetric == Permutations(Conns)

-----------------------------------------------------------------------------
\* What the backend is sent means what the user built, as a tree or as flat conditions; what is
\* shown of an expression reads as that expression; what is typed is taken over as it was typed;
\* and opening a saved filter rebuilds one that means the same and is still valid (groupToExpr,
\* migrateToTreeStructure, arithmeticExpressionToDisplayString, parseArithmeticExpression,
\* normalizeNumericInput, parseExprToFilterTree, validateRuleLocally).
FilterKeepsMeaning == part = "algorithms" => L!FilterKeepsMeaning

\* A transformation that passes validation is deployed and survives the reopening of its
\* pipeline, within what the readers can read (fieldToExpr, mapTransformToField,
\* hydrateTransformation).
TransformKeepsMeaning == part = "algorithms" => L!TransformKeepsMeaning

\* "For complex expressions that can't be parsed (nested calls, ternaries, etc.), we store
\* the raw expression" (v2.ts:103).  Refuted: nested calls become field names.
TransformReopens == part = "algorithms" => L!TransformReopens
=============================================================================
