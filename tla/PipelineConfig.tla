---------------------------- MODULE PipelineConfig ----------------------------
(***************************************************************************)
(* What the web UI makes of a deployed pipeline and what it deploys again:   *)
(* the response of the API goes through V3PipelineAdapter.hydrate and the     *)
(* functions of store/hydration into the stores; on a resume with edits       *)
(* buildInternalPipelineConfig and V3PipelineAdapter.generate make a request  *)
(* of the stores, which the API validates and stores.                         *)
(*                                                                         *)
(* Hydration starts from the stores as the previous pipeline of the tab left  *)
(* them.  Values that are copied as they are (hosts, tables, offsets, batch   *)
(* sizes) are left out.  Optional parts are sets of at most one element.      *)
(***************************************************************************)
EXTENDS Integers, Sequences, FiniteSets, FiniteSetsExt

\* A pipeline is opened after another and deployed again unedited: the two pipelines, the
\* columns of the table as ClickHouse shows them, and whether Kafka answers with events.
VARIABLE resume

Unset == ""
The(optional) == CHOOSE x \in optional : TRUE
Optional(S) == {optional \in SUBSET S : \A x, y \in optional : x = y}

-----------------------------------------------------------------------------
(* Durations: seconds in the API, a value and a unit in the stores *)

Seconds == [seconds |-> 1, minutes |-> 60, hours |-> 3600, days |-> 86400]
InSeconds(window) == window.value * Seconds[window.unit]

\* The largest unit of which there is one at least, rounded to whole ones.
UnitOf(duration) ==
  IF duration >= 86400 THEN "days" ELSE IF duration >= 3600 THEN "hours"
  ELSE IF duration >= 60 THEN "minutes" ELSE "seconds"
ParseTimeWindow(duration) ==
  LET size == Seconds[UnitOf(duration)]
  IN  [value |-> (2 * duration + size) \div (2 * size), unit |-> UnitOf(duration)]

\* The sink's delay: days only when it is a whole number of them.
ParseDelay(duration) ==
  LET hours == [value |-> (2 * duration + 3600) \div 7200, unit |-> "hours"]
  IN  IF duration > 86400 /\ duration % 86400 # 0 THEN hours ELSE ParseTimeWindow(duration)

-----------------------------------------------------------------------------
(* The stores *)

NoConnection == [method |-> "NO_AUTH", tls |-> FALSE, user |-> Unset, service |-> Unset,
                 ca |-> Unset, skip |-> FALSE]
NoRegistry == [url |-> Unset, key |-> Unset]
NoDedup == [on |-> FALSE, key |-> Unset, window |-> [value |-> 0, unit |-> "hours"]]
NoResources == [base |-> {}, left |-> {}, right |-> {}, transform |-> {}]

FreshStores ==
  [sourceType |-> "kafka", otlp |-> [id |-> Unset, dedup |-> {}],
   conn |-> NoConnection, registry |-> NoRegistry, topics |-> <<>>, dedup |-> <<>>,
   join |-> [on |-> FALSE, streams |-> <<>>], filter |-> {}, outputs |-> {},
   mapping |-> {}, delay |-> [value |-> 1, unit |-> "minutes"], resources |-> NoResources]

IsOtlp(sourceType) == sourceType # "kafka"

-----------------------------------------------------------------------------
(* From the API to the stores *)

\* Kerberos: the names the reader looks for are not the ones the writer uses.
ReadConnection(conn) ==
  IF conn.method = "GSSAPI" THEN [conn EXCEPT !.user = Unset, !.service = Unset] ELSE conn

\* The events of a topic stay, or are fetched when Kafka can be reached.
ReadTopic(source, before, live) ==
  [name |-> source.topic, fields |-> source.fields,
   schemaSource |-> IF source.registry.url # Unset THEN "external" ELSE "internal",
   version |-> source.version,
   event |-> IF before # {} THEN before ELSE IF live THEN source.fields ELSE {}]

\* A topic of the pipeline shown before stays when this one has fewer.
ReadTopics(topics, sources, live) ==
  LET before(i) == IF i \in DOMAIN topics THEN topics[i].event ELSE {}
  IN  [i \in DOMAIN sources |-> ReadTopic(sources[i], before(i), live)]
        \o SubSeq(topics, Len(sources) + 1, Len(topics))

\* A configuration that has a key stays as it is.
ReadDedups(configs, dedup) ==
  LET read(i) ==
        IF i \in DOMAIN configs /\ configs[i].key # Unset THEN configs[i]
        ELSE IF dedup[i] = {} THEN NoDedup
        ELSE [on |-> TRUE, key |-> The(dedup[i]).key, window |-> ParseTimeWindow(The(dedup[i]).window)]
  IN  [i \in DOMAIN dedup |-> read(i)] \o SubSeq(configs, Len(dedup) + 1, Len(configs))

ReadStream(side, s, window) ==
  [topic |-> s.id, key |-> s.key, window |-> ParseTimeWindow(window), side |-> side]

\* Mutant: the window of the left stream is read for both.
ReadJoinOneWindow(join) ==
  LET streams(j) == <<ReadStream("left", j.left, j.left.window), ReadStream("right", j.right, j.left.window)>>
  IN  [on |-> join # {}, streams |-> IF join = {} THEN <<>> ELSE streams(The(join))]

ReadJoin(join) ==
  LET streams(j) == <<ReadStream("left", j.left, j.left.window), ReadStream("right", j.right, j.right.window)>>
  IN  [on |-> join # {}, streams |-> IF join = {} THEN <<>> ELSE streams(The(join))]

\* !(e) is read as e, an expression that is not negated as it is.
ReadFilter(filter) == {f.text : f \in filter}

\* The columns of the table, when ClickHouse can be reached.  The API names no source.
ReadMapping(mapping, table) ==
  LET fieldOf(c) == IF \E m \in mapping : m.column = c THEN (CHOOSE m \in mapping : m.column = c).name ELSE Unset
  IN  IF table = {} THEN {[column |-> m.column, field |-> m.name] : m \in mapping}
      ELSE {[column |-> c, field |-> fieldOf(c)] : c \in table}

ReadResources(resources, join) ==
  LET of(id) == {r.size : r \in {x \in resources.sources : x.id = id}}
  IN  [base |-> IF join = {} THEN {r.size : r \in resources.sources} ELSE {},
       left |-> IF join = {} THEN {} ELSE of(The(join).left.id),
       right |-> IF join = {} THEN {} ELSE of(The(join).right.id),
       transform |-> {[size |-> t.size, storage |-> t.storage] : t \in resources.transform}]

\* Only what the new pipeline has is written: the source type of a Kafka pipeline and the
\* deduplication of an OTLP one without are not, neither is the absence of a registry.
Hydrate(stores, d, table, live) ==
  LET otlp == IsOtlp(d.source)
      registry == d.sources[1].registry
  IN  [sourceType |-> IF otlp THEN d.source ELSE stores.sourceType,
       otlp |-> IF ~otlp THEN stores.otlp
                ELSE [id |-> d.sources[1].id, dedup |-> IF d.dedup[1] # {} THEN d.dedup[1] ELSE stores.otlp.dedup],
       conn |-> IF otlp THEN stores.conn ELSE ReadConnection(d.conn),
       registry |-> IF otlp \/ registry.url = Unset THEN stores.registry ELSE registry,
       topics |-> IF otlp THEN stores.topics ELSE ReadTopics(stores.topics, d.sources, live),
       dedup |-> IF otlp THEN stores.dedup ELSE ReadDedups(stores.dedup, d.dedup),
       join |-> ReadJoin(d.join), filter |-> ReadFilter(d.filter), outputs |-> d.outputs,
       mapping |-> ReadMapping(d.mapping, table), delay |-> ParseDelay(d.delay),
       resources |-> ReadResources(d.resources, d.join)]

-----------------------------------------------------------------------------
(* From the stores to the API *)

WriteConnection(conn) ==
  [method |-> conn.method, tls |-> conn.tls, user |-> IF conn.method = "NO_AUTH" THEN Unset ELSE conn.user,
   service |-> conn.service, ca |-> IF conn.tls THEN conn.ca ELSE Unset, skip |-> conn.tls /\ conn.skip]

WriteTopic(topic, registry) ==
  [id |-> topic.name, topic |-> topic.name, fields |-> topic.fields, registry |-> registry,
   version |-> IF topic.schemaSource = "internal" \/ topic.version \in {Unset, "latest"} THEN "1" ELSE topic.version]

WriteDedup(config) ==
  IF ~config.on \/ config.key = Unset THEN {}
  ELSE {[key |-> config.key, window |-> IF config.window.value = 0 THEN 3600 ELSE InSeconds(config.window)]}

\* The topic a mapped field is said to come from: the first whose sample event has it, else
\* the first of all; a join key comes from the first stream that has it.
SourceOf(field, stores) ==
  LET has == {i \in DOMAIN stores.topics : field \in stores.topics[i].event}
      streams == {i \in DOMAIN stores.join.streams : stores.join.streams[i].key = field}
  IN  CASE streams # {} -> stores.join.streams[Min(streams)].topic
        [] streams = {} /\ has # {} -> stores.topics[Min(has)].name
        [] OTHER -> stores.topics[1].name

\* Without streams the join is made up from the deduplication keys.
JoinStreams(stores) ==
  LET madeUp(i) == [topic |-> stores.topics[i].name, window |-> [value |-> 1, unit |-> "hours"],
                    key |-> IF i \in DOMAIN stores.dedup THEN stores.dedup[i].key ELSE Unset,
                    side |-> IF i = 1 THEN "left" ELSE "right"]
  IN  IF stores.join.streams # <<>> THEN stores.join.streams ELSE [i \in DOMAIN stores.topics |-> madeUp(i)]

Mapped(mapping) == {row \in mapping : row.field # Unset}

WriteJoin(stores) ==
  LET streams == JoinStreams(stores)
      side(name) == streams[Min({i \in DOMAIN streams : streams[i].side = name})]
      write(s) == [id |-> s.topic, key |-> s.key, window |-> InSeconds(s.window)]
      output(row) == [id |-> SourceOf(row.field, stores), name |-> row.field, out |-> row.field]
  IN  IF IsOtlp(stores.sourceType) \/ Len(stores.topics) <= 1 \/ ~stores.join.on THEN {}
      ELSE {[left |-> write(side("left")), right |-> write(side("right")),
             fields |-> {output(row) : row \in Mapped(stores.mapping)}]}

\* The storage of the deduplication goes to the first source, whichever deduplicates.
WriteResources(resources, join, ids, dedups, otlp) ==
  LET given(id, sizes) == {[id |-> id, size |-> size] : size \in sizes}
      storage(t) == IF \E i \in DOMAIN dedups : dedups[i] # {} THEN t.storage ELSE Unset
  IN  [sources |-> IF join # {} THEN given(The(join).left.id, resources.left) \union given(The(join).right.id, resources.right)
                   ELSE IF otlp THEN {} ELSE given(ids[1], resources.base),
       transform |-> {[id |-> ids[1], size |-> t.size, storage |-> storage(t)] : t \in resources.transform}]

Generate(stores) ==
  LET otlp == IsOtlp(stores.sourceType)
      single == otlp \/ Len(stores.topics) = 1
      sources == IF otlp THEN <<[id |-> stores.otlp.id, topic |-> Unset, fields |-> {}, version |-> Unset,
                                 registry |-> NoRegistry]>>
                 ELSE [i \in DOMAIN stores.topics |-> WriteTopic(stores.topics[i], stores.registry)]
      dedups == IF otlp THEN <<stores.otlp.dedup>>
                ELSE [i \in DOMAIN sources |-> IF i \in DOMAIN stores.dedup THEN WriteDedup(stores.dedup[i]) ELSE {}]
      join == WriteJoin(stores)
  IN  [source |-> stores.sourceType, sources |-> sources,
       conn |-> IF otlp THEN NoConnection ELSE WriteConnection(stores.conn),
       dedup |-> dedups, join |-> join,
       filter |-> IF single THEN {[not |-> TRUE, text |-> text] : text \in stores.filter} ELSE {},
       outputs |-> IF single THEN stores.outputs ELSE {},
       mapping |-> {[name |-> row.field, column |-> row.column] : row \in Mapped(stores.mapping)},
       delay |-> InSeconds(IF stores.delay.value = 0 THEN [stores.delay EXCEPT !.value = 1] ELSE stores.delay),
       resources |-> WriteResources(stores.resources, join, [i \in DOMAIN sources |-> sources[i].id], dedups, otlp)]

-----------------------------------------------------------------------------
(* The API: validate and toModel, then pipeline_from_model *)

Ids(d) == {d.sources[i].id : i \in DOMAIN d.sources}
Deduplicating(d) == {d.sources[i].id : i \in {j \in DOMAIN d.sources : d.dedup[j] # {}}}
FieldsOf(d, id) == UNION {d.sources[i].fields : i \in {j \in DOMAIN d.sources : d.sources[j].id = id}}

SourceAccepted(s, otlp) ==
  /\ s.id # Unset
  /\ IF otlp THEN s.topic = Unset /\ s.fields = {} /\ s.registry = NoRegistry
     ELSE s.topic # Unset /\ s.fields # {}

\* Credentials are complete, and a certificate is given or not looked at.
ConnectionAccepted(conn) ==
  /\ conn.method = "PLAIN" => conn.user # Unset
  /\ conn.method = "GSSAPI" => conn.service # Unset
  /\ conn.tls => conn.skip \/ conn.ca # Unset

\* A field of a join is put out under its own name when it is given no other.
OutputName(f) == IF f.out = Unset THEN f.name ELSE f.out

JoinAccepted(d, join) ==
  /\ join.left.id # join.right.id
  /\ \A side \in {join.left, join.right} : side.id \in Ids(d) /\ side.key \in FieldsOf(d, side.id)
  /\ \A f \in join.fields : f.id \in Ids(d) /\ f.name \in FieldsOf(d, f.id)

\* The mapping is of what the last step before the sink puts out; OTLP has fixed schemas.
SinkFields(d) ==
  CASE d.join # {} -> {OutputName(f) : f \in The(d.join).fields}
    [] d.join = {} /\ d.outputs # {} -> d.outputs
    [] OTHER -> FieldsOf(d, d.sources[1].id)

Accepted(d) ==
  LET otlp == IsOtlp(d.source)
  IN  /\ Len(d.sources) \in 1..2
      /\ \A i, j \in DOMAIN d.sources : d.sources[i].id = d.sources[j].id => i = j
      /\ \A i \in DOMAIN d.sources : SourceAccepted(d.sources[i], otlp)
      /\ IF otlp THEN d.conn = NoConnection ELSE ConnectionAccepted(d.conn)
      /\ (Len(d.sources) = 2) = (d.join # {}) /\ (otlp => d.join = {})
      /\ \A i \in DOMAIN d.dedup : \A c \in d.dedup[i] :
           c.key # Unset /\ c.window > 0 /\ (otlp \/ c.key \in d.sources[i].fields)
      /\ otlp \/ {m.name : m \in d.mapping} \subseteq SinkFields(d)
      /\ d.join # {} => d.filter = {} /\ d.outputs = {} /\ JoinAccepted(d, The(d.join))
      /\ \A r \in d.resources.sources : r.id \in Ids(d) /\ ~otlp
      /\ \A t \in d.resources.transform : t.id \in Ids(d) /\ (t.storage # Unset => t.id \in Deduplicating(d))

\* One transform block is kept; it is returned for every source that deduplicates, and for
\* the one that is transformed.  No delay is a minute, no version of a schema the first.
Stored(d) ==
  LET owners == Deduplicating(d) \union (IF d.outputs # {} THEN {d.sources[1].id} ELSE {})
      entry(t, id) == [t EXCEPT !.id = id]
      version(s) == IF IsOtlp(d.source) THEN Unset ELSE IF s.version = Unset THEN "1" ELSE s.version
  IN  [d EXCEPT !.sources = [i \in DOMAIN @ |-> [d.sources[i] EXCEPT !.version = version(d.sources[i])]],
                !.delay = IF @ = 0 THEN 60 ELSE @,
                !.resources.transform =
                   UNION {{entry(t, id) : id \in owners} : t \in IF @ = {} THEN {} ELSE {The(@)}}]

\* What is sent when a pipeline that nobody edited is deployed again, and what becomes of it.
Request(stores, d, table, live) == Generate(Hydrate(stores, d, table, live))
Redeployed(stores, d, table, live) == Stored(Request(stores, d, table, live))

\* What a configuration is made of; a field has a name.
Names == STRING \ {Unset}
Sources ==
  [id: STRING, topic: STRING, fields: SUBSET Names, version: STRING, registry: [url: STRING, key: STRING]]
JoinSources == [id: STRING, key: STRING, window: Nat]
Configurations ==
  [source: STRING, sources: Seq(Sources),
   conn: [method: STRING, tls: BOOLEAN, user: STRING, service: STRING, ca: STRING, skip: BOOLEAN],
   dedup: Seq(Optional([key: STRING, window: Nat])),
   join: Optional([left: JoinSources, right: JoinSources, fields: SUBSET [id: STRING, name: Names, out: STRING]]),
   filter: Optional([not: BOOLEAN, text: STRING]), outputs: SUBSET Names,
   mapping: SUBSET [name: Names, column: STRING], delay: Nat,
   resources: [sources: SUBSET [id: STRING, size: STRING],
               transform: SUBSET [id: STRING, size: STRING, storage: STRING]]]

\* A pipeline as the API has it.
IsDeployed(d) ==
  d \in Configurations /\ Len(d.dedup) = Len(d.sources) /\ Accepted(d) /\ Stored(d) = d

Resumes ==
  [before: Configurations, deployed: Configurations, table: SUBSET STRING, live: BOOLEAN]

-----------------------------------------------------------------------------
(* Properties *)

Exact(duration) == InSeconds(ParseTimeWindow(duration)) = duration
Windows(d) ==
  (UNION {{c.window : c \in d.dedup[i]} : i \in DOMAIN d.dedup})
    \union (UNION {{j.left.window, j.right.window} : j \in d.join})

\* The outputs of a join are those of the mapping under their own names, each from the
\* first source that has it, join keys from theirs.
Attributed(d, join) ==
  LET first(name) == d.sources[Min({i \in DOMAIN d.sources : name \in d.sources[i].fields})].id
      source(name) == CASE name = join.left.key -> join.left.id
                        [] name = join.right.key /\ name # join.left.key -> join.right.id
                        [] OTHER -> first(name)
  IN  /\ {f.name : f \in join.fields} = {m.name : m \in d.mapping}
      /\ \A f \in join.fields : f.out = f.name /\ f.id = source(f.name)

\* What the stores can hold of a deployed pipeline.
Representable(d, table, live) ==
  /\ InSeconds(ParseDelay(d.delay)) = d.delay
  /\ IsOtlp(d.source) \/ \A t \in Windows(d) : Exact(t)
  /\ \A f \in d.filter : f.not
  /\ table # {} => /\ {m.column : m \in d.mapping} \subseteq table
                    /\ \A m, n \in d.mapping : m.column = n.column => m = n
  /\ d.join # {} => live /\ Attributed(d, The(d.join))
  /\ \A t \in d.resources.transform : t.storage # Unset => d.dedup[1] # {}
  /\ ~IsOtlp(d.source) =>
       /\ d.conn.method # "GSSAPI" /\ WriteConnection(d.conn) = d.conn
       /\ \A i \in DOMAIN d.sources :
            LET s == d.sources[i]
            IN  /\ s.topic = s.id /\ s.registry = d.sources[1].registry
                /\ IF s.registry.url = Unset THEN s.registry = NoRegistry /\ s.version = "1"
                   ELSE s.version # "latest"

\* What pipeline e leaves in the stores does not show through pipeline d.
Overwritten(e, d) ==
  IF IsOtlp(d.source) THEN IsOtlp(e.source) => e.dedup[1] = {} \/ d.dedup[1] # {}
  ELSE /\ ~IsOtlp(e.source) /\ Len(e.sources) <= Len(d.sources)
       /\ \A i \in DOMAIN e.sources :
            e.dedup[i] = {} /\ (d.join # {} => e.sources[i].fields = d.sources[i].fields)
       /\ e.sources[1].registry.url # Unset => d.sources[1].registry.url # Unset

\* A topic whose registry was lost has the version of its schema once more.
Unversioned(d) ==
  LET lost(s) == ~IsOtlp(d.source) /\ s.registry.url = Unset
      unversioned(s) == IF lost(s) THEN [s EXCEPT !.version = "1"] ELSE s
  IN  [d EXCEPT !.sources = [i \in DOMAIN @ |-> unversioned(d.sources[i])]]

\* Deployed again, and once more after that.
StaysAsItWas(e, d, table, live) ==
  LET before == Hydrate(FreshStores, e, table, live)
      isKept(stores) == Accepted(Request(stores, d, table, live)) /\ Redeployed(stores, d, table, live) = d
      again == Redeployed(FreshStores, d, table, live)
  IN  IsDeployed(e) /\ IsDeployed(d) =>
        /\ Representable(d, table, live) => isKept(FreshStores) /\ (Overwritten(e, d) => isKept(before))
        /\ Redeployed(FreshStores, again, table, live) = Unversioned(again)

\* A pipeline nobody edited is accepted and deployed as it was, whichever was opened before
\* it, and one the stores cannot hold changes once and not again, but for such a version
\* (hydrateSection, buildInternalPipelineConfig, V3PipelineAdapter, pipeline_to_model,
\* pipeline_from_model).
ConfigIsKept == \A r \in resume : StaysAsItWas(r.before, r.deployed, r.table, r.live)

\* What is changed the first time stays as it is.  Refuted: a schema registry of the second
\* topic is gone the first time, the version of its schema the second (topics.ts:27).
ChangesOnce ==
  \A r \in resume :
    LET again == Redeployed(FreshStores, r.deployed, r.table, r.live)
    IN  IsDeployed(r.deployed) /\ Accepted(Request(FreshStores, r.deployed, r.table, r.live)) =>
          Redeployed(FreshStores, again, r.table, r.live) = again

\* "so that the hydrate->generate round-trip (download, edit/resume) preserves credentials"
\* (v3.ts:164) of the first topic that has some: refuted, kafka-connection.ts:160 reads those
\* of the first topic only.
RegistriesAreKept ==
  \A r \in resume :
    LET again == Redeployed(FreshStores, r.deployed, r.table, r.live)
        lost(i) == r.deployed.sources[i].registry.url # Unset /\ again.sources[i].registry.url = Unset
    IN  IsDeployed(r.deployed) => ~\E i \in DOMAIN r.deployed.sources : lost(i)

=============================================================================
