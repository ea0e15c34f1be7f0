------------------------------- MODULE WebProofs -------------------------------
(* The web UI, for every pipeline, page, topic, rule and bound: the filter editor's tree  *)
(* and verdict, the live status of a tab, the operations on pipelines, the wizard, the    *)
(* pages of deployed pipelines, and what becomes of a configuration nobody edited.        *)
EXTENDS FilterEditor, StatusStream, PipelineTracking, Wizard, EditSession, PipelineConfig,
        FiniteSetTheorems, SequenceTheorems, WellFoundedInduction, TLAPS

-----------------------------------------------------------------------------
(* Durations of a configuration (PipelineConfig). *)

\* A duration of so many seconds is read in a unit of this size.
ReadIn(duration, size) ==
  \/ size = 86400 /\ duration >= 86400
  \/ size = 3600 /\ duration >= 3600 /\ duration < 86400
  \/ size = 60 /\ duration >= 60 /\ duration < 3600
  \/ size = 1 /\ duration < 60

Sizes == {1, 60, 3600, 86400}

\* Math.round of the duration in units of this size, in seconds again.
Rounded(duration, size) == ((2 * duration + size) \div (2 * size)) * size

\* What opening a pipeline and deploying it again makes of a window.
LEMMA ReadRounds ==
  ASSUME NEW duration
  PROVE  InSeconds(ParseTimeWindow(duration)) = Rounded(duration, Seconds[UnitOf(duration)])
BY DEF InSeconds, ParseTimeWindow, Rounded

\* The unit chosen (the chain of conditions of parseTimeWindow).
LEMMA UnitFits ==
  ASSUME NEW duration \in Nat
  PROVE  ReadIn(duration, Seconds[UnitOf(duration)])
BY DEF ReadIn, Seconds, UnitOf

\* Rounding is off by half a unit at most and keeps one unit where there was one.
LEMMA RoundedIsNear ==
  ASSUME NEW duration \in Nat, NEW size, ReadIn(duration, size)
  PROVE  /\ Rounded(duration, size) \in Nat
         /\ 2 * (Rounded(duration, size) - duration) <= size
         /\ 2 * (duration - Rounded(duration, size)) <= size
<1>1. CASE size = 86400 BY <1>1 DEF Rounded, ReadIn
<1>2. CASE size = 3600 BY <1>2 DEF Rounded, ReadIn
<1>3. CASE size = 60 BY <1>3 DEF Rounded, ReadIn
<1>4. CASE size = 1 BY <1>4 DEF Rounded, ReadIn
<1> QED BY <1>1, <1>2, <1>3, <1>4 DEF ReadIn

\* A rounded duration is a number of its units, not above the next unit.
LEMMA RoundedIsMultiple ==
  ASSUME NEW duration \in Nat, NEW size, ReadIn(duration, size)
  PROVE  /\ \E n \in Nat : Rounded(duration, size) = n * size
         /\ size = 3600 => Rounded(duration, size) <= 86400
         /\ size = 60 => Rounded(duration, size) <= 3600
         /\ size = 1 => Rounded(duration, size) < 60
         /\ size # 1 => Rounded(duration, size) >= size
<1> DEFINE n == (2 * duration + size) \div (2 * size)
<1>1. n \in Nat /\ Rounded(duration, size) = n * size
  BY DEF ReadIn, Rounded
<1>2. CASE size = 86400 BY <1>1, <1>2 DEF Rounded, ReadIn
<1>3. CASE size = 3600 BY <1>1, <1>3 DEF Rounded, ReadIn
<1>4. CASE size = 60 BY <1>1, <1>4 DEF Rounded, ReadIn
<1>5. CASE size = 1 BY <1>1, <1>5 DEF Rounded, ReadIn
<1> QED BY <1>2, <1>3, <1>4, <1>5 DEF ReadIn

\* A number of units is rounded to itself.
LEMMA MultipleIsKept ==
  ASSUME NEW n \in Nat, NEW size \in Sizes
  PROVE  Rounded(n * size, size) = n * size
<1>1. CASE size = 1 BY <1>1 DEF Rounded
<1>2. CASE size = 60 BY <1>2 DEF Rounded
<1>3. CASE size = 3600 BY <1>3 DEF Rounded
<1>4. CASE size = 86400 BY <1>4 DEF Rounded
<1> QED BY <1>1, <1>2, <1>3, <1>4 DEF Sizes

\* A second reading, in the same unit or as one of the next, changes nothing.
LEMMA RoundedTwice ==
  ASSUME NEW duration \in Nat, NEW size, NEW kept \in Nat, NEW next,
         ReadIn(duration, size), kept = Rounded(duration, size), ReadIn(kept, next)
  PROVE  Rounded(kept, next) = kept
<1>1. \E n \in Nat : kept = n * size
  BY RoundedIsMultiple
<1>2. /\ size = 3600 => kept <= 86400
      /\ size = 60 => kept <= 3600
      /\ size = 1 => kept < 60
      /\ size # 1 => kept >= size
  BY RoundedIsMultiple
<1>3. size \in Sizes /\ next \in Sizes
  BY DEF ReadIn, Sizes
<1>4. next = size \/ kept = 1 * next
  BY <1>2 DEF ReadIn
<1>5. \E n \in Nat : kept = n * next
  <2>1. CASE next = size BY <1>1, <2>1, Zenon
  <2>2. CASE kept = 1 * next BY <2>2, 1 \in Nat, Zenon
  <2> QED BY <1>4, <2>1, <2>2
<1>6. PICK n \in Nat : kept = n * next
  BY <1>5
<1>7. Rounded(n * next, next) = n * next
  BY <1>3, MultipleIsKept, Zenon
<1> QED BY <1>6, <1>7, Zenon

\* A window shown in the UI is off by half a unit at most (mapBackendDeduplicationToStore,
\* parseTimeWindow).
THEOREM WindowIsNearest ==
  ASSUME NEW duration \in Nat
  PROVE  LET size == Seconds[UnitOf(duration)]
             kept == InSeconds(ParseTimeWindow(duration))
         IN  kept \in Nat /\ 2 * (kept - duration) <= size /\ 2 * (duration - kept) <= size
<1>1. ReadIn(duration, Seconds[UnitOf(duration)])
  BY UnitFits
<1> QED BY <1>1, ReadRounds, RoundedIsNear

\* A window changes when its pipeline is first opened and deployed again, never after that:
\* what was rounded, to the next unit even, is read as it is.
THEOREM WindowIsStable ==
  ASSUME NEW duration \in Nat
  PROVE  LET kept == InSeconds(ParseTimeWindow(duration))
         IN  InSeconds(ParseTimeWindow(kept)) = kept
<1> DEFINE kept == InSeconds(ParseTimeWindow(duration))
<1>1. /\ ReadIn(duration, Seconds[UnitOf(duration)])
      /\ kept = Rounded(duration, Seconds[UnitOf(duration)])
  BY UnitFits, ReadRounds
<1>2. kept \in Nat
  BY <1>1, RoundedIsNear
<1>3. /\ ReadIn(kept, Seconds[UnitOf(kept)])
      /\ InSeconds(ParseTimeWindow(kept)) = Rounded(kept, Seconds[UnitOf(kept)])
  BY <1>2, UnitFits, ReadRounds
<1>4. Rounded(kept, Seconds[UnitOf(kept)]) = kept
  <2> HIDE DEF kept
  <2> QED BY <1>1, <1>2, <1>3, RoundedTwice
<1> QED BY <1>3, <1>4

-----------------------------------------------------------------------------
(* A configuration that is opened and deployed again (PipelineConfig) *)

\* What becomes of a duration of a pipeline that is opened and deployed again.
KeptWindow(t) == InSeconds(ParseTimeWindow(t))
KeptDelay(t) == InSeconds(ParseDelay(t))

\* A window that was opened and deployed stays as it then is.
LEMMA KeptIsStable ==
  ASSUME NEW t \in Nat
  PROVE  KeptWindow(t) \in Nat /\ KeptWindow(KeptWindow(t)) = KeptWindow(t)
BY WindowIsNearest, WindowIsStable DEF KeptWindow

\* No duration is rounded to nothing.
LEMMA KeptIsPositive ==
  ASSUME NEW t \in Nat, t > 0
  PROVE  KeptWindow(t) > 0 /\ ParseTimeWindow(t).value # 0
<1>1. ReadIn(t, Seconds[UnitOf(t)])
  BY UnitFits
<1>2. KeptWindow(t) = Rounded(t, Seconds[UnitOf(t)])
  BY ReadRounds DEF KeptWindow
<1>3. KeptWindow(t) > 0
  <2>1. Seconds[UnitOf(t)] = 1 => KeptWindow(t) = t
    BY <1>2 DEF Rounded
  <2>2. KeptWindow(t) \in Nat
    BY KeptIsStable
  <2>3. Seconds[UnitOf(t)] # 1 => KeptWindow(t) >= Seconds[UnitOf(t)] /\ Seconds[UnitOf(t)] > 0
    <3> DEFINE size == Seconds[UnitOf(t)]
    <3>1. size # 1 => Rounded(t, size) >= size
      <4> HIDE DEF size
      <4> QED BY <1>1, RoundedIsMultiple DEF size
    <3>2. size # 1 => size > 0
      BY <1>1 DEF ReadIn
    <3> QED BY <1>2, <3>1, <3>2
  <2>4. Seconds[UnitOf(t)] \in Nat
    BY <1>1 DEF ReadIn
  <2> QED BY <2>1, <2>2, <2>3, <2>4
<1>4. ParseTimeWindow(t).value = 0 => KeptWindow(t) = 0
  <2>1. Seconds[ParseTimeWindow(t).unit] \in Nat
    BY DEF ParseTimeWindow, UnitOf, Seconds
  <2> QED BY <2>1 DEF KeptWindow, InSeconds
<1> QED BY <1>3, <1>4

\* So does the delay of a sink, in days when it is a number of them (ParseDelay).
LEMMA DelayIsStable ==
  ASSUME NEW t \in Nat, t > 0
  PROVE  /\ KeptDelay(t) \in Nat /\ KeptDelay(t) > 0 /\ ParseDelay(t).value # 0
         /\ KeptDelay(KeptDelay(t)) = KeptDelay(t)
<1>1. CASE ~(t > 86400 /\ t % 86400 # 0)
  <2>1. KeptDelay(t) = KeptWindow(t) /\ ParseDelay(t) = ParseTimeWindow(t)
    BY <1>1 DEF KeptDelay, KeptWindow, ParseDelay
  <2>2. KeptWindow(t) \in Nat /\ KeptWindow(t) > 0 /\ KeptWindow(KeptWindow(t)) = KeptWindow(t)
    BY KeptIsStable, KeptIsPositive
  <2>3. ~(KeptWindow(t) > 86400 /\ KeptWindow(t) % 86400 # 0)
    <3>1. ReadIn(t, Seconds[UnitOf(t)]) /\ KeptWindow(t) = Rounded(t, Seconds[UnitOf(t)])
      BY UnitFits, ReadRounds DEF KeptWindow
    <3>2. CASE t >= 86400
      <4>1. Seconds[UnitOf(t)] = 86400
        BY <3>1, <3>2 DEF ReadIn
      <4>2. PICK n \in Nat : KeptWindow(t) = n * 86400
        BY <3>1, <4>1, RoundedIsMultiple
      <4> QED BY <4>2
    <3>3. CASE t < 86400
      BY <3>1, <3>3, <2>2, RoundedIsMultiple DEF ReadIn
    <3> QED BY <3>2, <3>3
  <2>4. KeptDelay(KeptWindow(t)) = KeptWindow(KeptWindow(t))
    BY <2>3 DEF KeptDelay, KeptWindow, ParseDelay
  <2> QED BY <2>1, <2>2, <2>4, KeptIsPositive
<1>2. CASE t > 86400 /\ t % 86400 # 0
  <2> DEFINE n == (2 * t + 3600) \div 7200
  <2>1. /\ KeptDelay(t) = n * 3600 /\ n \in Nat /\ n >= 24
        /\ ParseDelay(t).value = n
    BY <1>2 DEF KeptDelay, ParseDelay, InSeconds, Seconds
  <2> HIDE DEF n
  <2>2. CASE n * 3600 > 86400 /\ (n * 3600) % 86400 # 0
    <3>1. KeptDelay(n * 3600) = ((2 * (n * 3600) + 3600) \div 7200) * 3600
      BY <2>2 DEF KeptDelay, ParseDelay, InSeconds, Seconds
    <3>2. (2 * (n * 3600) + 3600) \div 7200 = n
      BY <2>1
    <3> QED BY <2>1, <3>1, <3>2
  <2>3. CASE ~(n * 3600 > 86400 /\ (n * 3600) % 86400 # 0)
    <3>1. KeptDelay(n * 3600) = KeptWindow(n * 3600)
      BY <2>3 DEF KeptDelay, KeptWindow, ParseDelay
    <3>2. PICK m \in Nat : n * 3600 = m * 86400
      BY <2>1, <2>3
    <3>3. KeptWindow(n * 3600) = Rounded(n * 3600, 86400)
      <4>1. n * 3600 \in Nat /\ n * 3600 >= 86400
        BY <2>1
      <4>2. Seconds[UnitOf(n * 3600)] = 86400
        BY <4>1 DEF UnitOf, Seconds
      <4> QED BY <4>1, <4>2, ReadRounds DEF KeptWindow
    <3>4. Rounded(m * 86400, 86400) = m * 86400
      <4>1. 86400 \in Sizes
        BY DEF Sizes
      <4>2. \A size \in Sizes : Rounded(m * size, size) = m * size
        BY MultipleIsKept, Zenon
      <4> QED BY <4>1, <4>2
    <3> QED BY <2>1, <3>1, <3>2, <3>3, <3>4
  <2> QED BY <2>1, <2>2, <2>3
<1> QED BY <1>1, <1>2

\* Where the stores hold no more than the pipeline has, nothing is left of them.
LEMMA NothingAfter ==
  ASSUME NEW S, NEW f \in Seq(S), NEW T, NEW g \in Seq(T), Len(g) <= Len(f)
  PROVE  f \o SubSeq(g, Len(f) + 1, Len(g)) = f
<1>1. SubSeq(g, Len(f) + 1, Len(g)) = << >>
  BY EmptySeq, LenProperties, SubSeqProperties
<1> QED BY <1>1, ConcatEmptySeq

\* A function on 1..n is a sequence of n.
LEMMA IsSequence ==
  ASSUME NEW n \in Nat, NEW f, f = [i \in 1..n |-> f[i]]
  PROVE  f \in Seq({f[i] : i \in 1..n}) /\ Len(f) = n /\ DOMAIN f = 1..n
<1>1. f \in [1..n -> {f[i] : i \in 1..n}]
  OBVIOUS
<1> QED BY <1>1, SeqDef, LenProperties

\* A sequence of n, whatever it is of.
Row(f, n) == n \in Nat /\ f = [i \in 1..n |-> f[i]]

\* Length and domain of such a sequence.
LEMMA RowFacts ==
  ASSUME NEW f, NEW n, Row(f, n)
  PROVE  n \in Nat /\ f \in Seq({f[i] : i \in 1..n}) /\ Len(f) = n /\ DOMAIN f = 1..n
BY IsSequence DEF Row

\* The topics of a pipeline take the place of all topics there were (topics.ts).
LEMMA TopicsRead ==
  ASSUME NEW old, NEW m, Row(old, m), NEW sources, NEW n, Row(sources, n), m <= n, NEW live
  PROVE  ReadTopics(old, sources, live) =
           [i \in 1..n |-> ReadTopic(sources[i], IF i \in 1..m THEN old[i].event ELSE {}, live)]
<1> DEFINE read == [i \in 1..n |-> ReadTopic(sources[i], IF i \in 1..m THEN old[i].event ELSE {},
        live)]
<1>1. /\ m \in Nat /\ n \in Nat /\ Len(old) = m /\ DOMAIN old = 1..m
      /\ Len(sources) = n /\ DOMAIN sources = 1..n /\ old \in Seq({old[i] : i \in 1..m})
  BY RowFacts
<1>2. ReadTopics(old, sources, live) = read \o SubSeq(old, n + 1, m)
  BY <1>1 DEF ReadTopics
<1>3. Row(read, n)
  BY <1>1 DEF Row
<1>4. read \in Seq({read[i] : i \in 1..n}) /\ Len(read) = n
  BY <1>3, RowFacts
<1> HIDE DEF read
<1>5. read \o SubSeq(old, Len(read) + 1, Len(old)) = read
  BY <1>1, <1>4, NothingAfter
<1> QED BY <1>1, <1>2, <1>4, <1>5 DEF read

\* Its deduplication too, where none of the configurations there were has a key.
LEMMA DedupsRead ==
  ASSUME NEW configs, NEW m, Row(configs, m), NEW dedup, NEW n, Row(dedup, n), m <= n,
         \A i \in 1..m : configs[i].key = Unset
  PROVE  ReadDedups(configs, dedup) =
           [i \in 1..n |-> IF dedup[i] = {} THEN NoDedup
                           ELSE [on |-> TRUE, key |-> The(dedup[i]).key,
                                 window |-> ParseTimeWindow(The(dedup[i]).window)]]
<1> DEFINE read == [i \in 1..n |-> IF dedup[i] = {} THEN NoDedup
                           ELSE [on |-> TRUE, key |-> The(dedup[i]).key,
                                 window |-> ParseTimeWindow(The(dedup[i]).window)]]
<1>1. /\ m \in Nat /\ n \in Nat /\ Len(configs) = m /\ DOMAIN configs = 1..m
      /\ Len(dedup) = n /\ DOMAIN dedup = 1..n /\ configs \in Seq({configs[i] : i \in 1..m})
  BY RowFacts
<1>2. ReadDedups(configs, dedup) = read \o SubSeq(configs, n + 1, m)
  BY <1>1 DEF ReadDedups
<1>3. Row(read, n)
  BY <1>1 DEF Row
<1>4. read \in Seq({read[i] : i \in 1..n}) /\ Len(read) = n
  BY <1>3, RowFacts
<1> HIDE DEF read
<1>5. read \o SubSeq(configs, Len(read) + 1, Len(configs)) = read
  BY <1>1, <1>4, NothingAfter
<1> QED BY <1>1, <1>2, <1>4, <1>5 DEF read

\* An optional part that is there is the only one.
LEMMA TheOne ==
  ASSUME NEW S, NEW x \in S, \A y, z \in S : y = z
  PROVE  S = {x} /\ The(S) = x
BY DEF The

-----------------------------------------------------------------------------
(* What a pipeline becomes when nothing in the stores shows through *)

MadeSource(s, d) ==
  [id |-> s.topic, topic |-> s.topic, fields |-> s.fields,
   registry |-> IF d.sources[1].registry.url = Unset THEN NoRegistry ELSE d.sources[1].registry,
   version |-> IF s.registry.url = Unset \/ s.version \in {Unset, "latest"} THEN "1" ELSE s.version]
MadeSources(d) ==
  IF IsOtlp(d.source)
  THEN <<[id |-> d.sources[1].id, topic |-> Unset, fields |-> {}, version |-> Unset,
      registry |-> NoRegistry]>>
  ELSE [i \in DOMAIN d.sources |-> MadeSource(d.sources[i], d)]
MadeDedup(d) ==
  IF IsOtlp(d.source) THEN <<d.dedup[1]>>
  ELSE [i \in DOMAIN d.sources |-> {[key |-> c.key,
      window |-> KeptWindow(c.window)] : c \in d.dedup[i]}]
MadeMapping(mapping, table) ==
  {[name |-> row.field, column |-> row.column] : row \in Mapped(ReadMapping(mapping, table))}

SourceFor(name, d, live) ==
  LET j == The(d.join)
      has == {i \in DOMAIN d.sources : live /\ name \in d.sources[i].fields}
  IN  IF name = j.left.key THEN j.left.id ELSE IF name = j.right.key THEN j.right.id
      ELSE d.sources[IF has = {} THEN 1 ELSE Min(has)].topic
MadeSide(side) == [id |-> side.id, key |-> side.key, window |-> KeptWindow(side.window)]
MadeFields(d, table, live) ==
  {[id |-> SourceFor(m.name, d, live), name |-> m.name,
      out |-> m.name] : m \in MadeMapping(d.mapping, table)}
MadeJoin(d, table, live) ==
  IF d.join = {} THEN {}
  ELSE {[left |-> MadeSide(The(d.join).left), right |-> MadeSide(The(d.join).right),
         fields |-> MadeFields(d, table, live)]}

FirstOf(d) == IF IsOtlp(d.source) THEN d.sources[1].id ELSE d.sources[1].topic
SizesOf(sizes, id) == {[id |-> r.id, size |-> r.size] : r \in {x \in sizes : x.id = id}}
MadeResources(d) ==
  LET sizes == d.resources.sources
      storage(t) == IF \E i \in DOMAIN d.dedup : d.dedup[i] # {} THEN t.storage ELSE Unset
  IN  [sources |-> IF d.join # {} THEN SizesOf(sizes, The(d.join).left.id) \union SizesOf(sizes,
      The(d.join).right.id)
                   ELSE IF IsOtlp(d.source) THEN {}
                   ELSE {[id |-> FirstOf(d), size |-> r.size] : r \in sizes},
       transform |-> {[id |-> FirstOf(d), size |-> t.size,
           storage |-> storage(t)] : t \in d.resources.transform}]

Made(d, table, live) ==
  [source |-> d.source, sources |-> MadeSources(d),
   conn |-> IF IsOtlp(d.source) THEN NoConnection ELSE WriteConnection(ReadConnection(d.conn)),
   dedup |-> MadeDedup(d), join |-> MadeJoin(d, table, live),
   filter |-> {[not |-> TRUE, text |-> f.text] : f \in d.filter}, outputs |-> d.outputs,
   mapping |-> MadeMapping(d.mapping, table), delay |-> KeptDelay(d.delay),
       resources |-> MadeResources(d)]

\* A configuration that makes sense.
Regular(d) ==
  /\ \E n \in {1, 2} : Row(d.sources, n) /\ Row(d.dedup, n) /\ (n = 2 <=> d.join # {})
  /\ IsOtlp(d.source) => d.join = {} /\ d.resources.sources = {}
  /\ \A i \in DOMAIN d.dedup :
       /\ \A c, b \in d.dedup[i] : c = b
       /\ \A c \in d.dedup[i] : c.key # Unset /\ c.window \in Nat /\ c.window > 0
  /\ \A j, k \in d.join : j = k
  /\ \A j \in d.join : j.left.window \in Nat /\ j.right.window \in Nat
  /\ d.join # {} => d.filter = {} /\ d.outputs = {}
  /\ d.delay \in Nat /\ d.delay > 0

\* Nothing in the stores shows through d.
Fits(st, d, live) ==
  IF IsOtlp(d.source) THEN st.otlp.dedup = {} \/ d.dedup[1] # {}
  ELSE /\ st.sourceType = "kafka"
       /\ st.registry = NoRegistry \/ d.sources[1].registry.url # Unset
       /\ \E m \in 0..Len(d.sources) :
            /\ Row(st.topics, m)
            /\ d.join # {} =>
                 \A i \in 1..m : st.topics[i].event = IF live THEN d.sources[i].fields ELSE {}
       /\ \E m \in 0..Len(d.sources) : Row(st.dedup, m) /\ \A i \in 1..m : st.dedup[i].key = Unset

\* A deduplication is written with its key and the window that is shown.
LEMMA DedupWritten ==
  ASSUME NEW D, \A c, b \in D : c = b,
         \A c \in D : c.key # Unset /\ c.window \in Nat /\ c.window > 0
  PROVE  WriteDedup(IF D = {} THEN NoDedup
                    ELSE [on |-> TRUE, key |-> The(D).key,
                        window |-> ParseTimeWindow(The(D).window)])
           = {[key |-> c.key, window |-> KeptWindow(c.window)] : c \in D}
<1>1. CASE D = {}
  BY <1>1 DEF WriteDedup, NoDedup
<1>2. ASSUME NEW c \in D
      PROVE  WriteDedup([on |-> TRUE, key |-> c.key, window |-> ParseTimeWindow(c.window)])
                                 = {[key |-> c.key, window |-> KeptWindow(c.window)]}
  BY KeptIsPositive DEF WriteDedup, KeptWindow
<1>3. CASE D # {}
  <2>1. PICK c \in D : D = {c} /\ The(D) = c
    BY <1>3, TheOne
  <2>2. {[key |-> x.key, window |-> KeptWindow(x.window)] : x \in D} = {[key |-> c.key,
            window |-> KeptWindow(c.window)]}
    BY <2>1
  <2> QED BY <1>2, <1>3, <2>1, <2>2
<1> QED BY <1>1, <1>3

\* A topic is written under its name with the one registry of the stores.
LEMMA TopicWritten ==
  ASSUME NEW s, NEW before, NEW live, NEW registry
  PROVE  WriteTopic(ReadTopic(s, before, live), registry) =
           [id |-> s.topic, topic |-> s.topic, fields |-> s.fields, registry |-> registry,
            version |-> IF s.registry.url = Unset \/ s.version \in {Unset,
                "latest"} THEN "1" ELSE s.version]
BY DEF WriteTopic, ReadTopic

\* The first of one or two.
LEMMA FirstOfTwo ==
  ASSUME NEW S \in SUBSET {1, 2}
  PROVE  /\ 1 \in S => Min(S) = 1
         /\ S = {2} => Min(S) = 2
<1>1. ASSUME NEW m \in S, \A y \in S : m <= y PROVE Min(S) \in S /\ \A y \in S : Min(S) <= y
  BY <1>1 DEF Min
<1>2. CASE 1 \in S
  <2>1. \A y \in S : 1 <= y
    OBVIOUS
  <2>2. Min(S) \in S /\ Min(S) <= 1
    BY <1>1, <1>2, <2>1
  <2>3. Min(S) = 1 \/ Min(S) = 2
    BY <2>2
  <2> QED BY <2>2, <2>3
<1>3. CASE S = {2}
  <2>1. Min(S) \in S
    BY <1>1, <1>3
  <2> QED BY <1>3, <2>1
<1> QED BY <1>2, <1>3

\* What is not OTLP comes from Kafka.
LEMMA KafkaSourceType ==
  ASSUME NEW t, ~IsOtlp(t)
  PROVE  t = "kafka"
BY DEF IsOtlp

\* The topics, the streams and the mapping that the join is made of.
LEMMA JoinWritten ==
  ASSUME NEW st, NEW d, NEW table, NEW live, Regular(d), Fits(st, d, live), ~IsOtlp(d.source)
  PROVE  WriteJoin(Hydrate(st, d, table, live)) = MadeJoin(d, table, live)
<1> DEFINE s == Hydrate(st, d, table, live)
           n == Len(d.sources)
<1>1. n \in {1, 2} /\ Row(d.sources, n) /\ (n = 2 <=> d.join # {})
  BY RowFacts DEF Regular
<1>2. PICK h \in 0..n : /\ Row(st.topics, h)
                        /\ d.join # {} =>
                             \A i \in 1..h : st.topics[i].event =
                                 IF live THEN d.sources[i].fields ELSE {}
  BY DEF Fits
<1>3. s.topics = [i \in 1..n |-> ReadTopic(d.sources[i],
          IF i \in 1..h THEN st.topics[i].event ELSE {}, live)]
  <2>1. s.topics = ReadTopics(st.topics, d.sources, live)
    BY DEF Hydrate
  <2>2. h <= n
    BY <1>1, <1>2
  <2> QED BY <1>1, <1>2, <2>1, <2>2, TopicsRead
<1>4. Row(s.topics, n)
  BY <1>1, <1>3 DEF Row
<1>5. /\ s.sourceType = "kafka" /\ s.join = ReadJoin(d.join)
      /\ s.mapping = ReadMapping(d.mapping, table)
  BY DEF Hydrate, Fits
<1> HIDE DEF s
<1>6. Len(s.topics) = n /\ DOMAIN s.topics = 1..n
  BY <1>4, RowFacts
<1>7. CASE d.join = {}
  <2>1. n = 1
    BY <1>1, <1>7
  <2>2. IsOtlp(s.sourceType) \/ Len(s.topics) <= 1 \/ ~s.join.on
    BY <1>6, <2>1
  <2>3. WriteJoin(s) = {}
    BY <2>2, Zenon DEF WriteJoin
  <2> QED BY <1>7, <2>3 DEF MadeJoin, s
<1>8. CASE d.join # {}
  <2> DEFINE j == The(d.join)
  <2>1. n = 2
    BY <1>1, <1>8
  <2>2. /\ s.join.on
        /\ s.join.streams = <<ReadStream("left", j.left, j.left.window), ReadStream("right",
               j.right, j.right.window)>>
    <3>1. ReadJoin(d.join) =
            [on |-> TRUE, streams |-> <<ReadStream("left", j.left, j.left.window),
                                        ReadStream("right", j.right, j.right.window)>>]
      BY <1>8, Zenon DEF ReadJoin
    <3> HIDE DEF j
    <3> QED BY <1>5, <3>1
  <2> HIDE DEF j
  <2>3. /\ DOMAIN s.join.streams = {1, 2} /\ s.join.streams # << >>
        /\ s.join.streams[1] = ReadStream("left", j.left, j.left.window)
        /\ s.join.streams[2] = ReadStream("right", j.right, j.right.window)
    BY <2>2
  <2>4. JoinStreams(s) = s.join.streams
    BY <2>3 DEF JoinStreams
  <2>5. {i \in DOMAIN s.join.streams : s.join.streams[i].side = "left"} = {1}
        /\ {i \in DOMAIN s.join.streams : s.join.streams[i].side = "right"} = {2}
    BY <2>3 DEF ReadStream
  <2>6. Min({1}) = 1 /\ Min({2}) = 2
    BY FirstOfTwo
  <2>7. \A i \in {1, 2} : /\ s.topics[i].name = d.sources[i].topic
                          /\ s.topics[i].event = IF live THEN d.sources[i].fields ELSE {}
    BY <1>2, <1>3, <1>8, <2>1 DEF ReadTopic
  <2>8. ASSUME NEW name PROVE SourceOf(name, s) = SourceFor(name, d, live)
    <3> DEFINE streams == {i \in DOMAIN s.join.streams : s.join.streams[i].key = name}
               has == {i \in DOMAIN s.topics : name \in s.topics[i].event}
    <3>1. streams = (IF name = j.left.key THEN {1} ELSE {}) \union (IF name =
              j.right.key THEN {2} ELSE {})
      BY <2>3 DEF ReadStream
    <3>2. has = {i \in DOMAIN d.sources : live /\ name \in d.sources[i].fields}
      <4>1. DOMAIN s.topics = {1, 2} /\ DOMAIN d.sources = {1, 2}
        BY <1>1, <1>6, <2>1, RowFacts
      <4> QED BY <2>7, <4>1
    <3>3. has \in SUBSET {1, 2}
      BY <1>6, <2>1
    <3>4. /\ s.join.streams[1].topic = j.left.id
          /\ s.join.streams[2].topic = j.right.id
      BY <2>3 DEF ReadStream
    <3>5. SourceOf(name, s) =
            IF streams # {} THEN s.join.streams[Min(streams)].topic
            ELSE s.topics[IF has = {} THEN 1 ELSE Min(has)].name
      BY DEF SourceOf
    <3>6. SourceFor(name, d, live) =
            IF name = j.left.key THEN j.left.id ELSE IF name = j.right.key THEN j.right.id
            ELSE d.sources[IF has = {} THEN 1 ELSE Min(has)].topic
      BY <3>2 DEF SourceFor, j
    <3> HIDE DEF streams, has
    <3>7. has # {} => Min(has) \in {1, 2}
      <4>1. 1 \in has \/ has = {2} \/ has = {}
        BY <3>3
      <4> QED BY <3>3, <4>1, FirstOfTwo
    <3>8. streams # {} => Min(streams) = IF name = j.left.key THEN 1 ELSE 2
      <4>1. streams \in SUBSET {1, 2}
        BY <3>1
      <4> QED BY <3>1, <4>1, FirstOfTwo
    <3>9. streams = {} <=> name # j.left.key /\ name # j.right.key
      BY <3>1
    <3> QED BY <2>7, <3>4, <3>5, <3>6, <3>7, <3>8, <3>9
  <2> DEFINE F == {[id |-> SourceOf(row.field, s), name |-> row.field, out |-> row.field] :
                     row \in Mapped(s.mapping)}
  <2>9. F = MadeFields(d, table, live)
    <3>1. MadeMapping(d.mapping, table)
            = {[name |-> row.field, column |-> row.column] : row \in Mapped(s.mapping)}
      BY <1>5 DEF MadeMapping
    <3>2. MadeFields(d, table, live) =
            {[id |-> SourceFor(m.name, d, live), name |-> m.name, out |-> m.name] :
               m \in {[name |-> row.field, column |-> row.column] : row \in Mapped(s.mapping)}}
      BY <3>1 DEF MadeFields
    <3>3. ASSUME NEW row \in Mapped(s.mapping)
          PROVE  SourceFor(row.field, d, live) = SourceOf(row.field, s)
      BY <2>8
    <3> DEFINE R == Mapped(s.mapping)
    <3>4. ASSUME NEW x \in F PROVE x \in MadeFields(d, table, live)
      <4>1. PICK row \in R : x = [id |-> SourceOf(row.field, s), name |-> row.field,
                out |-> row.field]
        BY <3>4
      <4> DEFINE m == [name |-> row.field, column |-> row.column]
      <4>2. m \in {[name |-> r.field, column |-> r.column] : r \in R} /\ m.name = row.field
        OBVIOUS
      <4>3. x = [id |-> SourceFor(m.name, d, live), name |-> m.name, out |-> m.name]
        BY <3>3, <4>1, <4>2
      <4> HIDE DEF m
      <4> QED BY <3>2, <4>2, <4>3
    <3>5. ASSUME NEW x \in MadeFields(d, table, live) PROVE x \in F
      <4>1. PICK m \in {[name |-> r.field, column |-> r.column] : r \in R} :
              x = [id |-> SourceFor(m.name, d, live), name |-> m.name, out |-> m.name]
        BY <3>2, <3>5
      <4>2. PICK row \in R : m = [name |-> row.field, column |-> row.column]
        OBVIOUS
      <4>3. m.name = row.field
        BY <4>2
      <4>4. x = [id |-> SourceOf(row.field, s), name |-> row.field, out |-> row.field]
        BY <3>3, <4>1, <4>3
      <4> QED BY <4>4
    <3> HIDE DEF F
    <3> QED BY <3>4, <3>5
  <2> DEFINE write(x) == [id |-> x.topic, key |-> x.key, window |-> InSeconds(x.window)]
  <2>10. /\ write(s.join.streams[1]) = MadeSide(j.left)
         /\ write(s.join.streams[2]) = MadeSide(j.right)
    BY <2>3 DEF ReadStream, MadeSide, KeptWindow
  <2>11. WriteJoin(s) =
           {[left |-> write(s.join.streams[1]), right |-> write(s.join.streams[2]),
             fields |-> F]}
    <3>1. ~IsOtlp(s.sourceType) /\ ~(Len(s.topics) <= 1)
      BY <1>5, <1>6, <2>1 DEF IsOtlp
    <3> DEFINE J == JoinStreams(s)
               L == {i \in DOMAIN J : J[i].side = "left"}
               R == {i \in DOMAIN J : J[i].side = "right"}
    <3>2. WriteJoin(s) =
           {[left |-> write(J[Min(L)]), right |-> write(J[Min(R)]),
             fields |-> F]}
      <4>1. ~(IsOtlp(s.sourceType) \/ Len(s.topics) <= 1 \/ ~s.join.on)
        BY <2>2, <3>1
      <4> QED BY <4>1, Zenon DEF WriteJoin
    <3>3. Min(L) = 1 /\ Min(R) = 2 /\ J = s.join.streams
      BY <2>4, <2>5, <2>6
    <3> HIDE DEF J, L, R, write, F
    <3> QED BY <3>2, <3>3
  <2>12. MadeJoin(d, table, live) = {[left |-> MadeSide(j.left), right |-> MadeSide(j.right),
                                      fields |-> MadeFields(d, table, live)]}
    BY <1>8 DEF MadeJoin, j
  <2> HIDE DEF write, F
  <2> QED BY <2>9, <2>10, <2>11, <2>12 DEF s
<1> QED BY <1>7, <1>8

\* The resources, read and written, go by the sources of the pipeline.
LEMMA ResourcesWritten ==
  ASSUME NEW d, Regular(d), NEW join, NEW ids, NEW dedups,
         join = {} <=> d.join = {},
         d.join # {} => /\ The(join).left.id = The(d.join).left.id
                        /\ The(join).right.id = The(d.join).right.id,
         ids[1] = FirstOf(d),
         (\E i \in DOMAIN dedups : dedups[i] # {}) <=> (\E i \in DOMAIN d.dedup : d.dedup[i] # {})
  PROVE  WriteResources(ReadResources(d.resources, d.join), join, ids, dedups,
      IsOtlp(d.source)) = MadeResources(d)
<1> DEFINE sizes == d.resources.sources
           of(id) == {r.size : r \in {x \in sizes : x.id = id}}
           read == [base |-> IF d.join = {} THEN {r.size : r \in sizes} ELSE {},
                    left |-> IF d.join = {} THEN {} ELSE of(The(d.join).left.id),
                    right |-> IF d.join = {} THEN {} ELSE of(The(d.join).right.id),
                    transform |-> {[size |-> t.size,
                        storage |-> t.storage] : t \in d.resources.transform}]
           given(id, S) == {[id |-> id, size |-> size] : size \in S}
           some == \E i \in DOMAIN d.dedup : d.dedup[i] # {}
           storage(t) == IF some THEN t.storage ELSE Unset
           storage2(t) == IF \E i \in DOMAIN dedups : dedups[i] # {} THEN t.storage ELSE Unset
<1>1. ReadResources(d.resources, d.join) = read
  BY Zenon DEF ReadResources
<1>2. ASSUME NEW id PROVE given(id, of(id)) = SizesOf(sizes, id)
  <2> DEFINE made == {[id |-> r.id, size |-> r.size] : r \in {x \in sizes : x.id = id}}
  <2>1. ASSUME NEW x \in given(id, of(id)) PROVE x \in made
    OBVIOUS
  <2>2. ASSUME NEW x \in made PROVE x \in given(id, of(id))
    OBVIOUS
  <2>3. made = given(id, of(id))
    BY <2>1, <2>2
  <2> QED BY <2>3, Zenon DEF SizesOf
<1>3. d.join = {} => given(FirstOf(d), read.base) = {[id |-> FirstOf(d),
          size |-> r.size] : r \in sizes}
  <2> DEFINE made == {[id |-> FirstOf(d), size |-> r.size] : r \in sizes}
             base == {r.size : r \in sizes}
  <2>1. ASSUME NEW x \in given(FirstOf(d), base) PROVE x \in made
    OBVIOUS
  <2>2. ASSUME NEW x \in made PROVE x \in given(FirstOf(d), base)
    OBVIOUS
  <2>3. made = given(FirstOf(d), base)
    BY <2>1, <2>2
  <2>4. d.join = {} => read.base = base
    OBVIOUS
  <2> QED BY <2>3, <2>4
<1>4. \A t : storage(t) = storage2(t)
  OBVIOUS
<1> DEFINE wrote == {[id |-> ids[1], size |-> t.size,
        storage |-> storage2(t)] : t \in read.transform}
           made == {[id |-> FirstOf(d), size |-> t.size,
               storage |-> storage(t)] : t \in d.resources.transform}
<1>5. wrote = made
  <2>1. ASSUME NEW x \in wrote PROVE x \in made
    <3>1. PICK t \in d.resources.transform :
            x = [id |-> ids[1], size |-> t.size, storage |-> storage2([size |-> t.size,
                storage |-> t.storage])]
      OBVIOUS
    <3> QED BY <3>1
  <2>2. ASSUME NEW x \in made PROVE x \in wrote
    <3>1. PICK t \in d.resources.transform : x = [id |-> FirstOf(d), size |-> t.size,
              storage |-> storage(t)]
      OBVIOUS
    <3> DEFINE u == [size |-> t.size, storage |-> t.storage]
    <3>2. u \in read.transform /\ x = [id |-> ids[1], size |-> u.size, storage |-> storage2(u)]
      BY <3>1
    <3> QED BY <3>2
  <2> QED BY <2>1, <2>2
<1> DEFINE sources == IF join # {} THEN given(The(join).left.id,
        read.left) \union given(The(join).right.id, read.right)
                      ELSE IF IsOtlp(d.source) THEN {} ELSE given(ids[1], read.base)
           madeSources == IF d.join # {} THEN SizesOf(sizes,
               The(d.join).left.id) \union SizesOf(sizes, The(d.join).right.id)
                   ELSE IF IsOtlp(d.source) THEN {}
                   ELSE {[id |-> FirstOf(d), size |-> r.size] : r \in sizes}
<1>6. WriteResources(read, join, ids, dedups, IsOtlp(d.source)) = [sources |-> sources,
          transform |-> wrote]
  BY Zenon DEF WriteResources
<1>7. MadeResources(d) = [sources |-> madeSources, transform |-> made]
  BY Zenon DEF MadeResources
<1>8. d.join # {} => /\ read.left = of(The(d.join).left.id)
                     /\ read.right = of(The(d.join).right.id)
  OBVIOUS
<1> HIDE DEF read, of, given, wrote, made
<1>9. sources = madeSources
  BY <1>2, <1>3, <1>8
<1> QED BY <1>1, <1>5, <1>6, <1>7, <1>9

\* The element of a set of one.
LEMMA TheOnly ==
  ASSUME NEW x
  PROVE  The({x}) = x
BY DEF The

\* What sources and dedup of a configuration are.
LEMMA RegularSizes ==
  ASSUME NEW d, Regular(d)
  PROVE  /\ Len(d.sources) \in {1, 2} /\ (Len(d.sources) = 1 <=> d.join = {})
         /\ Row(d.sources, Len(d.sources)) /\ Row(d.dedup, Len(d.sources))
         /\ DOMAIN d.sources = 1..Len(d.sources) /\ DOMAIN d.dedup = 1..Len(d.sources)
         /\ 1 \in DOMAIN d.sources /\ Len(d.dedup) = Len(d.sources)
         /\ DOMAIN d.sources = IF d.join = {} THEN {1} ELSE {1, 2}
<1>1. PICK n \in {1, 2} : Row(d.sources, n) /\ Row(d.dedup, n) /\ (n = 2 <=> d.join # {})
  BY DEF Regular
<1>2. Len(d.sources) = n /\ DOMAIN d.sources = 1..n /\ Len(d.dedup) = n /\ DOMAIN d.dedup = 1..n
  BY <1>1, RowFacts
<1>3. 1..1 = {1} /\ 1..2 = {1, 2} /\ (n = 1 <=> d.join = {})
  BY <1>1
<1>4. DOMAIN d.sources = IF d.join = {} THEN {1} ELSE {1, 2}
  BY <1>1, <1>2, <1>3
<1> QED BY <1>1, <1>2, <1>3, <1>4

\* The parts of a request that are made alike for Kafka and for OTLP.
LEMMA FilterWritten ==
  ASSUME NEW S
  PROVE  {[not |-> TRUE, text |-> text] : text \in ReadFilter(S)} = {[not |-> TRUE,
      text |-> f.text] : f \in S}
<1> DEFINE wrote == {[not |-> TRUE, text |-> text] : text \in {f.text : f \in S}}
           made == {[not |-> TRUE, text |-> f.text] : f \in S}
<1>1. ASSUME NEW x \in wrote PROVE x \in made
  OBVIOUS
<1>2. ASSUME NEW x \in made PROVE x \in wrote
  OBVIOUS
<1>3. wrote = made
  BY <1>1, <1>2
<1> QED BY <1>3, Zenon DEF ReadFilter

\* A delay that was read is not the empty one that is written as 1.
LEMMA DelayWritten ==
  ASSUME NEW t \in Nat, t > 0
  PROVE  InSeconds(IF ParseDelay(t).value = 0 THEN [ParseDelay(t) EXCEPT !.value =
      1] ELSE ParseDelay(t)) = KeptDelay(t)
BY DelayIsStable DEF KeptDelay

\* The sources and the deduplication of a Kafka pipeline.
WroteSources(s) == [i \in DOMAIN s.topics |-> WriteTopic(s.topics[i], s.registry)]
WroteDedup(s) ==
  [i \in DOMAIN WroteSources(s) |-> IF i \in DOMAIN s.dedup THEN WriteDedup(s.dedup[i]) ELSE {}]

\* Topics, registry and deduplication of the stores as they are written.
LEMMA SourcesWritten ==
  ASSUME NEW st, NEW d, NEW table, NEW live, Regular(d), Fits(st, d, live), ~IsOtlp(d.source)
  PROVE  /\ Len(Hydrate(st, d, table, live).topics) = Len(d.sources)
         /\ WroteSources(Hydrate(st, d, table, live)) = MadeSources(d)
         /\ WroteDedup(Hydrate(st, d, table, live)) = MadeDedup(d)
<1> DEFINE s == Hydrate(st, d, table, live)
           n == Len(d.sources)
           sources == [i \in DOMAIN s.topics |-> WriteTopic(s.topics[i], s.registry)]
           dedups == [i \in DOMAIN sources |-> IF i \in
               DOMAIN s.dedup THEN WriteDedup(s.dedup[i]) ELSE {}]
<1>1. n \in {1, 2} /\ Row(d.sources, n) /\ Row(d.dedup, n) /\ DOMAIN d.sources = 1..n
          /\ DOMAIN d.dedup = 1..n
  BY RowFacts DEF Regular
<1>2. PICK m \in 0..n : Row(st.topics, m)
  BY DEF Fits
<1>3. PICK k \in 0..n : Row(st.dedup, k) /\ \A i \in 1..k : st.dedup[i].key = Unset
  BY DEF Fits
<1> DEFINE before(i) == IF i \in 1..m THEN st.topics[i].event ELSE {}
           readDedup(i) == IF d.dedup[i] = {} THEN NoDedup
                           ELSE [on |-> TRUE, key |-> The(d.dedup[i]).key,
                                 window |-> ParseTimeWindow(The(d.dedup[i]).window)]
           madeDedup(i) == {[key |-> c.key, window |-> KeptWindow(c.window)] : c \in d.dedup[i]}
           registry == IF d.sources[1].registry.url =
               Unset THEN NoRegistry ELSE d.sources[1].registry
<1>4. s.topics = [i \in 1..n |-> ReadTopic(d.sources[i], before(i), live)]
  <2>1. s.topics = ReadTopics(st.topics, d.sources, live)
    BY DEF Hydrate
  <2>2. m <= n
    BY <1>1, <1>2
  <2>3. ReadTopics(st.topics, d.sources, live) = [i \in 1..n |-> ReadTopic(d.sources[i], before(i),
            live)]
    <3> DEFINE old == st.topics
               q == d.sources
    <3>1. Row(old, m) /\ Row(q, n)
      BY <1>1, <1>2
    <3> HIDE DEF old, q, n
    <3>2. ReadTopics(old, q, live) = [i \in 1..n |-> ReadTopic(q[i],
              IF i \in 1..m THEN old[i].event ELSE {}, live)]
      BY <2>2, <3>1, TopicsRead
    <3> QED BY <3>2 DEF old, q
  <2> QED BY <2>1, <2>3
<1>5. s.dedup = [i \in 1..n |-> readDedup(i)]
  <2>1. s.dedup = ReadDedups(st.dedup, d.dedup)
    BY DEF Hydrate
  <2>2. k <= n
    BY <1>1, <1>3
  <2>3. ReadDedups(st.dedup, d.dedup) = [i \in 1..n |-> readDedup(i)]
    <3> DEFINE configs == st.dedup
               q == d.dedup
    <3>1. Row(configs, k) /\ Row(q, n) /\ \A i \in 1..k : configs[i].key = Unset
      BY <1>1, <1>3
    <3> HIDE DEF configs, q, n
    <3>2. ReadDedups(configs, q) =
           [i \in 1..n |-> IF q[i] = {} THEN NoDedup
                           ELSE [on |-> TRUE, key |-> The(q[i]).key,
                                 window |-> ParseTimeWindow(The(q[i]).window)]]
      BY <2>2, <3>1, DedupsRead
    <3> QED BY <3>2 DEF configs, q
  <2> QED BY <2>1, <2>3
<1>6. s.registry = registry
  BY DEF Hydrate, Fits
<1>7. \A i \in 1..n : WriteDedup(readDedup(i)) = madeDedup(i)
  <2> SUFFICES ASSUME NEW i \in 1..n PROVE WriteDedup(readDedup(i)) = madeDedup(i)
    OBVIOUS
  <2>1. /\ \A c, b \in d.dedup[i] : c = b
        /\ \A c \in d.dedup[i] : c.key # Unset /\ c.window \in Nat /\ c.window > 0
    BY <1>1, Zenon DEF Regular
  <2> QED BY <2>1, DedupWritten, Zenon
<1>8. \A i \in 1..n : WriteTopic(ReadTopic(d.sources[i], before(i), live),
          registry) = MadeSource(d.sources[i], d)
  <2> SUFFICES ASSUME NEW i \in 1..n
               PROVE  WriteTopic(ReadTopic(d.sources[i], before(i), live),
                   registry) = MadeSource(d.sources[i], d)
    OBVIOUS
  <2> DEFINE q == d.sources[i]
  <2>1. WriteTopic(ReadTopic(q, before(i), live), registry) =
           [id |-> q.topic, topic |-> q.topic, fields |-> q.fields, registry |-> registry,
            version |-> IF q.registry.url = Unset \/ q.version \in {Unset,
                "latest"} THEN "1" ELSE q.version]
    <3> HIDE DEF q, before, registry
    <3> QED BY TopicWritten
  <2> QED BY <2>1, Zenon DEF MadeSource
<1>9. MadeSources(d) = [i \in 1..n |-> MadeSource(d.sources[i], d)]
          /\ MadeDedup(d) = [i \in 1..n |-> madeDedup(i)]
  BY <1>1, Zenon DEF MadeSources, MadeDedup
<1> HIDE DEF s, before, readDedup, madeDedup, registry
<1>10. DOMAIN s.topics = 1..n /\ Len(s.topics) = n /\ DOMAIN s.dedup = 1..n
  <2>1. Row(s.topics, n) /\ Row(s.dedup, n)
    BY <1>1, <1>4, <1>5 DEF Row
  <2> QED BY <2>1, RowFacts
<1>11. sources = [i \in 1..n |-> MadeSource(d.sources[i], d)]
  <2>1. \A i \in 1..n : s.topics[i] = ReadTopic(d.sources[i], before(i), live)
    BY <1>4
  <2> QED BY <1>6, <1>8, <1>10, <2>1
<1>12. dedups = [i \in 1..n |-> madeDedup(i)]
  <2>1. DOMAIN sources = 1..n
    BY <1>10
  <2>2. \A i \in 1..n : s.dedup[i] = readDedup(i)
    BY <1>5
  <2> HIDE DEF sources
  <2> QED BY <1>7, <1>10, <2>1, <2>2
<1> QED BY <1>1, <1>9, <1>10, <1>11, <1>12, Zenon DEF s, WroteSources, WroteDedup

\* The request made of a Kafka pipeline (buildInternalPipelineConfig, generate).
LEMMA GeneratedOfKafka ==
  ASSUME NEW st, NEW d, NEW table, NEW live, Regular(d), Fits(st, d, live), ~IsOtlp(d.source)
  PROVE  Request(st, d, table, live) = Made(d, table, live)
<1> DEFINE s == Hydrate(st, d, table, live)
           sources == WroteSources(s)
           dedups == WroteDedup(s)
           single == IsOtlp(s.sourceType) \/ Len(s.topics) = 1
           delay == InSeconds(IF s.delay.value = 0 THEN [s.delay EXCEPT !.value = 1] ELSE s.delay)
           ids == [i \in DOMAIN sources |-> sources[i].id]
           filter == IF single THEN {[not |-> TRUE, text |-> text] : text \in s.filter} ELSE {}
           outputs == IF single THEN s.outputs ELSE {}
           resources == WriteResources(s.resources, WriteJoin(s), ids, dedups, IsOtlp(s.sourceType))
           mapping == {[name |-> row.field, column |-> row.column] : row \in Mapped(s.mapping)}
<1>1. /\ s.sourceType = "kafka" /\ s.conn = ReadConnection(d.conn)
             /\ s.filter = ReadFilter(d.filter)
      /\ s.outputs = d.outputs /\ s.mapping = ReadMapping(d.mapping, table)
             /\ s.delay = ParseDelay(d.delay)
      /\ s.resources = ReadResources(d.resources, d.join)
  BY DEF Hydrate, Fits
<1>2. d.source = "kafka" /\ ~IsOtlp(s.sourceType)
  BY <1>1, KafkaSourceType DEF IsOtlp
<1>3. /\ Len(s.topics) = Len(d.sources)
      /\ sources = MadeSources(d) /\ dedups = MadeDedup(d)
  BY SourcesWritten, Zenon
<1>4. WriteJoin(s) = MadeJoin(d, table, live)
  BY JoinWritten
<1>5. /\ Len(d.sources) \in {1, 2} /\ (Len(d.sources) = 1 <=> d.join = {})
      /\ 1 \in DOMAIN d.sources /\ DOMAIN d.dedup = DOMAIN d.sources
  BY RegularSizes
<1>6. Generate(s) = [source |-> s.sourceType, sources |-> sources, conn |-> WriteConnection(s.conn),
                     dedup |-> dedups, join |-> WriteJoin(s), filter |-> filter,
                         outputs |-> outputs,
                     mapping |-> mapping, delay |-> delay, resources |-> resources]
  <2> HIDE DEF s
  <2> QED BY <1>2, Zenon DEF Generate, WroteSources, WroteDedup
<1>7. Made(d, table, live) = [source |-> d.source, sources |-> MadeSources(d),
                     conn |-> WriteConnection(ReadConnection(d.conn)), dedup |-> MadeDedup(d),
                     join |-> MadeJoin(d, table, live), filter |-> {[not |-> TRUE,
                         text |-> f.text] : f \in d.filter},
                     outputs |-> d.outputs, mapping |-> MadeMapping(d.mapping, table),
                     delay |-> KeptDelay(d.delay), resources |-> MadeResources(d)]
  BY Zenon DEF Made
<1>8. delay = KeptDelay(d.delay)
  <2>1. d.delay \in Nat /\ d.delay > 0
    BY DEF Regular
  <2> HIDE DEF s
  <2>2. delay = InSeconds(IF ParseDelay(d.delay).value =
            0 THEN [ParseDelay(d.delay) EXCEPT !.value = 1] ELSE ParseDelay(d.delay))
    BY <1>1
  <2> QED BY <2>1, <2>2, DelayWritten
<1>9. mapping = MadeMapping(d.mapping, table)
  <2> HIDE DEF s
  <2> QED BY <1>1, Zenon DEF MadeMapping
<1>10. filter = {[not |-> TRUE, text |-> f.text] : f \in d.filter} /\ outputs = d.outputs
  <2> HIDE DEF s
  <2>1. CASE d.join = {}
    <3>1. single
      BY <1>3, <1>5, <2>1
    <3>2. filter = {[not |-> TRUE, text |-> text] : text \in s.filter} /\ outputs = s.outputs
      BY <3>1, Zenon
    <3> HIDE DEF filter, outputs
    <3>3. {[not |-> TRUE, text |-> text] : text \in s.filter} = {[not |-> TRUE,
              text |-> f.text] : f \in d.filter}
      BY <1>1, FilterWritten, Zenon
    <3> QED BY <1>1, <3>2, <3>3, Zenon
  <2>2. CASE d.join # {}
    <3>1. ~single
      BY <1>2, <1>3, <1>5, <2>2
    <3>2. d.filter = {} /\ d.outputs = {}
      BY <2>2 DEF Regular
    <3>3. filter = {} /\ outputs = {}
      BY <3>1, Zenon
    <3> HIDE DEF filter, outputs
    <3> QED BY <3>2, <3>3
  <2> QED BY <2>1, <2>2
<1>11. resources = MadeResources(d)
  <2> DEFINE join == MadeJoin(d, table, live)
  <2>1. join = {} <=> d.join = {}
    BY DEF MadeJoin
  <2>2. d.join # {} => /\ The(join).left.id = The(d.join).left.id
                       /\ The(join).right.id = The(d.join).right.id
    <3> SUFFICES ASSUME d.join # {}
                 PROVE  The(join).left.id = The(d.join).left.id
                     /\ The(join).right.id = The(d.join).right.id
      OBVIOUS
    <3> DEFINE made == [left |-> MadeSide(The(d.join).left), right |-> MadeSide(The(d.join).right),
                        fields |-> MadeFields(d, table, live)]
    <3>1. The(join) = made
      <4>1. join = {made}
        BY Zenon DEF MadeJoin
      <4> HIDE DEF join, made
      <4> QED BY <4>1, TheOnly
    <3>2. made.left.id = The(d.join).left.id /\ made.right.id = The(d.join).right.id
      BY DEF MadeSide
    <3> QED BY <3>1, <3>2
  <2>3. ids[1] = FirstOf(d)
    <3>1. 1 \in DOMAIN sources /\ sources[1].id = d.sources[1].topic
      <4>1. MadeSources(d) = [i \in DOMAIN d.sources |-> MadeSource(d.sources[i], d)]
        BY Zenon DEF MadeSources
      <4>2. 1 \in DOMAIN d.sources
        BY <1>5
      <4>3. 1 \in DOMAIN MadeSources(d) /\ MadeSources(d)[1].id = d.sources[1].topic
        BY <4>1, <4>2 DEF MadeSource
      <4> HIDE DEF sources
      <4> QED BY <1>3, <4>3
    <3> HIDE DEF sources
    <3> QED BY <3>1 DEF FirstOf
  <2>4. (\E i \in DOMAIN dedups : dedups[i] # {}) <=> (\E i \in DOMAIN d.dedup : d.dedup[i] # {})
    <3> DEFINE made == MadeDedup(d)
    <3>1. made = [i \in DOMAIN d.sources |-> {[key |-> c.key,
              window |-> KeptWindow(c.window)] : c \in d.dedup[i]}]
      BY Zenon DEF MadeDedup
    <3>4. \A S : {[key |-> c.key, window |-> KeptWindow(c.window)] : c \in S} = {} <=> S = {}
      OBVIOUS
    <3>2. DOMAIN made = DOMAIN d.dedup /\ \A i \in DOMAIN d.dedup : made[i] = {} <=> d.dedup[i] = {}
      BY <1>5, <3>1, <3>4
    <3>3. dedups = made
      BY <1>3
    <3> HIDE DEF dedups, made
    <3> QED BY <3>2, <3>3
  <2>5. resources = WriteResources(ReadResources(d.resources, d.join), join, ids, dedups,
            IsOtlp(d.source))
    <3> HIDE DEF s, ids, dedups
    <3> QED BY <1>1, <1>2, <1>4
  <2> HIDE DEF join, ids, dedups
  <2>6. WriteResources(ReadResources(d.resources, d.join), join, ids, dedups,
            IsOtlp(d.source)) = MadeResources(d)
    BY <2>1, <2>2, <2>3, <2>4, ResourcesWritten
  <2> QED BY <2>5, <2>6
<1>12. Request(st, d, table, live) = Generate(s)
  BY Zenon DEF Request
<1> HIDE DEF s, sources, dedups, filter, outputs, mapping, delay, resources
<1>13. s.sourceType = d.source /\ WriteConnection(s.conn) = WriteConnection(ReadConnection(d.conn))
  BY <1>1, <1>2
<1> QED BY <1>3, <1>4, <1>6, <1>7, <1>8, <1>9, <1>10, <1>11, <1>12, <1>13

\* The request made of an OTLP pipeline.
LEMMA GeneratedOfOtlp ==
  ASSUME NEW st, NEW d, NEW table, NEW live, Regular(d), Fits(st, d, live), IsOtlp(d.source)
  PROVE  Request(st, d, table, live) = Made(d, table, live)
<1> DEFINE s == Hydrate(st, d, table, live)
           sources == <<[id |-> s.otlp.id, topic |-> Unset, fields |-> {}, version |-> Unset,
               registry |-> NoRegistry]>>
           dedups == <<s.otlp.dedup>>
           delay == InSeconds(IF s.delay.value = 0 THEN [s.delay EXCEPT !.value = 1] ELSE s.delay)
           ids == [i \in DOMAIN sources |-> sources[i].id]
           filter == {[not |-> TRUE, text |-> text] : text \in s.filter}
           resources == WriteResources(s.resources, WriteJoin(s), ids, dedups, IsOtlp(s.sourceType))
           mapping == {[name |-> row.field, column |-> row.column] : row \in Mapped(s.mapping)}
<1>1. /\ s.sourceType = d.source /\ s.filter = ReadFilter(d.filter)
      /\ s.outputs = d.outputs /\ s.mapping = ReadMapping(d.mapping, table)
             /\ s.delay = ParseDelay(d.delay)
      /\ s.resources = ReadResources(d.resources, d.join)
      /\ s.otlp.id = d.sources[1].id /\ s.otlp.dedup = d.dedup[1]
  <2>1. /\ s.sourceType = d.source /\ s.filter = ReadFilter(d.filter)
        /\ s.outputs = d.outputs /\ s.mapping = ReadMapping(d.mapping, table)
               /\ s.delay = ParseDelay(d.delay)
        /\ s.resources = ReadResources(d.resources, d.join)
        /\ s.otlp = [id |-> d.sources[1].id,
               dedup |-> IF d.dedup[1] # {} THEN d.dedup[1] ELSE st.otlp.dedup]
    BY DEF Hydrate
  <2>2. d.dedup[1] = {} => st.otlp.dedup = {}
    BY DEF Fits
  <2> HIDE DEF s
  <2> QED BY SMTT(30), <2>1, <2>2
<1>2. IsOtlp(s.sourceType)
  BY <1>1
<1>3. d.join = {}
  BY DEF Regular
<1>4. WriteJoin(s) = {} /\ MadeJoin(d, table, live) = {}
  <2> HIDE DEF s
  <2>1. WriteJoin(s) = {}
    BY <1>2, Zenon DEF WriteJoin
  <2> QED BY <1>3, <2>1, Zenon DEF MadeJoin
<1>5. DOMAIN d.dedup = {1}
  <2>1. Len(d.sources) = 1 /\ DOMAIN d.dedup = 1..Len(d.sources)
    BY <1>3, RegularSizes
  <2> QED BY <2>1
<1>6. Generate(s) = [source |-> s.sourceType, sources |-> sources, conn |-> NoConnection,
                     dedup |-> dedups, join |-> WriteJoin(s), filter |-> filter,
                         outputs |-> s.outputs,
                     mapping |-> mapping, delay |-> delay, resources |-> resources]
  <2> HIDE DEF s
  <2> QED BY <1>2, Zenon DEF Generate
<1>7. Made(d, table, live) = [source |-> d.source, sources |-> MadeSources(d),
                     conn |-> NoConnection, dedup |-> MadeDedup(d),
                     join |-> MadeJoin(d, table, live), filter |-> {[not |-> TRUE,
                         text |-> f.text] : f \in d.filter},
                     outputs |-> d.outputs, mapping |-> MadeMapping(d.mapping, table),
                     delay |-> KeptDelay(d.delay), resources |-> MadeResources(d)]
  BY Zenon DEF Made
<1>8. delay = KeptDelay(d.delay)
  <2>1. d.delay \in Nat /\ d.delay > 0
    BY DEF Regular
  <2> HIDE DEF s
  <2>2. delay = InSeconds(IF ParseDelay(d.delay).value =
            0 THEN [ParseDelay(d.delay) EXCEPT !.value = 1] ELSE ParseDelay(d.delay))
    BY <1>1
  <2> QED BY <2>1, <2>2, DelayWritten
<1>9. mapping = MadeMapping(d.mapping, table)
  <2> HIDE DEF s
  <2> QED BY <1>1, Zenon DEF MadeMapping
<1>10. filter = {[not |-> TRUE, text |-> f.text] : f \in d.filter}
  <2> HIDE DEF s
  <2> QED BY <1>1, FilterWritten, Zenon
<1>11. sources = MadeSources(d) /\ dedups = MadeDedup(d)
  <2>1. MadeSources(d) = <<[id |-> d.sources[1].id, topic |-> Unset, fields |-> {},
            version |-> Unset, registry |-> NoRegistry]>>
        /\ MadeDedup(d) = <<d.dedup[1]>>
    BY Zenon DEF MadeSources, MadeDedup
  <2> HIDE DEF s
  <2> QED BY <1>1, <2>1
<1>12. resources = MadeResources(d)
  <2>1. ids[1] = FirstOf(d)
    <3> HIDE DEF s
    <3> QED BY <1>1 DEF FirstOf
  <2>2. (\E i \in DOMAIN dedups : dedups[i] # {}) <=> (\E i \in DOMAIN d.dedup : d.dedup[i] # {})
    <3> HIDE DEF s
    <3> QED BY <1>1, <1>5
  <2>3. resources = WriteResources(ReadResources(d.resources, d.join), {}, ids, dedups,
            IsOtlp(d.source))
    <3> HIDE DEF s, ids, dedups
    <3> QED BY <1>1, <1>2, <1>4
  <2> HIDE DEF ids, dedups
  <2>4. WriteResources(ReadResources(d.resources, d.join), {}, ids, dedups,
            IsOtlp(d.source)) = MadeResources(d)
    BY <1>3, <2>1, <2>2, ResourcesWritten
  <2> QED BY <2>3, <2>4
<1>13. Request(st, d, table, live) = Generate(s)
  BY Zenon DEF Request
<1> HIDE DEF s, sources, dedups, filter, mapping, delay, resources
<1> QED BY <1>1, <1>4, <1>6, <1>7, <1>8, <1>9, <1>10, <1>11, <1>12, <1>13

\* What is sent of a pipeline that nothing in the stores shows through.
LEMMA RequestIsMade ==
  ASSUME NEW st, NEW d, NEW table, NEW live, Regular(d), Fits(st, d, live)
  PROVE  Request(st, d, table, live) = Made(d, table, live)
BY GeneratedOfKafka, GeneratedOfOtlp

-----------------------------------------------------------------------------
(* What the API stores *)

VersionOf(s, otlp) == IF otlp THEN Unset ELSE IF s.version = Unset THEN "1" ELSE s.version
StoredSources(d) ==
  [i \in DOMAIN d.sources |-> [d.sources[i] EXCEPT !.version = VersionOf(d.sources[i],
      IsOtlp(d.source))]]
StoredDelay(t) == IF t = 0 THEN 60 ELSE t
Owners(d) == Deduplicating(d) \union (IF d.outputs # {} THEN {d.sources[1].id} ELSE {})
TransformOf(T, owners) ==
  UNION {{[t EXCEPT !.id = id] : id \in owners} : t \in IF T = {} THEN {} ELSE {The(T)}}

\* What the API changes of a configuration, one field after the other.
LEMMA StoredIs ==
  ASSUME NEW d
  PROVE  Stored(d) = [[[d EXCEPT !.sources = StoredSources(d)] EXCEPT !.delay =
      StoredDelay(d.delay)]
                        EXCEPT !.resources = [d.resources EXCEPT
                                                !.transform = TransformOf(d.resources.transform,
                                                    Owners(d))]]
<1> DEFINE X == StoredSources(d)
           Y == StoredDelay(d.delay)
           Z == TransformOf(d.resources.transform, Owners(d))
<1>1. Stored(d) = [d EXCEPT !.sources = X, !.delay = Y, !.resources.transform = Z]
  BY Zenon DEF Stored, StoredSources, VersionOf, StoredDelay, TransformOf, Owners
<1>2. ASSUME NEW x, NEW y, NEW z
      PROVE [d EXCEPT !.sources = x, !.delay = y, !.resources.transform = z]
             =  [[[d EXCEPT !.sources = x] EXCEPT !.delay = y]
                  EXCEPT !.resources = [d.resources EXCEPT !.transform = z]]
  OBVIOUS
<1> QED BY <1>1, <1>2

\* The fields of a configuration.
Whole(d) ==
  /\ d = [source |-> d.source, sources |-> d.sources, conn |-> d.conn, dedup |-> d.dedup,
         join |-> d.join,
          filter |-> d.filter, outputs |-> d.outputs, mapping |-> d.mapping, delay |-> d.delay,
          resources |-> d.resources]
  /\ d.resources = [sources |-> d.resources.sources, transform |-> d.resources.transform]

\* The fields of a configuration and what is in them.
LEMMA ConfigurationIs ==
  ASSUME NEW d \in Configurations
  PROVE  /\ Whole(d)
         /\ d.sources \in Seq(Sources) /\ d.dedup \in Seq(Optional([key: STRING, window: Nat]))
         /\ d.conn \in [method: STRING, tls: BOOLEAN, user: STRING, service: STRING, ca: STRING,
                skip: BOOLEAN]
         /\ d.join \in Optional([left: JoinSources, right: JoinSources, fields: SUBSET [id: STRING,
                name: Names, out: STRING]])
         /\ d.filter \in Optional([not: BOOLEAN, text: STRING])
                /\ d.mapping \in SUBSET [name: Names, column: STRING]
         /\ d.delay \in Nat
         /\ d.resources.sources \in SUBSET [id: STRING, size: STRING]
         /\ d.resources.transform \in SUBSET [id: STRING, size: STRING, storage: STRING]
         /\ d.outputs \in SUBSET Names
<1>1. d.resources \in [sources: SUBSET [id: STRING, size: STRING],
                       transform: SUBSET [id: STRING, size: STRING, storage: STRING]]
  BY DEF Configurations
<1>2. d.resources = [sources |-> d.resources.sources, transform |-> d.resources.transform]
  BY <1>1
<1>3. d = [source |-> d.source, sources |-> d.sources, conn |-> d.conn, dedup |-> d.dedup,
          join |-> d.join,
          filter |-> d.filter, outputs |-> d.outputs, mapping |-> d.mapping, delay |-> d.delay,
          resources |-> d.resources]
  BY DEF Configurations
<1>4. Whole(d)
  BY <1>2, <1>3, Zenon DEF Whole
<1> QED BY <1>1, <1>4 DEF Configurations

\* What the API keeps, field by field (pipeline_to_model.go).
LEMMA StoredFields ==
  ASSUME NEW d, Whole(d)
  PROVE  Stored(d) = [source |-> d.source, sources |-> StoredSources(d), conn |-> d.conn,
      dedup |-> d.dedup,
                      join |-> d.join, filter |-> d.filter, outputs |-> d.outputs,
                          mapping |-> d.mapping,
                      delay |-> StoredDelay(d.delay),
                      resources |-> [sources |-> d.resources.sources,
                                     transform |-> TransformOf(d.resources.transform, Owners(d))]]
<1> DEFINE X == StoredSources(d)
           Y == StoredDelay(d.delay)
           Z == TransformOf(d.resources.transform, Owners(d))
<1>1. Stored(d) = [[[d EXCEPT !.sources = X] EXCEPT !.delay = Y]
                        EXCEPT !.resources = [d.resources EXCEPT !.transform = Z]]
  BY StoredIs
<1>2. /\ d = [source |-> d.source, sources |-> d.sources, conn |-> d.conn, dedup |-> d.dedup,
             join |-> d.join,
              filter |-> d.filter, outputs |-> d.outputs, mapping |-> d.mapping, delay |-> d.delay,
              resources |-> d.resources]
      /\ d.resources = [sources |-> d.resources.sources, transform |-> d.resources.transform]
  BY Zenon DEF Whole
<1> HIDE DEF X, Y, Z
<1>3. [d.resources EXCEPT !.transform = Z] = [sources |-> d.resources.sources, transform |-> Z]
  BY <1>2
<1>4. [d EXCEPT !.sources = X] = [source |-> d.source, sources |-> X, conn |-> d.conn,
          dedup |-> d.dedup, join |-> d.join,
              filter |-> d.filter, outputs |-> d.outputs, mapping |-> d.mapping, delay |-> d.delay,
              resources |-> d.resources]
  BY <1>2
<1>5. [[d EXCEPT !.sources = X] EXCEPT !.delay = Y] =
         [source |-> d.source, sources |-> X, conn |-> d.conn, dedup |-> d.dedup, join |-> d.join,
              filter |-> d.filter, outputs |-> d.outputs, mapping |-> d.mapping, delay |-> Y,
              resources |-> d.resources]
  <2> DEFINE e == [d EXCEPT !.sources = X]
  <2> HIDE DEF e
  <2>1. e = [source |-> d.source, sources |-> X, conn |-> d.conn, dedup |-> d.dedup,
            join |-> d.join,
              filter |-> d.filter, outputs |-> d.outputs, mapping |-> d.mapping, delay |-> d.delay,
              resources |-> d.resources]
    BY <1>4, Zenon DEF e
  <2>2. [e EXCEPT !.delay = Y] =
         [source |-> d.source, sources |-> X, conn |-> d.conn, dedup |-> d.dedup, join |-> d.join,
              filter |-> d.filter, outputs |-> d.outputs, mapping |-> d.mapping, delay |-> Y,
              resources |-> d.resources]
    BY <2>1
  <2> QED BY <2>2 DEF e
<1> QED BY <1>1, <1>3, <1>5 DEF X, Y, Z

\* A sequence, whatever it is of.
LEMMA SequenceIsRow ==
  ASSUME NEW S, NEW f \in Seq(S)
  PROVE  Row(f, Len(f)) /\ DOMAIN f = 1..Len(f) /\ \A i \in DOMAIN f : f[i] \in S
BY LenProperties DEF Row

\* What follows of a pipeline as the API has it.
LEMMA DeployedFacts ==
  ASSUME NEW d, IsDeployed(d)
  PROVE  /\ d \in Configurations /\ Accepted(d) /\ d.delay > 0
         /\ StoredSources(d) = d.sources
         /\ TransformOf(d.resources.transform, Owners(d)) = d.resources.transform
         /\ d.delay \in Nat
<1>1. d \in Configurations /\ Accepted(d) /\ Stored(d) = d
  BY DEF IsDeployed
<1>2. d.delay \in Nat
  BY <1>1, ConfigurationIs
<1>3. d.sources = StoredSources(d) /\ d.delay = StoredDelay(d.delay)
      /\ d.resources.transform = TransformOf(d.resources.transform, Owners(d))
  <2> DEFINE X == StoredSources(d)
           Y == StoredDelay(d.delay)
           Z == TransformOf(d.resources.transform, Owners(d))
  <2>1. Stored(d) = [source |-> d.source, sources |-> X, conn |-> d.conn, dedup |-> d.dedup,
                      join |-> d.join, filter |-> d.filter, outputs |-> d.outputs,
                          mapping |-> d.mapping,
                      delay |-> Y, resources |-> [sources |-> d.resources.sources, transform |-> Z]]
    BY <1>1, ConfigurationIs, StoredFields, Zenon
  <2> HIDE DEF X, Y, Z
  <2>2. Stored(d).sources = X /\ Stored(d).delay = Y /\ Stored(d).resources.transform = Z
    BY <2>1
  <2> QED BY <1>1, <2>2 DEF X, Y, Z
<1> QED BY <1>1, <1>2, <1>3 DEF StoredDelay

\* A pipeline as the API has it makes sense.
LEMMA DeployedIsRegular ==
  ASSUME NEW d, IsDeployed(d)
  PROVE  Regular(d)
<1> DEFINE n == Len(d.sources)
<1>1. /\ d \in Configurations /\ Accepted(d) /\ Len(d.dedup) = n /\ d.delay > 0 /\ d.delay \in Nat
  BY DeployedFacts DEF IsDeployed
<1>2. Row(d.sources, n) /\ Row(d.dedup, n) /\ DOMAIN d.dedup = 1..n
      /\ \A i \in DOMAIN d.dedup : d.dedup[i] \in Optional([key: STRING, window: Nat])
  BY <1>1, ConfigurationIs, SequenceIsRow
<1>3. n \in {1, 2} /\ (n = 2 <=> d.join # {})
  BY <1>1 DEF Accepted
<1>4. IsOtlp(d.source) => d.join = {} /\ d.resources.sources = {}
  BY <1>1 DEF Accepted
<1>5. ASSUME NEW i \in DOMAIN d.dedup
      PROVE  /\ \A c, b \in d.dedup[i] : c = b
             /\ \A c \in d.dedup[i] : c.key # Unset /\ c.window \in Nat /\ c.window > 0
  <2>1. d.dedup[i] \in SUBSET [key: STRING, window: Nat] /\ \A c, b \in d.dedup[i] : c = b
    BY <1>2 DEF Optional
  <2>2. \A c \in d.dedup[i] : c.key # Unset /\ c.window > 0
    BY <1>1, Zenon DEF Accepted
  <2> QED BY <2>1, <2>2
<1>6. \A j, k \in d.join : j = k
  BY <1>1, ConfigurationIs DEF Optional
<1>7. d.join # {} => d.filter = {} /\ d.outputs = {}
  BY <1>1 DEF Accepted
<1>8. \A j \in d.join : j.left.window \in Nat /\ j.right.window \in Nat
  <2>1. d.join \in SUBSET [left: JoinSources, right: JoinSources, fields: SUBSET [id: STRING,
            name: Names, out: STRING]]
    BY <1>1, ConfigurationIs DEF Optional
  <2>2. \A j \in d.join : j.left \in JoinSources /\ j.right \in JoinSources
    BY <2>1
  <2> QED BY <2>2 DEF JoinSources
<1> QED BY <1>1, <1>2, <1>3, <1>4, <1>5, <1>6, <1>7, <1>8 DEF Regular

\* Nothing shows through of stores that nothing was read into.
LEMMA FreshFits ==
  ASSUME NEW d, NEW live, Regular(d)
  PROVE  Fits(FreshStores, d, live)
<1>1. /\ FreshStores.otlp.dedup = {} /\ FreshStores.sourceType = "kafka"
             /\ FreshStores.registry = NoRegistry
      /\ FreshStores.topics = << >> /\ FreshStores.dedup = << >>
  BY DEF FreshStores
<1>2. Row(<< >>, 0) /\ 0 \in 0..Len(d.sources)
  BY RegularSizes DEF Row
<1>3. \A i \in 1..0 : FALSE
  OBVIOUS
<1> HIDE DEF FreshStores
<1> QED BY <1>1, <1>2, <1>3 DEF Fits

\* What the pipeline that was opened before leaves.
LEMMA OverwrittenFits ==
  ASSUME NEW e, NEW d, NEW table, NEW live, Regular(e), Regular(d), Overwritten(e, d)
  PROVE  Fits(Hydrate(FreshStores, e, table, live), d, live)
<1> DEFINE st == Hydrate(FreshStores, e, table, live)
           n == Len(e.sources)
<1>1. /\ FreshStores.otlp.dedup = {} /\ FreshStores.sourceType = "kafka"
             /\ FreshStores.registry = NoRegistry
      /\ FreshStores.topics = << >> /\ FreshStores.dedup = << >>
  BY DEF FreshStores
<1>2. CASE IsOtlp(d.source)
  <2>1. IsOtlp(e.source) => e.dedup[1] = {} \/ d.dedup[1] # {}
    BY <1>2 DEF Overwritten
  <2>2. st.otlp = IF ~IsOtlp(e.source) THEN FreshStores.otlp
                  ELSE [id |-> e.sources[1].id,
                      dedup |-> IF e.dedup[1] # {} THEN e.dedup[1] ELSE FreshStores.otlp.dedup]
    BY DEF Hydrate
  <2> HIDE DEF st
  <2>3. st.otlp.dedup = {} \/ d.dedup[1] # {}
    BY <1>1, <2>1, <2>2
  <2> QED BY <1>2, <2>3 DEF Fits, st
<1>3. CASE ~IsOtlp(d.source)
  <2>1. /\ ~IsOtlp(e.source) /\ n <= Len(d.sources)
        /\ \A i \in DOMAIN e.sources :
             e.dedup[i] = {} /\ (d.join # {} => e.sources[i].fields = d.sources[i].fields)
        /\ e.sources[1].registry.url # Unset => d.sources[1].registry.url # Unset
    BY <1>3 DEF Overwritten
  <2>2. n \in Nat /\ Row(e.sources, n) /\ Row(e.dedup, n) /\ DOMAIN e.sources = 1..n
            /\ n \in 0..Len(d.sources)
    BY <2>1, RegularSizes DEF Row
  <2>3. /\ st.sourceType = "kafka"
        /\ st.registry = IF e.sources[1].registry.url =
               Unset THEN NoRegistry ELSE e.sources[1].registry
        /\ st.topics = ReadTopics(<< >>, e.sources, live) /\ st.dedup = ReadDedups(<< >>, e.dedup)
    BY <1>1, <2>1 DEF Hydrate
  <2> HIDE DEF st
  <2>4. Row(<< >>, 0) /\ 0 <= n /\ \A i \in 1..0 : FALSE
    BY <2>2 DEF Row
  <2>5. st.topics = [i \in 1..n |-> ReadTopic(e.sources[i],
            IF i \in 1..0 THEN << >>[i].event ELSE {}, live)]
    <3> DEFINE q == e.sources
    <3>1. Row(q, n)
      BY <2>2
    <3> HIDE DEF q, n
    <3>2. ReadTopics(<< >>, q, live) =
            [i \in 1..n |-> ReadTopic(q[i], IF i \in 1..0 THEN << >>[i].event ELSE {}, live)]
      BY <2>4, <3>1, TopicsRead
    <3> QED BY <2>3, <3>2 DEF q
  <2>6. st.dedup = [i \in 1..n |-> IF e.dedup[i] = {} THEN NoDedup
                                   ELSE [on |-> TRUE, key |-> The(e.dedup[i]).key,
                                         window |-> ParseTimeWindow(The(e.dedup[i]).window)]]
    <3> DEFINE q == e.dedup
    <3>1. Row(q, n)
      BY <2>2
    <3> HIDE DEF q, n
    <3>2. ReadDedups(<< >>, q) =
            [i \in 1..n |-> IF q[i] = {} THEN NoDedup
                            ELSE [on |-> TRUE, key |-> The(q[i]).key,
                                window |-> ParseTimeWindow(The(q[i]).window)]]
      BY <2>4, <3>1, DedupsRead
    <3> QED BY <2>3, <3>2 DEF q
  <2>7. Row(st.topics, n) /\ Row(st.dedup, n)
    BY <2>2, <2>5, <2>6 DEF Row
  <2>8. \A i \in 1..n : st.topics[i].event = IF live THEN e.sources[i].fields ELSE {}
    BY <2>4, <2>5 DEF ReadTopic
  <2>9. \A i \in 1..n : st.dedup[i].key = Unset
    BY <2>1, <2>2, <2>6 DEF NoDedup
  <2>10. d.join # {} => \A i \in 1..n : st.topics[i].event =
             IF live THEN d.sources[i].fields ELSE {}
    BY <2>1, <2>2, <2>8
  <2>11. st.registry = NoRegistry \/ d.sources[1].registry.url # Unset
    BY <2>1, <2>3
  <2> HIDE DEF n
  <2> QED BY <1>3, <2>2, <2>3, <2>7, <2>9, <2>10, <2>11 DEF Fits, st
<1> QED BY <1>2, <1>3

-----------------------------------------------------------------------------
(* What the stores can hold is written as it was read *)

\* Windows that are exact are written as they were.
LEMMA WindowsWritten ==
  ASSUME NEW D \in SUBSET [key: STRING, window: Nat], \A c \in D : Exact(c.window)
  PROVE  {[key |-> c.key, window |-> KeptWindow(c.window)] : c \in D} = D
<1>1. \A c \in D : [key |-> c.key, window |-> KeptWindow(c.window)] = c
  <2> SUFFICES ASSUME NEW c \in D PROVE [key |-> c.key, window |-> KeptWindow(c.window)] = c
    OBVIOUS
  <2>1. KeptWindow(c.window) = c.window /\ c \in [key: STRING, window: Nat]
    BY DEF Exact, KeptWindow
  <2> QED BY <2>1
<1> QED BY <1>1

\* So is a negated filter expression.
LEMMA FilterKept ==
  ASSUME NEW S \in SUBSET [not: BOOLEAN, text: STRING], \A f \in S : f.not
  PROVE  {[not |-> TRUE, text |-> f.text] : f \in S} = S
<1>1. \A f \in S : [not |-> TRUE, text |-> f.text] = f
  <2> SUFFICES ASSUME NEW f \in S PROVE [not |-> TRUE, text |-> f.text] = f
    OBVIOUS
  <2>1. f \in [not: BOOLEAN, text: STRING] /\ f.not
    OBVIOUS
  <2>2. f.not = TRUE
    BY <2>1
  <2> QED BY <2>1, <2>2
<1> QED BY <1>1

\* The columns of the table that a field is mapped to.
LEMMA MappingKept ==
  ASSUME NEW M \in SUBSET [name: Names, column: STRING], NEW table,
         table # {} => /\ {m.column : m \in M} \subseteq table
                       /\ \A m, n \in M : m.column = n.column => m = n
  PROVE  MadeMapping(M, table) = M
<1>1. \A m \in M : m = [name |-> m.name, column |-> m.column] /\ m.name # Unset
  <2> SUFFICES ASSUME NEW m \in M PROVE m = [name |-> m.name, column |-> m.column] /\ m.name # Unset
    OBVIOUS
  <2>1. m \in [name: Names, column: STRING]
    OBVIOUS
  <2> QED BY <2>1 DEF Names
<1> DEFINE fieldOf(c) == IF \E m \in M : m.column = c THEN (CHOOSE m \in M : m.column =
        c).name ELSE Unset
           rows == IF table = {} THEN {[column |-> m.column, field |-> m.name] : m \in M}
                   ELSE {[column |-> c, field |-> fieldOf(c)] : c \in table}
           made == {[name |-> row.field,
               column |-> row.column] : row \in {r \in rows : r.field # Unset}}
<1>2. MadeMapping(M, table) = made
  BY Zenon DEF MadeMapping, Mapped, ReadMapping
<1>3. table # {} => \A m \in M : fieldOf(m.column) = m.name
  <2> SUFFICES ASSUME table # {}, NEW m \in M PROVE fieldOf(m.column) = m.name
    OBVIOUS
  <2> DEFINE k == CHOOSE k \in M : k.column = m.column
  <2>1. k \in M /\ k.column = m.column
    OBVIOUS
  <2> HIDE DEF k
  <2>2. k = m
    BY <2>1
  <2> QED BY <2>2 DEF k
<1>4. ASSUME NEW m \in M PROVE m \in made
  <2> DEFINE r == [column |-> m.column, field |-> m.name]
  <2>1. r \in rows
    <3>1. CASE table = {} BY <3>1
    <3>2. CASE table # {}
      <4>1. m.column \in table /\ fieldOf(m.column) = m.name
        BY <1>3, <3>2
      <4> HIDE DEF fieldOf
      <4> QED BY <3>2, <4>1
    <3> QED BY <3>1, <3>2
  <2>2. r.field # Unset /\ m = [name |-> r.field, column |-> r.column]
    BY <1>1
  <2> HIDE DEF r, rows
  <2> QED BY <2>1, <2>2
<1>5. ASSUME NEW x \in made PROVE x \in M
  <2>1. PICK r \in rows : r.field # Unset /\ x = [name |-> r.field, column |-> r.column]
    OBVIOUS
  <2>2. CASE table = {}
    <3>1. PICK m \in M : r = [column |-> m.column, field |-> m.name]
      BY <2>2
    <3>2. x = m
      BY <1>1, <2>1, <3>1
    <3> QED BY <3>2
  <2>3. CASE table # {}
    <3>1. PICK c \in table : r = [column |-> c, field |-> fieldOf(c)]
      BY <2>3
    <3>2. fieldOf(c) # Unset
      <4> HIDE DEF fieldOf
      <4> QED BY <2>1, <3>1
    <3>3. \E m \in M : m.column = c
      BY <3>2
    <3>4. PICK m \in M : m.column = c
      BY <3>3
    <3>5. fieldOf(c) = m.name
      BY <1>3, <2>3, <3>4
    <3> HIDE DEF fieldOf
    <3>6. x = [name |-> m.name, column |-> m.column]
      BY <2>1, <3>1, <3>4, <3>5
    <3> QED BY <1>1, <3>6
  <2> QED BY <2>2, <2>3
<1> HIDE DEF made
<1> QED BY <1>2, <1>4, <1>5

\* The windows of a pipeline are those of its deduplication and its join.
LEMMA WindowsOf ==
  ASSUME NEW d
  PROVE  /\ \A i \in DOMAIN d.dedup : \A c \in d.dedup[i] : c.window \in Windows(d)
         /\ \A j \in d.join : j.left.window \in Windows(d) /\ j.right.window \in Windows(d)
<1> DEFINE inDedup == UNION {{c.window : c \in d.dedup[i]} : i \in DOMAIN d.dedup}
           inJoin == UNION {{j.left.window, j.right.window} : j \in d.join}
<1>1. Windows(d) = inDedup \union inJoin
  BY Zenon DEF Windows
<1>2. \A i \in DOMAIN d.dedup : \A c \in d.dedup[i] : c.window \in inDedup
  <2> SUFFICES ASSUME NEW i \in DOMAIN d.dedup, NEW c \in d.dedup[i] PROVE c.window \in inDedup
    OBVIOUS
  <2> DEFINE S == {x.window : x \in d.dedup[i]}
  <2>1. c.window \in S
    OBVIOUS
  <2>2. S \in {{x.window : x \in d.dedup[k]} : k \in DOMAIN d.dedup}
    OBVIOUS
  <2> HIDE DEF S
  <2> QED BY <2>1, <2>2, Zenon
<1>3. \A j \in d.join : j.left.window \in inJoin /\ j.right.window \in inJoin
  <2> SUFFICES ASSUME NEW j \in d.join PROVE j.left.window \in inJoin /\ j.right.window \in inJoin
    OBVIOUS
  <2> DEFINE S == {j.left.window, j.right.window}
  <2>1. j.left.window \in S /\ j.right.window \in S
    OBVIOUS
  <2>2. S \in {{k.left.window, k.right.window} : k \in d.join}
    OBVIOUS
  <2> HIDE DEF S
  <2> QED BY <2>1, <2>2, Zenon
<1> HIDE DEF inDedup, inJoin
<1> QED BY <1>1, <1>2, <1>3

\* The sources and their deduplication, where the stores can hold them.
LEMMA SourcesKept ==
  ASSUME NEW d, NEW table, NEW live, IsDeployed(d), Representable(d, table, live)
  PROVE  MadeSources(d) = d.sources /\ MadeDedup(d) = d.dedup /\ FirstOf(d) = d.sources[1].id
<1> DEFINE n == Len(d.sources)
<1>1. /\ d \in Configurations /\ Accepted(d) /\ StoredSources(d) = d.sources
  BY DeployedFacts
<1>2. /\ n \in {1, 2} /\ Row(d.sources, n) /\ Row(d.dedup, n) /\ DOMAIN d.sources = 1..n
             /\ DOMAIN d.dedup = 1..n
      /\ 1 \in DOMAIN d.sources /\ (n = 1 <=> d.join = {})
  BY DeployedIsRegular, RegularSizes
<1>3. ASSUME NEW i \in 1..n
      PROVE  d.sources[i] \in Sources /\ d.dedup[i] \in SUBSET [key: STRING, window: Nat]
  <2>1. d.sources[i] \in Sources /\ d.dedup[i] \in Optional([key: STRING, window: Nat])
    BY <1>1, <1>2, ConfigurationIs, SequenceIsRow
  <2> QED BY <2>1 DEF Optional
<1>4. \A i \in 1..n : d.sources[i].version = VersionOf(d.sources[i], IsOtlp(d.source))
  <2> SUFFICES ASSUME NEW i \in 1..n
               PROVE  d.sources[i].version = VersionOf(d.sources[i], IsOtlp(d.source))
    OBVIOUS
  <2> DEFINE v == VersionOf(d.sources[i], IsOtlp(d.source))
  <2>1. d.sources[i] = [d.sources[i] EXCEPT !.version = v]
    BY <1>1, <1>2 DEF StoredSources
  <2> HIDE DEF v
  <2>2. d.sources[i].version = v
    BY <1>3, <2>1 DEF Sources
  <2> QED BY <2>2 DEF v
<1>5. \A i \in 1..n : SourceAccepted(d.sources[i], IsOtlp(d.source))
  BY <1>1, <1>2, Zenon DEF Accepted
<1>6. CASE IsOtlp(d.source)
  <2>1. n = 1
    <3>1. d.join = {}
      BY <1>6, DeployedIsRegular DEF Regular
    <3> QED BY <1>2, <3>1
  <2>2. /\ d.sources[1] \in Sources /\ d.sources[1].topic = Unset /\ d.sources[1].fields = {}
        /\ d.sources[1].registry = NoRegistry /\ d.sources[1].version = Unset
    BY <1>3, <1>4, <1>5, <1>6, <2>1 DEF SourceAccepted, VersionOf
  <2>3. d.sources[1] = [id |-> d.sources[1].id, topic |-> Unset, fields |-> {}, version |-> Unset,
                        registry |-> NoRegistry]
    BY <2>2 DEF Sources
  <2>4. d.sources = <<d.sources[1]>> /\ d.dedup = <<d.dedup[1]>>
    BY <1>2, <2>1 DEF Row
  <2>5. MadeSources(d) = <<[id |-> d.sources[1].id, topic |-> Unset, fields |-> {},
            version |-> Unset, registry |-> NoRegistry]>>
        /\ MadeDedup(d) = <<d.dedup[1]>> /\ FirstOf(d) = d.sources[1].id
    BY <1>6, Zenon DEF MadeSources, MadeDedup, FirstOf
  <2> QED BY <2>3, <2>4, <2>5
<1>7. CASE ~IsOtlp(d.source)
  <2>1. \A i \in DOMAIN d.sources :
            LET s == d.sources[i]
            IN  /\ s.topic = s.id /\ s.registry = d.sources[1].registry
                /\ IF s.registry.url = Unset THEN s.registry = NoRegistry /\ s.version = "1"
                   ELSE s.version # "latest"
    BY <1>7, Zenon DEF Representable
  <2>2. ASSUME NEW i \in 1..n PROVE MadeSource(d.sources[i], d) = d.sources[i]
    <3> DEFINE s == d.sources[i]
               first == d.sources[1].registry
    <3>1. /\ s.topic = s.id /\ s.registry = first
          /\ IF s.registry.url = Unset THEN s.registry = NoRegistry
                 /\ s.version = "1" ELSE s.version # "latest"
      BY <1>2, <2>1
    <3>2. s \in Sources
      BY <1>3
    <3>3. s.version # Unset
      <4> "1" # Unset
        BY DEF Unset
      <4> QED BY <1>4, <1>7 DEF VersionOf
    <3> HIDE DEF s, first
    <3>4. [id |-> s.topic, topic |-> s.topic, fields |-> s.fields,
           registry |-> IF first.url = Unset THEN NoRegistry ELSE first,
           version |-> IF s.registry.url = Unset \/ s.version \in {Unset,
               "latest"} THEN "1" ELSE s.version] = s
      BY <3>1, <3>2, <3>3 DEF Sources
    <3> QED BY <3>4, Zenon DEF MadeSource, s, first
  <2>3. MadeSources(d) = d.sources
    <3>1. MadeSources(d) = [i \in 1..n |-> MadeSource(d.sources[i], d)]
      BY <1>2, <1>7, Zenon DEF MadeSources
    <3> QED BY <1>2, <2>2, <3>1 DEF Row
  <2>4. ASSUME NEW i \in 1..n
        PROVE  {[key |-> c.key, window |-> KeptWindow(c.window)] : c \in d.dedup[i]} = d.dedup[i]
    <3>1. \A c \in d.dedup[i] : c.window \in Windows(d)
      BY <1>2, WindowsOf, Zenon
    <3>2. \A c \in d.dedup[i] : Exact(c.window)
      BY <1>7, <3>1 DEF Representable
    <3>3. d.dedup[i] \in SUBSET [key: STRING, window: Nat]
      BY <1>3
    <3> QED BY <3>2, <3>3, WindowsWritten
  <2>5. MadeDedup(d) = d.dedup
    <3>1. MadeDedup(d) = [i \in 1..n |-> {[key |-> c.key,
              window |-> KeptWindow(c.window)] : c \in d.dedup[i]}]
      BY <1>2, <1>7, Zenon DEF MadeDedup
    <3> QED BY <1>2, <2>4, <3>1 DEF Row
  <2>6. FirstOf(d) = d.sources[1].id
    BY <1>2, <1>7, <2>1 DEF FirstOf
  <2> QED BY <2>3, <2>5, <2>6
<1> QED BY <1>6, <1>7

\* The join, where its outputs are attributed as the UI attributes them.
LEMMA JoinKept ==
  ASSUME NEW d, NEW table, NEW live, IsDeployed(d), Representable(d, table, live),
      MadeMapping(d.mapping, table) = d.mapping
  PROVE  MadeJoin(d, table, live) = d.join
<1>1. /\ d \in Configurations /\ Accepted(d) /\ Regular(d)
  BY DeployedFacts, DeployedIsRegular
<1>2. CASE d.join = {}
  BY <1>2 DEF MadeJoin
<1>3. CASE d.join # {}
  <2> DEFINE j == The(d.join)
  <2>1. d.join = {j} /\ j \in [left: JoinSources, right: JoinSources, fields: SUBSET [id: STRING,
            name: Names, out: STRING]]
    <3>1. \A y, z \in d.join : y = z
      BY <1>1 DEF Regular
    <3>2. PICK x \in d.join : TRUE
      BY <1>3
    <3>3. d.join = {x} /\ The(d.join) = x
      BY <3>1, <3>2, TheOne
    <3>4. d.join \in SUBSET [left: JoinSources, right: JoinSources, fields: SUBSET [id: STRING,
              name: Names, out: STRING]]
      BY <1>1, ConfigurationIs DEF Optional
    <3> QED BY <3>3, <3>4
  <2> HIDE DEF j
  <2>2. /\ live /\ Attributed(d, j) /\ ~IsOtlp(d.source) /\ JoinAccepted(d, j)
        /\ Exact(j.left.window) /\ Exact(j.right.window)
    <3>1. live /\ Attributed(d, j)
      BY <1>3, Zenon DEF Representable, j
    <3>2. ~IsOtlp(d.source) /\ JoinAccepted(d, j)
      BY <1>1, <1>3, Zenon DEF Accepted, j
    <3>3. j.left.window \in Windows(d) /\ j.right.window \in Windows(d)
      BY <2>1, WindowsOf
    <3>4. \A t \in Windows(d) : Exact(t)
      BY <3>2, Zenon DEF Representable
    <3> QED BY <3>1, <3>2, <3>3, <3>4
  <2>3. MadeSide(j.left) = j.left /\ MadeSide(j.right) = j.right
    <3>1. KeptWindow(j.left.window) = j.left.window /\ KeptWindow(j.right.window) = j.right.window
      BY <2>2 DEF Exact, KeptWindow
    <3>2. j.left \in JoinSources /\ j.right \in JoinSources
      BY <2>1
    <3>3. ASSUME NEW side \in JoinSources, KeptWindow(side.window) = side.window
          PROVE  MadeSide(side) = side
      BY <3>3 DEF MadeSide, JoinSources
    <3> QED BY <3>1, <3>2, <3>3
  <2> DEFINE n == Len(d.sources)
             has(name) == {i \in DOMAIN d.sources : name \in d.sources[i].fields}
             from(name) == CASE name = j.left.key -> j.left.id
                        [] name = j.right.key /\ name # j.left.key -> j.right.id
                        [] OTHER -> d.sources[Min(has(name))].id
  <2>4. /\ n = 2 /\ DOMAIN d.sources = {1, 2}
    <3>1. n \in {1, 2} /\ (n = 1 <=> d.join = {}) /\ DOMAIN d.sources = 1..n
      BY <1>1, RegularSizes
    <3> HIDE DEF n
    <3> QED BY <1>3, <3>1
  <2>5. /\ {f.name : f \in j.fields} = {m.name : m \in d.mapping}
        /\ \A f \in j.fields : f.out = f.name /\ f.id = from(f.name)
    BY <2>2, Zenon DEF Attributed
  <2>6. \A i \in {1, 2} : d.sources[i].topic = d.sources[i].id
    BY <2>2, <2>4, Zenon DEF Representable
  <2>7. \A f \in j.fields : has(f.name) # {}
    <3>1. \A f \in j.fields : f.name \in FieldsOf(d, f.id)
      BY <2>2, Zenon DEF JoinAccepted
    <3> QED BY <3>1 DEF FieldsOf
  <2>8. ASSUME NEW f \in j.fields PROVE SourceFor(f.name, d, live) = f.id
    <3>1. SourceFor(f.name, d, live) =
            IF f.name = j.left.key THEN j.left.id ELSE IF f.name = j.right.key THEN j.right.id
            ELSE d.sources[IF has(f.name) = {} THEN 1 ELSE Min(has(f.name))].topic
      <4>1. has(f.name) = {i \in DOMAIN d.sources : live /\ f.name \in d.sources[i].fields}
        BY <2>2
      <4> HIDE DEF has
      <4> QED BY <4>1, Zenon DEF SourceFor, j
    <3>2. Min(has(f.name)) \in {1, 2}
      <4> DEFINE H == has(f.name)
      <4>1. H \in SUBSET {1, 2} /\ H # {}
        BY <2>4, <2>7
      <4> HIDE DEF H
      <4>2. 1 \in H \/ H = {2}
        BY <4>1
      <4>3. Min(H) \in {1, 2}
        BY <4>1, <4>2, FirstOfTwo
      <4> QED BY <4>3 DEF H
    <3>3. f.id = from(f.name)
      BY <2>5
    <3> HIDE DEF has
    <3> QED BY <2>6, <2>7, <3>1, <3>2, <3>3
  <2>9. MadeFields(d, table, live) = j.fields
    <3>1. MadeFields(d, table, live) =
            {[id |-> SourceFor(m.name, d, live), name |-> m.name, out |-> m.name] : m \in d.mapping}
      BY Zenon DEF MadeFields
    <3>2. \A f \in j.fields : f = [id |-> SourceFor(f.name, d, live), name |-> f.name,
              out |-> f.name]
      <4> SUFFICES ASSUME NEW f \in j.fields
                   PROVE  f = [id |-> SourceFor(f.name, d, live), name |-> f.name, out |-> f.name]
        OBVIOUS
      <4>1. f \in [id: STRING, name: Names, out: STRING]
        BY <2>1
      <4>2. f.out = f.name /\ SourceFor(f.name, d, live) = f.id
        BY <2>5, <2>8
      <4> QED BY <4>1, <4>2
    <3>3. ASSUME NEW x \in MadeFields(d, table, live) PROVE x \in j.fields
      <4>1. PICK m \in d.mapping : x = [id |-> SourceFor(m.name, d, live), name |-> m.name,
                out |-> m.name]
        BY <3>1
      <4>2. PICK f \in j.fields : f.name = m.name
        BY <2>5
      <4> QED BY <3>2, <4>1, <4>2
    <3>4. ASSUME NEW f \in j.fields PROVE f \in MadeFields(d, table, live)
      <4>1. PICK m \in d.mapping : f.name = m.name
        BY <2>5
      <4>2. f = [id |-> SourceFor(m.name, d, live), name |-> m.name, out |-> m.name]
        BY <3>2, <4>1
      <4> QED BY <3>1, <4>2
    <3> QED BY <3>3, <3>4
  <2>10. MadeJoin(d, table, live) = {[left |-> MadeSide(j.left), right |-> MadeSide(j.right),
                                      fields |-> MadeFields(d, table, live)]}
    BY <1>3, Zenon DEF MadeJoin, j
  <2>11. j = [left |-> j.left, right |-> j.right, fields |-> j.fields]
    BY <2>1
  <2> QED BY <2>1, <2>3, <2>9, <2>10, <2>11
<1> QED BY <1>2, <1>3

Shaped(T) == \A t \in T : t = [id |-> t.id, size |-> t.size, storage |-> t.storage]

\* The one block of the transformation, once for every owner.
LEMMA TransformIs ==
  ASSUME NEW T, NEW owners, T # {}
  PROVE  TransformOf(T, owners) = {[The(T) EXCEPT !.id = id] : id \in owners}
<1> DEFINE t == The(T)
<1>1. TransformOf(T, owners) = UNION {{[u EXCEPT !.id = id] : id \in owners} : u \in {t}}
  BY Zenon DEF TransformOf
<1> HIDE DEF t
<1>2. UNION {{[u EXCEPT !.id = id] : id \in owners} : u \in {t}} = {[t EXCEPT !.id =
          id] : id \in owners}
  <2>1. {{[u EXCEPT !.id = id] : id \in owners} : u \in {t}} = {{[t EXCEPT !.id =
            id] : id \in owners}}
    OBVIOUS
  <2>2. \A S : UNION {S} = S
    OBVIOUS
  <2> QED BY <2>1, <2>2, Zenon
<1> QED BY <1>1, <1>2 DEF t

\* Without a block there is none for anyone.
LEMMA TransformOfNone ==
  ASSUME NEW owners
  PROVE  TransformOf({}, owners) = {}
BY DEF TransformOf

\* An entry for every owner, of the one size and storage.
LEMMA TransformEntries ==
  ASSUME NEW T, NEW owners, Shaped(T), T # {}
  PROVE  /\ The(T) \in T
         /\ TransformOf(T, owners) =
              {[id |-> id, size |-> The(T).size, storage |-> The(T).storage] : id \in owners}
<1> DEFINE t == The(T)
<1>1. t \in T
  BY DEF The
<1>2. t = [id |-> t.id, size |-> t.size, storage |-> t.storage]
  BY <1>1 DEF Shaped
<1> HIDE DEF t
<1>3. \A id \in owners : [t EXCEPT !.id = id] = [id |-> id, size |-> t.size, storage |-> t.storage]
  BY <1>2
<1>4. TransformOf(T, owners) = {[t EXCEPT !.id = id] : id \in owners}
  BY TransformIs, Zenon DEF t
<1>5. {[t EXCEPT !.id = id] : id \in owners} = {[id |-> id, size |-> t.size,
          storage |-> t.storage] : id \in owners}
  BY ZenonT(40), <1>3
<1> QED BY <1>1, <1>4, <1>5 DEF t

\* Handing the block out twice is handing it out once.
LEMMA TransformIsStable ==
  ASSUME NEW T, NEW owners, Shaped(T)
  PROVE  /\ Shaped(TransformOf(T, owners))
         /\ TransformOf(TransformOf(T, owners), owners) = TransformOf(T, owners)
         /\ T = {} => TransformOf(T, owners) = {}
         /\ \A t \in TransformOf(T, owners) : \E u \in T : t.storage = u.storage /\ t.id \in owners
<1> DEFINE K == TransformOf(T, owners)
           t == The(T)
           k == The(K)
<1>1. CASE T = {}
  BY <1>1, TransformOfNone DEF Shaped
<1>2. CASE T # {}
  <2>1. t \in T /\ K = {[id |-> id, size |-> t.size, storage |-> t.storage] : id \in owners}
    BY <1>2, TransformEntries, Zenon
  <2> HIDE DEF t, K
  <2>2. Shaped(K)
    BY <2>1 DEF Shaped
  <2>3. \A x \in K : x.size = t.size /\ x.storage = t.storage /\ x.id \in owners
    BY <2>1
  <2>4. TransformOf(K, owners) = K
    <3>1. CASE K = {} BY <3>1, TransformOfNone
    <3>2. CASE K # {}
      <4>1. k \in K /\ TransformOf(K, owners) = {[id |-> id, size |-> k.size,
                storage |-> k.storage] : id \in owners}
        BY <2>2, <3>2, TransformEntries, Zenon
      <4> HIDE DEF k
      <4>2. k.size = t.size /\ k.storage = t.storage
        BY <2>3, <4>1
      <4> QED BY <2>1, <4>1, <4>2
    <3> QED BY <3>1, <3>2
  <2> QED BY <1>2, <2>1, <2>2, <2>3, <2>4 DEF K
<1> QED BY <1>1, <1>2

\* The block that is sent for the first source is handed out as it was.
LEMMA TransformWritten ==
  ASSUME NEW T, NEW owners, Shaped(T), TransformOf(T, owners) = T, NEW first, NEW some \in BOOLEAN,
         \A t \in T : t.storage # Unset => some
  PROVE  LET wrote == {[id |-> first, size |-> t.size,
      storage |-> IF some THEN t.storage ELSE Unset] : t \in T}
         IN  TransformOf(wrote, owners) = T
<1> DEFINE W == {[id |-> first, size |-> t.size,
        storage |-> IF some THEN t.storage ELSE Unset] : t \in T}
           t0 == The(T)
           w == The(W)
<1>1. CASE T = {}
  <2>1. W = {}
    BY <1>1
  <2> HIDE DEF W
  <2> QED BY <1>1, <2>1, TransformOfNone DEF W
<1>2. CASE T # {}
  <2>1. t0 \in T /\ T = {[id |-> id, size |-> t0.size, storage |-> t0.storage] : id \in owners}
    BY <1>2, TransformEntries, Zenon
  <2> HIDE DEF t0
  <2>2. W # {} /\ Shaped(W)
    <3>1. W # {}
      BY <1>2
    <3>2. ASSUME NEW x \in W PROVE x = [id |-> x.id, size |-> x.size, storage |-> x.storage]
      <4>1. PICK t \in T : x = [id |-> first, size |-> t.size,
                storage |-> IF some THEN t.storage ELSE Unset]
        OBVIOUS
      <4> QED BY <4>1
    <3> QED BY <3>1, <3>2 DEF Shaped
  <2>3. \A x \in W : x.size = t0.size /\ x.storage = t0.storage
    <3>1. \A t \in T : t.size = t0.size /\ t.storage = t0.storage
      BY <2>1
    <3> QED BY <3>1
  <2> HIDE DEF W
  <2>4. w \in W /\ TransformOf(W, owners) = {[id |-> id, size |-> w.size,
            storage |-> w.storage] : id \in owners}
    BY <2>2, TransformEntries, Zenon
  <2> HIDE DEF w
  <2>5. TransformOf(W, owners) = T
    BY <2>1, <2>3, <2>4
  <2> QED BY <2>5 DEF W
<1> QED BY <1>1, <1>2

\* Who deduplicates and who is transformed depends on little.
LEMMA OwnersAre ==
  ASSUME NEW x, NEW y, DOMAIN x.sources = DOMAIN y.sources, 1 \in DOMAIN x.sources,
      x.outputs = y.outputs,
         \A i \in DOMAIN x.sources : x.sources[i].id = y.sources[i].id
             /\ (x.dedup[i] = {} <=> y.dedup[i] = {})
  PROVE  Owners(x) = Owners(y) /\ Deduplicating(x) = Deduplicating(y)
<1>1. {j \in DOMAIN x.sources : x.dedup[j] # {}} = {j \in DOMAIN y.sources : y.dedup[j] # {}}
  OBVIOUS
<1> DEFINE D == {j \in DOMAIN x.sources : x.dedup[j] # {}}
<1>2. {x.sources[i].id : i \in D} = {y.sources[i].id : i \in D}
  OBVIOUS
<1> HIDE DEF D
<1>3. Deduplicating(x) = {x.sources[i].id : i \in D}
          /\ Deduplicating(y) = {y.sources[i].id : i \in D}
  BY <1>1, Zenon DEF Deduplicating, D
<1> QED BY <1>2, <1>3 DEF Owners

\* What is sent, field by field.
LEMMA MadeIs ==
  ASSUME NEW d, NEW table, NEW live
  PROVE  /\ Whole(Made(d, table, live)) /\ Made(d, table, live).source = d.source
         /\ Made(d, table, live).sources = MadeSources(d)
         /\ Made(d, table, live).conn = (IF IsOtlp(d.source) THEN NoConnection ELSE WriteConnection(ReadConnection(d.conn)))
         /\ Made(d, table, live).dedup = MadeDedup(d)
                /\ Made(d, table, live).join = MadeJoin(d, table, live)
         /\ Made(d, table, live).filter = {[not |-> TRUE, text |-> f.text] : f \in d.filter}
         /\ Made(d, table, live).outputs = d.outputs
                /\ Made(d, table, live).mapping = MadeMapping(d.mapping, table)
         /\ Made(d, table, live).delay = KeptDelay(d.delay)
                /\ Made(d, table, live).resources = MadeResources(d)
<1> DEFINE conn == IF IsOtlp(d.source) THEN NoConnection ELSE WriteConnection(ReadConnection(d.conn))
           filter == {[not |-> TRUE, text |-> f.text] : f \in d.filter}
           M == Made(d, table, live)
           R == MadeResources(d)
<1>1. M = [source |-> d.source, sources |-> MadeSources(d), conn |-> conn, dedup |-> MadeDedup(d),
           join |-> MadeJoin(d, table, live), filter |-> filter, outputs |-> d.outputs,
           mapping |-> MadeMapping(d.mapping, table), delay |-> KeptDelay(d.delay), resources |-> R]
  BY Zenon DEF Made
<1>2. \E x, y : R = [sources |-> x, transform |-> y]
  BY Zenon DEF MadeResources
<1>3. R = [sources |-> R.sources, transform |-> R.transform]
  <2> HIDE DEF R
  <2> QED BY <1>2
<1> HIDE DEF conn, filter, M, R
<1>4. /\ M.source = d.source /\ M.sources = MadeSources(d) /\ M.conn = conn
      /\ M.dedup = MadeDedup(d) /\ M.join = MadeJoin(d, table, live) /\ M.filter = filter
      /\ M.outputs = d.outputs /\ M.mapping = MadeMapping(d.mapping, table)
      /\ M.delay = KeptDelay(d.delay) /\ M.resources = R
  BY <1>1
<1>5. Whole(M)
  <2>1. M = [source |-> M.source, sources |-> M.sources, conn |-> M.conn, dedup |-> M.dedup,
            join |-> M.join,
          filter |-> M.filter, outputs |-> M.outputs, mapping |-> M.mapping, delay |-> M.delay,
          resources |-> M.resources]
    BY <1>1
  <2>2. M.resources = [sources |-> M.resources.sources, transform |-> M.resources.transform]
    BY <1>3, <1>4
  <2> QED BY <2>1, <2>2, Zenon DEF Whole
<1> QED BY <1>4, <1>5, Zenon DEF M, conn, filter, R

\* A deduplication, in whichever source.
Some(dedup) == \E i \in DOMAIN dedup : dedup[i] # {}

\* The block of the transformation that is sent.
LEMMA MadeTransform ==
  ASSUME NEW d
  PROVE  MadeResources(d).transform =
           {[id |-> FirstOf(d), size |-> t.size,
               storage |-> IF Some(d.dedup) THEN t.storage ELSE Unset] :
              t \in d.resources.transform}
<1> DEFINE T == {[id |-> FirstOf(d), size |-> t.size,
        storage |-> IF Some(d.dedup) THEN t.storage ELSE Unset] :
                   t \in d.resources.transform}
<1>1. \E x : MadeResources(d) = [sources |-> x, transform |-> T]
  BY Zenon DEF MadeResources, Some
<1> HIDE DEF T
<1>2. MadeResources(d).transform = T
  BY <1>1
<1> QED BY <1>2 DEF T

\* The sizes of the sources that are sent.
LEMMA MadeSizes ==
  ASSUME NEW d
  PROVE  MadeResources(d).sources =
           IF d.join # {} THEN SizesOf(d.resources.sources, The(d.join).left.id)
                                 \union SizesOf(d.resources.sources, The(d.join).right.id)
           ELSE IF IsOtlp(d.source) THEN {}
           ELSE {[id |-> FirstOf(d), size |-> r.size] : r \in d.resources.sources}
<1> DEFINE S == IF d.join # {} THEN SizesOf(d.resources.sources, The(d.join).left.id)
                                 \union SizesOf(d.resources.sources, The(d.join).right.id)
           ELSE IF IsOtlp(d.source) THEN {}
           ELSE {[id |-> FirstOf(d), size |-> r.size] : r \in d.resources.sources}
<1>1. \E x : MadeResources(d) = [sources |-> S, transform |-> x]
  BY Zenon DEF MadeResources
<1> HIDE DEF S
<1>2. MadeResources(d).sources = S
  BY <1>1
<1> QED BY <1>2 DEF S

\* The sizes of the sources of a pipeline.
LEMMA SizesKept ==
  ASSUME NEW d, IsDeployed(d), FirstOf(d) = d.sources[1].id
  PROVE  MadeResources(d).sources = d.resources.sources
<1> DEFINE R == d.resources.sources
           j == The(d.join)
<1>1. /\ d \in Configurations /\ Accepted(d) /\ Regular(d)
  BY DeployedFacts, DeployedIsRegular
<1>2. \A r \in R : r = [id |-> r.id, size |-> r.size]
  <2>1. R \in SUBSET [id: STRING, size: STRING]
    BY <1>1, ConfigurationIs
  <2> QED BY <2>1
<1>3. \A r \in R : r.id \in Ids(d) /\ ~IsOtlp(d.source)
  BY <1>1, Zenon DEF Accepted
<1>4. CASE d.join # {}
  <2>1. JoinAccepted(d, j)
    BY <1>1, <1>4, Zenon DEF Accepted
  <2>2. j.left.id # j.right.id /\ j.left.id \in Ids(d) /\ j.right.id \in Ids(d)
    BY <2>1, Zenon DEF JoinAccepted
  <2>3. DOMAIN d.sources = {1, 2}
    BY <1>1, <1>4, RegularSizes
  <2>4. Ids(d) = {d.sources[1].id, d.sources[2].id}
    BY <2>3 DEF Ids
  <2>5. Ids(d) = {j.left.id, j.right.id}
    BY <2>2, <2>4
  <2> HIDE DEF j
  <2>6. SizesOf(R, j.left.id) \union SizesOf(R, j.right.id) = R
    <3>1. ASSUME NEW id PROVE SizesOf(R, id) = {r \in R : r.id = id}
      BY <1>2 DEF SizesOf
    <3>2. \A r \in R : r.id = j.left.id \/ r.id = j.right.id
      BY <1>3, <2>5
    <3> QED BY <3>1, <3>2
  <2> QED BY <1>4, <2>6, MadeSizes DEF j
<1>5. CASE d.join = {}
  <2>1. CASE IsOtlp(d.source)
    BY <1>3, <1>5, <2>1, MadeSizes
  <2>2. CASE ~IsOtlp(d.source)
    <3>1. DOMAIN d.sources = {1}
      BY <1>1, <1>5, RegularSizes
    <3>2. \A r \in R : r.id = d.sources[1].id
      BY <1>3, <3>1 DEF Ids
    <3>3. \A r \in R : [id |-> FirstOf(d), size |-> r.size] = r
      BY <1>2, <3>2
    <3>4. {[id |-> FirstOf(d), size |-> r.size] : r \in R} = R
      BY <3>3
    <3> QED BY <1>5, <2>2, <3>4, MadeSizes
  <2> QED BY <2>1, <2>2
<1> QED BY <1>4, <1>5

\* What the API accepts of one configuration it accepts of another that differs from it in
\* the resources of its transformation only.
LEMMA AcceptedAgain ==
  ASSUME NEW x, NEW d, Accepted(d), x.source = d.source, x.sources = d.sources, x.conn = d.conn,
      x.dedup = d.dedup,
         x.join = d.join, x.filter = d.filter, x.outputs = d.outputs, x.mapping = d.mapping,
         x.resources.sources = d.resources.sources,
         \A t \in x.resources.transform : t.id \in Ids(d)
             /\ (t.storage # Unset => t.id \in Deduplicating(d))
  PROVE  Accepted(x)
<1>1. Ids(x) = Ids(d) /\ Deduplicating(x) = Deduplicating(d)
  BY Zenon DEF Ids, Deduplicating
<1>2. \A id : FieldsOf(x, id) = FieldsOf(d, id)
  BY Zenon DEF FieldsOf
<1>3. SinkFields(x) = SinkFields(d)
  BY <1>2, Zenon DEF SinkFields
<1>4. \A j : JoinAccepted(d, j) => JoinAccepted(x, j)
  BY <1>1, <1>2, Zenon DEF JoinAccepted
<1>5. /\ Len(x.sources) \in 1..2
      /\ \A i, k \in DOMAIN x.sources : x.sources[i].id = x.sources[k].id => i = k
      /\ \A i \in DOMAIN x.sources : SourceAccepted(x.sources[i], IsOtlp(x.source))
      /\ IF IsOtlp(x.source) THEN x.conn = NoConnection ELSE ConnectionAccepted(x.conn)
      /\ (Len(x.sources) = 2) = (x.join # {}) /\ (IsOtlp(x.source) => x.join = {})
      /\ \A i \in DOMAIN x.dedup : \A c \in x.dedup[i] :
           c.key # Unset /\ c.window > 0 /\ (IsOtlp(x.source) \/ c.key \in x.sources[i].fields)
  BY Zenon DEF Accepted
<1>6. IsOtlp(x.source) \/ {m.name : m \in x.mapping} \subseteq SinkFields(x)
  BY <1>3, Zenon DEF Accepted
<1>7. x.join # {} => x.filter = {} /\ x.outputs = {} /\ JoinAccepted(x, The(x.join))
  BY <1>4, Zenon DEF Accepted
<1>8. \A r \in x.resources.sources : r.id \in Ids(x) /\ ~IsOtlp(x.source)
  BY <1>1, Zenon DEF Accepted
<1>9. \A t \in x.resources.transform : t.id \in Ids(x)
          /\ (t.storage # Unset => t.id \in Deduplicating(x))
  BY <1>1, Zenon
<1> QED BY <1>5, <1>6, <1>7, <1>8, <1>9, Zenon DEF Accepted

\* A pipeline the stores can hold: what is sent is accepted and becomes that pipeline.
LEMMA RepresentableIsKept ==
  ASSUME NEW d, NEW table, NEW live, IsDeployed(d), Representable(d, table, live)
  PROVE  Accepted(Made(d, table, live)) /\ Stored(Made(d, table, live)) = d
<1> DEFINE M == Made(d, table, live)
           T == d.resources.transform
<1>1. /\ d \in Configurations /\ Accepted(d) /\ Regular(d) /\ Whole(d)
             /\ StoredSources(d) = d.sources
      /\ d.delay > 0 /\ d.delay \in Nat /\ TransformOf(T, Owners(d)) = T
  BY DeployedFacts, DeployedIsRegular, ConfigurationIs
<1>2. MadeSources(d) = d.sources /\ MadeDedup(d) = d.dedup /\ FirstOf(d) = d.sources[1].id
  BY SourcesKept
<1>3. MadeMapping(d.mapping, table) = d.mapping
  <2>1. d.mapping \in SUBSET [name: Names, column: STRING]
    BY <1>1, ConfigurationIs
  <2>2. table # {} => /\ {m.column : m \in d.mapping} \subseteq table
                      /\ \A m, n \in d.mapping : m.column = n.column => m = n
    BY Zenon DEF Representable
  <2> QED BY <2>1, <2>2, MappingKept
<1>4. MadeJoin(d, table, live) = d.join
  BY <1>3, JoinKept
<1>5. {[not |-> TRUE, text |-> f.text] : f \in d.filter} = d.filter
  <2>1. d.filter \in SUBSET [not: BOOLEAN, text: STRING]
    BY <1>1, ConfigurationIs DEF Optional
  <2>2. \A f \in d.filter : f.not
    BY Zenon DEF Representable
  <2> QED BY <2>1, <2>2, FilterKept
<1>6. KeptDelay(d.delay) = d.delay
  BY Zenon DEF Representable, KeptDelay
<1>7. MadeResources(d).sources = d.resources.sources
  BY <1>2, SizesKept
<1>8. (IF IsOtlp(d.source) THEN NoConnection ELSE WriteConnection(ReadConnection(d.conn))) = d.conn
  <2>1. CASE IsOtlp(d.source)
    BY <1>1, <2>1, Zenon DEF Accepted
  <2>2. CASE ~IsOtlp(d.source)
    <3>1. d.conn.method # "GSSAPI" /\ WriteConnection(d.conn) = d.conn
      BY <2>2, Zenon DEF Representable
    <3>2. ReadConnection(d.conn) = d.conn
      BY <3>1, Zenon DEF ReadConnection
    <3> QED BY <2>2, <3>1, <3>2
  <2> QED BY <2>1, <2>2
<1>9. /\ Whole(M) /\ M.source = d.source /\ M.sources = d.sources /\ M.conn = d.conn
             /\ M.dedup = d.dedup
      /\ M.join = d.join /\ M.filter = d.filter /\ M.outputs = d.outputs /\ M.mapping = d.mapping
      /\ M.delay = d.delay /\ M.resources.sources = d.resources.sources
      /\ M.resources.transform = MadeResources(d).transform
  <2>1. /\ Whole(M) /\ M.source = d.source /\ M.sources = MadeSources(d)
        /\ M.conn = (IF IsOtlp(d.source) THEN NoConnection ELSE WriteConnection(ReadConnection(d.conn)))
        /\ M.dedup = MadeDedup(d) /\ M.join = MadeJoin(d, table, live)
        /\ M.filter = {[not |-> TRUE, text |-> f.text] : f \in d.filter}
        /\ M.outputs = d.outputs /\ M.mapping = MadeMapping(d.mapping, table)
        /\ M.delay = KeptDelay(d.delay) /\ M.resources = MadeResources(d)
    BY MadeIs
  <2> HIDE DEF M
  <2> QED BY <1>2, <1>3, <1>4, <1>5, <1>6, <1>7, <1>8, <2>1
<1> HIDE DEF M
<1>10. Shaped(T)
  <2>1. T \in SUBSET [id: STRING, size: STRING, storage: STRING]
    BY <1>1, ConfigurationIs
  <2> QED BY <2>1 DEF Shaped
<1>11. 1 \in DOMAIN d.sources /\ DOMAIN d.dedup = DOMAIN d.sources
  BY <1>1, RegularSizes
<1>12. \A t \in T : t.storage # Unset => Some(d.dedup)
  <2>1. \A t \in T : t.storage # Unset => t.id \in Deduplicating(d)
    BY <1>1, Zenon DEF Accepted
  <2>2. Deduplicating(d) # {} => Some(d.dedup)
    BY <1>11 DEF Deduplicating, Some
  <2> QED BY <2>1, <2>2
<1>13. M.resources.transform =
         {[id |-> FirstOf(d), size |-> t.size,
             storage |-> IF Some(d.dedup) THEN t.storage ELSE Unset] : t \in T}
  BY <1>9, MadeTransform
<1>14. Owners(M) = Owners(d)
  BY <1>9, Zenon DEF Owners, Deduplicating
<1>15. TransformOf(M.resources.transform, Owners(M)) = T
  <2> DEFINE some == Some(d.dedup)
             first == FirstOf(d)
             O == Owners(d)
  <2>1. some \in BOOLEAN
    BY DEF Some
  <2> HIDE DEF T, O, first
  <2>2. TransformOf(T, O) = T
    BY <1>1 DEF O
  <2> HIDE DEF some
  <2>3. \A t \in T : t.storage # Unset => some
    BY <1>12 DEF some
  <2>4. TransformOf({[id |-> first, size |-> t.size,
            storage |-> IF some THEN t.storage ELSE Unset] : t \in T}, O) = T
    BY <1>10, <2>1, <2>2, <2>3, TransformWritten
  <2> QED BY <1>13, <1>14, <2>4 DEF some, first, O
<1>16. Stored(M) = d
  <2>1. Stored(M) = [source |-> M.source, sources |-> StoredSources(M), conn |-> M.conn,
            dedup |-> M.dedup,
                      join |-> M.join, filter |-> M.filter, outputs |-> M.outputs,
                          mapping |-> M.mapping,
                      delay |-> StoredDelay(M.delay),
                      resources |-> [sources |-> M.resources.sources,
                                     transform |-> TransformOf(M.resources.transform, Owners(M))]]
    BY <1>9, StoredFields
  <2>2. StoredSources(M) = StoredSources(d)
    BY <1>9, Zenon DEF StoredSources
  <2>3. StoredDelay(M.delay) = d.delay
    BY <1>1, <1>9 DEF StoredDelay
  <2>4. /\ d = [source |-> d.source, sources |-> d.sources, conn |-> d.conn, dedup |-> d.dedup,
               join |-> d.join,
                filter |-> d.filter, outputs |-> d.outputs, mapping |-> d.mapping,
                    delay |-> d.delay,
                resources |-> d.resources]
        /\ d.resources = [sources |-> d.resources.sources, transform |-> d.resources.transform]
    BY <1>1, Zenon DEF Whole
  <2> QED BY <1>1, <1>9, <1>15, <2>1, <2>2, <2>3, <2>4, Zenon
<1>17. Accepted(M)
  <2>1. \A t \in M.resources.transform : t.id \in Ids(d)
            /\ (t.storage # Unset => t.id \in Deduplicating(d))
    <3>1. \A t \in T : t.storage # Unset => d.dedup[1] # {}
      BY Zenon DEF Representable
    <3>2. d.sources[1].id \in Ids(d)
      BY <1>11 DEF Ids
    <3>3. d.dedup[1] # {} => d.sources[1].id \in Deduplicating(d)
      BY <1>11 DEF Deduplicating
    <3> SUFFICES ASSUME NEW t \in M.resources.transform
                 PROVE  t.id \in Ids(d) /\ (t.storage # Unset => t.id \in Deduplicating(d))
      OBVIOUS
    <3>4. PICK u \in T : t = [id |-> FirstOf(d), size |-> u.size,
              storage |-> IF Some(d.dedup) THEN u.storage ELSE Unset]
      BY <1>13
    <3> QED BY <1>2, <3>1, <3>2, <3>3, <3>4
  <2> QED BY <1>1, <1>9, <2>1, AcceptedAgain
<1> QED BY <1>16, <1>17 DEF M

-----------------------------------------------------------------------------
(* What is deployed again is written as it is, versions aside *)

\* The registry that all the topics of a pipeline are written with.
RegistryOf(d) == IF d.sources[1].registry.url = Unset THEN NoRegistry ELSE d.sources[1].registry

\* A topic as it is sent has a version, and not the latest.
LEMMA MadeSourceIs ==
  ASSUME NEW s, NEW d
  PROVE  /\ MadeSource(s, d).id = s.topic /\ MadeSource(s, d).topic = s.topic /\ MadeSource(s, d).fields = s.fields
         /\ MadeSource(s, d).registry = RegistryOf(d)
         /\ MadeSource(s, d).version \notin {Unset, "latest"}
         /\ \E v : MadeSource(s, d) = [id |-> s.topic, topic |-> s.topic, fields |-> s.fields,
                registry |-> RegistryOf(d),
                                       version |-> v]
<1> DEFINE v == IF s.registry.url = Unset \/ s.version \in {Unset, "latest"} THEN "1" ELSE s.version
<1>1. MadeSource(s, d) = [id |-> s.topic, topic |-> s.topic, fields |-> s.fields,
          registry |-> RegistryOf(d),
                          version |-> v]
  BY Zenon DEF MadeSource, RegistryOf
<1>2. v \notin {Unset, "latest"}
  BY DEF Unset
<1> DEFINE m == MadeSource(s, d)
           R == RegistryOf(d)
<1> HIDE DEF v, m, R
<1>3. m = [id |-> s.topic, topic |-> s.topic, fields |-> s.fields, registry |-> R, version |-> v]
  BY <1>1, Zenon DEF m, R
<1>4. m.id = s.topic /\ m.topic = s.topic /\ m.fields = s.fields /\ m.registry = R /\ m.version = v
  BY <1>3
<1>5. \E w : m = [id |-> s.topic, topic |-> s.topic, fields |-> s.fields, registry |-> R,
          version |-> w]
  BY <1>3, Zenon
<1> QED BY <1>2, <1>4, <1>5, Zenon DEF m, R

\* The API has nothing to add to the sources that are sent.
LEMMA MadeSourcesStay ==
  ASSUME NEW d, NEW x, x.source = d.source, x.sources = MadeSources(d)
  PROVE  StoredSources(x) = MadeSources(d)
<1>1. CASE IsOtlp(d.source)
  <2> DEFINE s == [id |-> d.sources[1].id, topic |-> Unset, fields |-> {}, version |-> Unset,
          registry |-> NoRegistry]
  <2>1. x.sources = <<s>> /\ MadeSources(d) = <<s>>
    BY <1>1, Zenon DEF MadeSources
  <2>2. [s EXCEPT !.version = Unset] = s
    OBVIOUS
  <2>3. \A q : VersionOf(q, TRUE) = Unset
    BY DEF VersionOf
  <2> HIDE DEF s
  <2>4. StoredSources(x) = [i \in {1} |-> [s EXCEPT !.version = VersionOf(s, IsOtlp(d.source))]]
    BY <2>1 DEF StoredSources
  <2>5. VersionOf(s, IsOtlp(d.source)) = Unset
    BY <1>1 DEF VersionOf
  <2>6. StoredSources(x) = [i \in {1} |-> s]
    BY <2>2, <2>4, <2>5
  <2>7. <<s>> = [i \in {1} |-> s]
    OBVIOUS
  <2> QED BY <2>1, <2>6, <2>7
<1>2. CASE ~IsOtlp(d.source)
  <2> DEFINE S == MadeSources(d)
             D == DOMAIN d.sources
  <2>1. S = [i \in D |-> MadeSource(d.sources[i], d)]
    BY <1>2, Zenon DEF MadeSources
  <2>2. ASSUME NEW i \in D PROVE [S[i] EXCEPT !.version = VersionOf(S[i], IsOtlp(x.source))] = S[i]
    <3> DEFINE s == S[i]
    <3>1. s = MadeSource(d.sources[i], d)
      BY <2>1
    <3> HIDE DEF s
    <3> DEFINE q == d.sources[i]
    <3> HIDE DEF q
    <3>6. s = MadeSource(q, d)
      BY <3>1 DEF q
    <3>7. \E v : MadeSource(q, d) = [id |-> q.topic, topic |-> q.topic, fields |-> q.fields,
                                    registry |-> RegistryOf(d), version |-> v]
      BY MadeSourceIs
    <3>2. PICK v : s = [id |-> q.topic, topic |-> q.topic, fields |-> q.fields,
                        registry |-> RegistryOf(d), version |-> v]
      BY <3>6, <3>7
    <3>3. s.version # Unset
      BY <3>6, MadeSourceIs
    <3>4. VersionOf(s, IsOtlp(x.source)) = s.version
      BY <1>2, <3>3 DEF VersionOf
    <3>5. [s EXCEPT !.version = s.version] = s
      BY <3>2
    <3> QED BY <3>4, <3>5 DEF s
  <2>3. DOMAIN S = D
    BY <2>1
  <2> HIDE DEF S, D
  <2>4. StoredSources(x) = [i \in D |-> [S[i] EXCEPT !.version = VersionOf(S[i], IsOtlp(x.source))]]
    BY <2>3, Zenon DEF StoredSources, S
  <2>5. StoredSources(x) = [i \in D |-> S[i]]
    BY <2>2, <2>4
  <2> QED BY <2>1, <2>5 DEF S
<1> QED BY <1>1, <1>2

\* The mapping that is sent is of the columns of the table, one field each.
LEMMA MappingShape ==
  ASSUME NEW M \in SUBSET [name: Names, column: STRING], NEW table \in SUBSET STRING
  PROVE  /\ MadeMapping(M, table) \in SUBSET [name: Names, column: STRING]
         /\ table # {} => /\ {m.column : m \in MadeMapping(M, table)} \subseteq table
                          /\ \A m, n \in MadeMapping(M, table) : m.column = n.column => m = n
<1> DEFINE fieldOf(c) == IF \E m \in M : m.column = c THEN (CHOOSE m \in M : m.column =
        c).name ELSE Unset
           rows == IF table = {} THEN {[column |-> m.column, field |-> m.name] : m \in M}
                   ELSE {[column |-> c, field |-> fieldOf(c)] : c \in table}
           made == {[name |-> row.field,
               column |-> row.column] : row \in {r \in rows : r.field # Unset}}
<1>1. MadeMapping(M, table) = made
  BY Zenon DEF MadeMapping, Mapped, ReadMapping
<1>2. CASE table = {}
  <2>1. ASSUME NEW x \in made PROVE x \in [name: Names, column: STRING]
    <3>1. PICK r \in rows : x = [name |-> r.field, column |-> r.column]
      OBVIOUS
    <3>2. PICK m \in M : r = [column |-> m.column, field |-> m.name]
      BY <1>2
    <3> QED BY <3>1, <3>2
  <2> HIDE DEF made
  <2> QED BY <1>1, <1>2, <2>1
<1>3. CASE table # {}
  <2>1. ASSUME NEW x \in made
        PROVE  \E c \in table : x = [name |-> fieldOf(c), column |-> c] /\ fieldOf(c) # Unset
    <3> HIDE DEF fieldOf
    <3>1. PICK r \in rows : x = [name |-> r.field, column |-> r.column] /\ r.field # Unset
      OBVIOUS
    <3>2. PICK c \in table : r = [column |-> c, field |-> fieldOf(c)]
      BY <1>3
    <3> QED BY <3>1, <3>2
  <2>2. ASSUME NEW c, fieldOf(c) # Unset PROVE fieldOf(c) \in Names
    <3>1. \E m \in M : m.column = c
      BY <2>2
    <3> DEFINE k == CHOOSE m \in M : m.column = c
    <3>2. k \in M
      BY <3>1
    <3> HIDE DEF k
    <3>3. k.name \in Names
      BY <3>2
    <3> QED BY <3>1, <3>3 DEF k
  <2> HIDE DEF fieldOf, made
  <2>3. ASSUME NEW x \in made PROVE x \in [name: Names, column: STRING] /\ x.column \in table /\ x.name = fieldOf(x.column)
                                      /\ x = [name |-> x.name, column |-> x.column]
    <3>1. PICK c \in table : x = [name |-> fieldOf(c), column |-> c] /\ fieldOf(c) # Unset
      BY <2>1
    <3> QED BY <2>2, <3>1
  <2>4. ASSUME NEW m \in made, NEW n \in made, m.column = n.column PROVE m = n
    BY <2>3, <2>4
  <2> QED BY <1>1, <2>3, <2>4
<1> QED BY <1>2, <1>3

\* What becomes of a pipeline that is deployed again.
Again(a, d, table, live) ==
  /\ Whole(a) /\ a.source = d.source /\ a.sources = MadeSources(d)
  /\ a.conn = (IF IsOtlp(d.source) THEN NoConnection ELSE WriteConnection(ReadConnection(d.conn)))
  /\ a.dedup = MadeDedup(d) /\ a.join = MadeJoin(d, table, live)
  /\ a.filter = {[not |-> TRUE, text |-> f.text] : f \in d.filter}
  /\ a.outputs = d.outputs /\ a.mapping = MadeMapping(d.mapping, table)
  /\ a.delay = KeptDelay(d.delay)
  /\ a.resources.sources = MadeResources(d).sources
  /\ a.resources.transform = TransformOf(MadeResources(d).transform, Owners(a))

\* What is stored of a pipeline that was deployed again.
LEMMA StoredIsAgain ==
  ASSUME NEW d, NEW table, NEW live, Regular(d)
  PROVE  Again(Stored(Made(d, table, live)), d, table, live)
<1> DEFINE M == Made(d, table, live)
           conn == IF IsOtlp(d.source) THEN NoConnection ELSE WriteConnection(ReadConnection(d.conn))
           filter == {[not |-> TRUE, text |-> f.text] : f \in d.filter}
           Z == TransformOf(M.resources.transform, Owners(M))
           A == Stored(M)
<1>1. /\ Whole(M) /\ M.source = d.source /\ M.sources = MadeSources(d)
      /\ M.conn = conn
      /\ M.dedup = MadeDedup(d) /\ M.join = MadeJoin(d, table, live)
      /\ M.filter = filter
      /\ M.outputs = d.outputs /\ M.mapping = MadeMapping(d.mapping, table)
      /\ M.delay = KeptDelay(d.delay) /\ M.resources = MadeResources(d)
  BY MadeIs
<1> HIDE DEF M, conn, filter, Z
<1>2. StoredSources(M) = MadeSources(d)
  BY <1>1, MadeSourcesStay
<1>3. StoredDelay(M.delay) = KeptDelay(d.delay)
  <2>1. KeptDelay(d.delay) > 0 /\ KeptDelay(d.delay) \in Nat
    BY DelayIsStable DEF Regular
  <2> QED BY <1>1, <2>1 DEF StoredDelay
<1>4. A = [source |-> M.source, sources |-> MadeSources(d), conn |-> M.conn, dedup |-> M.dedup,
                      join |-> M.join, filter |-> M.filter, outputs |-> M.outputs,
                          mapping |-> M.mapping,
                      delay |-> KeptDelay(d.delay), resources |-> [sources |-> M.resources.sources,
                          transform |-> Z]]
  <2>1. A = [source |-> M.source, sources |-> StoredSources(M), conn |-> M.conn, dedup |-> M.dedup,
                      join |-> M.join, filter |-> M.filter, outputs |-> M.outputs,
                          mapping |-> M.mapping,
                      delay |-> StoredDelay(M.delay),
                      resources |-> [sources |-> M.resources.sources, transform |-> Z]]
    BY <1>1, StoredFields DEF Z
  <2> QED BY <1>2, <1>3, <2>1, Zenon
<1> HIDE DEF A
<1>5. /\ A.source = M.source /\ A.sources = MadeSources(d) /\ A.conn = M.conn /\ A.dedup = M.dedup
      /\ A.join = M.join /\ A.filter = M.filter /\ A.outputs = M.outputs /\ A.mapping = M.mapping
      /\ A.delay = KeptDelay(d.delay)
             /\ A.resources = [sources |-> M.resources.sources, transform |-> Z]
  BY <1>4
<1>6. A.resources.sources = MadeResources(d).sources /\ A.resources.transform = Z
  BY <1>1, <1>5
<1>7. Whole(A)
  <2>1. A = [source |-> A.source, sources |-> A.sources, conn |-> A.conn, dedup |-> A.dedup,
            join |-> A.join,
          filter |-> A.filter, outputs |-> A.outputs, mapping |-> A.mapping, delay |-> A.delay,
          resources |-> A.resources]
    BY <1>4
  <2>2. A.resources = [sources |-> A.resources.sources, transform |-> A.resources.transform]
    BY <1>5
  <2> QED BY <2>1, <2>2, Zenon DEF Whole
<1>8. Owners(A) = Owners(M)
  BY <1>1, <1>5, Zenon DEF Owners, Deduplicating
<1>9. Z = TransformOf(MadeResources(d).transform, Owners(A))
  BY <1>1, <1>8 DEF Z
<1>10. Again(A, d, table, live)
  BY <1>1, <1>5, <1>6, <1>7, <1>9, Zenon DEF Again, conn, filter
<1> QED BY <1>10 DEF A, M

Connections == [method: STRING, tls: BOOLEAN, user: STRING, service: STRING, ca: STRING,
    skip: BOOLEAN]

\* Credentials that were dropped are not there to be dropped again.
LEMMA ConnectionTwice ==
  ASSUME NEW c \in Connections
  PROVE  WriteConnection(ReadConnection(WriteConnection(ReadConnection(c)))) =
      WriteConnection(ReadConnection(c))
<1> DEFINE b == ReadConnection(c)
           w == WriteConnection(b)
<1>1. w = [method |-> b.method, tls |-> b.tls,
          user |-> IF b.method = "NO_AUTH" THEN Unset ELSE b.user,
           service |-> b.service, ca |-> IF b.tls THEN b.ca ELSE Unset, skip |-> b.tls /\ b.skip]
  BY Zenon DEF WriteConnection
<1>2. b.method = c.method /\ b.tls \in BOOLEAN /\ b.skip \in BOOLEAN
      /\ (c.method = "GSSAPI" => b.user = Unset /\ b.service = Unset)
  <2>1. CASE c.method = "GSSAPI"
    <3>1. b = [[c EXCEPT !.user = Unset] EXCEPT !.service = Unset]
      BY <2>1 DEF ReadConnection
    <3>2. b.method = c.method /\ b.tls = c.tls /\ b.skip = c.skip /\ b.user = Unset
              /\ b.service = Unset
      <4> HIDE DEF b
      <4> QED BY <3>1 DEF Connections
    <3> HIDE DEF b
    <3> QED BY <3>2 DEF Connections
  <2>2. CASE c.method # "GSSAPI"
    <3>1. b = c
      BY <2>2, Zenon DEF ReadConnection
    <3> HIDE DEF b
    <3> QED BY <2>2, <3>1 DEF Connections
  <2> QED BY <2>1, <2>2
<1> HIDE DEF w, b
<1>3. /\ w.method = b.method /\ w.tls = b.tls
             /\ w.user = (IF b.method = "NO_AUTH" THEN Unset ELSE b.user)
      /\ w.service = b.service /\ w.ca = (IF b.tls THEN b.ca ELSE Unset) /\ w.skip = (b.tls
             /\ b.skip)
  BY <1>1
<1>4. w = [method |-> w.method, tls |-> w.tls, user |-> w.user, service |-> w.service, ca |-> w.ca,
          skip |-> w.skip]
  BY <1>1, <1>3
<1>5. ReadConnection(w) = w
  <2>1. CASE w.method = "GSSAPI"
    <3>1. w.user = Unset /\ w.service = Unset
      BY <1>2, <1>3, <2>1
    <3>2. [w EXCEPT !.user = Unset] = w
      BY <1>4, <3>1
    <3>3. [w EXCEPT !.service = Unset] = w
      BY <1>4, <3>1
    <3>4. ReadConnection(w) = [[w EXCEPT !.user = Unset] EXCEPT !.service = Unset]
      BY <2>1 DEF ReadConnection
    <3> QED BY <3>2, <3>3, <3>4, Zenon
  <2>2. CASE w.method # "GSSAPI"
    BY <2>2, Zenon DEF ReadConnection
  <2> QED BY <2>1, <2>2
<1>6. WriteConnection(w) = w
  <2>1. WriteConnection(w) = [method |-> w.method, tls |-> w.tls,
            user |-> IF w.method = "NO_AUTH" THEN Unset ELSE w.user,
           service |-> w.service, ca |-> IF w.tls THEN w.ca ELSE Unset, skip |-> w.tls /\ w.skip]
    BY Zenon DEF WriteConnection
  <2>2. (IF w.method = "NO_AUTH" THEN Unset ELSE w.user) = w.user
    BY <1>3
  <2>3. (IF w.tls THEN w.ca ELSE Unset) = w.ca
    BY <1>3
  <2>4. (w.tls /\ w.skip) = w.skip
    BY <1>2, <1>3
  <2> QED BY <1>4, <2>1, <2>2, <2>3, <2>4
<1> QED BY <1>5, <1>6 DEF w, b

\* A pipeline that was deployed again makes sense, and has what it had.
LEMMA AgainIsRegular ==
  ASSUME NEW d, NEW a, NEW table, NEW live, Regular(d), Again(a, d, table, live)
  PROVE  /\ DOMAIN a.sources = DOMAIN d.sources /\ DOMAIN a.dedup = DOMAIN d.dedup /\ DOMAIN a.dedup = DOMAIN a.sources
         /\ \A i \in DOMAIN d.dedup : a.dedup[i] = {} <=> d.dedup[i] = {}
         /\ Regular(a)
<1> DEFINE n == Len(d.sources)
<1>1. /\ Row(d.sources, n) /\ Row(d.dedup, n) /\ n \in {1, 2} /\ DOMAIN d.sources = 1..n
             /\ DOMAIN d.dedup = 1..n
      /\ (n = 1 <=> d.join = {})
  BY RegularSizes
<1>2. a.source = d.source /\ a.sources = MadeSources(d) /\ a.dedup = MadeDedup(d)
          /\ a.join = MadeJoin(d, table, live)
      /\ a.outputs = d.outputs /\ a.delay = KeptDelay(d.delay)
      /\ a.filter = {[not |-> TRUE, text |-> f.text] : f \in d.filter}
      /\ a.resources.sources = MadeResources(d).sources
  BY Zenon DEF Again
<1>3. a.join = {} <=> d.join = {}
  BY <1>2 DEF MadeJoin
<1>4. /\ \A i \in 1..n : \A c \in d.dedup[i] : c.key # Unset /\ c.window \in Nat /\ c.window > 0
      /\ \A i \in 1..n : \A c, b \in d.dedup[i] : c = b
  BY <1>1, Zenon DEF Regular
<1>5. /\ Row(a.sources, n) /\ Row(a.dedup, n)
      /\ \A i \in 1..n : a.dedup[i] = {} <=> d.dedup[i] = {}
      /\ \A i \in 1..n : /\ \A c, b \in a.dedup[i] : c = b
                         /\ \A c \in a.dedup[i] : c.key # Unset /\ c.window \in Nat /\ c.window > 0
  <2>1. CASE IsOtlp(d.source)
    <3>1. n = 1
      <4>1. d.join = {}
        BY <2>1 DEF Regular
      <4> QED BY <1>1, <4>1
    <3>2. \E s : a.sources = <<s>>
      BY <1>2, <2>1, Zenon DEF MadeSources
    <3>3. a.dedup = <<d.dedup[1]>>
      BY <1>2, <2>1, Zenon DEF MadeDedup
    <3>4. Row(a.sources, 1) /\ Row(a.dedup, 1)
      BY <3>2, <3>3 DEF Row
    <3>5. a.dedup[1] = d.dedup[1]
      BY <3>3
    <3>6. \A i \in 1..n : i = 1
      BY <3>1
    <3> HIDE DEF n
    <3> QED BY <1>4, <3>1, <3>4, <3>5, <3>6
  <2>2. CASE ~IsOtlp(d.source)
    <3>1. a.sources = [i \in 1..n |-> MadeSource(d.sources[i], d)]
      BY <1>1, <1>2, <2>2, Zenon DEF MadeSources
    <3>2. a.dedup = [i \in 1..n |-> {[key |-> c.key,
              window |-> KeptWindow(c.window)] : c \in d.dedup[i]}]
      BY <1>1, <1>2, <2>2, Zenon DEF MadeDedup
    <3> HIDE DEF n
    <3>3. Row(a.sources, n) /\ Row(a.dedup, n)
      BY <1>1, <3>1, <3>2 DEF Row
    <3> SUFFICES ASSUME NEW i \in 1..n
                 PROVE  /\ a.dedup[i] = {} <=> d.dedup[i] = {}
                        /\ \A c, b \in a.dedup[i] : c = b
                        /\ \A c \in a.dedup[i] : c.key # Unset /\ c.window \in Nat /\ c.window > 0
      BY <3>3
    <3> DEFINE D == d.dedup[i]
               made == {[key |-> c.key, window |-> KeptWindow(c.window)] : c \in D}
    <3>4. a.dedup[i] = made
      BY <3>2
    <3>5. /\ \A c \in D : c.key # Unset /\ c.window \in Nat /\ c.window > 0
          /\ \A c, b \in D : c = b
      BY <1>4
    <3> HIDE DEF D
    <3>6. \A c \in D : KeptWindow(c.window) \in Nat /\ KeptWindow(c.window) > 0
      BY <3>5, KeptIsStable, KeptIsPositive
    <3>7. made = {} <=> D = {}
      OBVIOUS
    <3>8. \A c, b \in made : c = b
      BY <3>5
    <3>9. \A c \in made : c.key # Unset /\ c.window \in Nat /\ c.window > 0
      BY <3>5, <3>6
    <3> HIDE DEF made
    <3> QED BY <3>4, <3>7, <3>8, <3>9 DEF D
  <2> QED BY <2>1, <2>2
<1>6. DOMAIN a.sources = 1..n /\ DOMAIN a.dedup = 1..n
  BY <1>5, RowFacts
<1>7. IsOtlp(a.source) => a.join = {} /\ a.resources.sources = {}
  <2>1. IsOtlp(d.source) => d.join = {}
    BY DEF Regular
  <2>2. IsOtlp(d.source) => MadeResources(d).sources = {}
    BY <2>1, MadeSizes
  <2> QED BY <1>2, <1>3, <2>1, <2>2
<1>8. /\ \A j, k \in a.join : j = k
      /\ \A j \in a.join : j.left.window \in Nat /\ j.right.window \in Nat
  <2>1. CASE d.join = {}
    BY <1>3, <2>1
  <2>2. CASE d.join # {}
    <3> DEFINE j == The(d.join)
               madeLeft == MadeSide(j.left)
               madeRight == MadeSide(j.right)
               F == MadeFields(d, table, live)
    <3>1. a.join = {[left |-> madeLeft, right |-> madeRight, fields |-> F]}
      BY <1>2, <2>2, Zenon DEF MadeJoin
    <3>2. j \in d.join
      BY <2>2 DEF The
    <3> HIDE DEF j
    <3>3. j.left.window \in Nat /\ j.right.window \in Nat
      BY <3>2 DEF Regular
    <3>4. madeLeft.window \in Nat /\ madeRight.window \in Nat
      BY <3>3, KeptIsStable DEF MadeSide
    <3> HIDE DEF madeLeft, madeRight, F
    <3> QED BY <3>1, <3>4
  <2> QED BY <2>1, <2>2
<1>9. a.join # {} => a.filter = {} /\ a.outputs = {}
  <2>1. d.join # {} => d.filter = {} /\ d.outputs = {}
    BY DEF Regular
  <2> QED BY <1>2, <1>3, <2>1
<1>10. a.delay \in Nat /\ a.delay > 0
  <2>1. d.delay \in Nat /\ d.delay > 0
    BY DEF Regular
  <2> QED BY <1>2, <2>1, DelayIsStable
<1>11. n = 2 <=> a.join # {}
  BY <1>1, <1>3
<1> HIDE DEF n
<1>12. Regular(a)
  BY <1>1, <1>5, <1>6, <1>7, <1>8, <1>9, <1>10, <1>11 DEF Regular
<1> QED BY <1>1, <1>5, <1>6, <1>12

UnversionedSources(a) ==
  [i \in DOMAIN a.sources |-> IF ~IsOtlp(a.source) /\ a.sources[i].registry.url = Unset
                              THEN [a.sources[i] EXCEPT !.version = "1"] ELSE a.sources[i]]

\* Its sources stay, but for the version of a schema whose registry is gone.
LEMMA SourcesTwice ==
  ASSUME NEW d, NEW a, NEW table, NEW live, Regular(d), Again(a, d, table, live)
  PROVE  MadeSources(a) = UnversionedSources(a)
<1>1. a.source = d.source /\ a.sources = MadeSources(d) /\ DOMAIN a.sources = DOMAIN d.sources
          /\ 1 \in DOMAIN d.sources
  <2>1. a.source = d.source /\ a.sources = MadeSources(d)
    BY Zenon DEF Again
  <2>2. DOMAIN a.sources = DOMAIN d.sources
    BY AgainIsRegular
  <2>3. 1 \in DOMAIN d.sources
    BY RegularSizes
  <2> QED BY <2>1, <2>2, <2>3
<1>2. CASE IsOtlp(d.source)
  <2> DEFINE s == [id |-> d.sources[1].id, topic |-> Unset, fields |-> {}, version |-> Unset,
          registry |-> NoRegistry]
  <2>1. a.sources = <<s>>
    BY <1>1, <1>2, Zenon DEF MadeSources
  <2>2. MadeSources(a) = <<[id |-> a.sources[1].id, topic |-> Unset, fields |-> {},
            version |-> Unset, registry |-> NoRegistry]>>
    BY <1>1, <1>2, Zenon DEF MadeSources
  <2>3. a.sources[1] = s
    BY <2>1
  <2>4. a.sources[1].id = d.sources[1].id
    BY <2>3
  <2>5. MadeSources(a) = <<s>>
    BY <2>2, <2>4
  <2>6. UnversionedSources(a) = [i \in DOMAIN a.sources |-> a.sources[i]]
    BY <1>1, <1>2 DEF UnversionedSources
  <2> HIDE DEF s
  <2> QED BY <2>1, <2>5, <2>6
<1>3. CASE ~IsOtlp(d.source)
  <2> DEFINE D == DOMAIN d.sources
             R == RegistryOf(d)
  <2>1. a.sources = [i \in D |-> MadeSource(d.sources[i], d)]
    BY <1>1, <1>3, Zenon DEF MadeSources
  <2>2. MadeSources(a) = [i \in D |-> MadeSource(a.sources[i], a)]
    BY <1>1, <1>3, Zenon DEF MadeSources
  <2>3. a.sources[1].registry = R
    BY <1>1, <2>1, MadeSourceIs
  <2>4. R.url = Unset => R = NoRegistry
    BY DEF RegistryOf, NoRegistry
  <2>5. ASSUME NEW i \in D
        PROVE  MadeSource(a.sources[i], a)
                 = IF a.sources[i].registry.url = Unset THEN [a.sources[i] EXCEPT !.version =
                     "1"] ELSE a.sources[i]
    <3> DEFINE s == a.sources[i]
               q == d.sources[i]
               t == MadeSource(s, a)
    <3>1. s = MadeSource(q, d)
      BY <2>1
    <3> HIDE DEF s, q
    <3>2. s.id = q.topic /\ s.topic = q.topic /\ s.registry = R
              /\ s.version \notin {Unset, "latest"}
      BY <3>1, MadeSourceIs
    <3>3. s = [id |-> s.id, topic |-> s.topic, fields |-> s.fields, registry |-> s.registry,
              version |-> s.version]
      <4>1. \E v : MadeSource(q, d) = [id |-> q.topic, topic |-> q.topic, fields |-> q.fields,
                registry |-> RegistryOf(d),
                                       version |-> v]
        BY MadeSourceIs
      <4> QED BY <3>1, <4>1
    <3>4. t = [id |-> s.topic, topic |-> s.topic, fields |-> s.fields,
               registry |-> IF a.sources[1].registry.url =
                   Unset THEN NoRegistry ELSE a.sources[1].registry,
               version |-> IF s.registry.url = Unset \/ s.version \in {Unset,
                   "latest"} THEN "1" ELSE s.version]
      BY Zenon DEF MadeSource
    <3> HIDE DEF t, R
    <3>5. t = [id |-> s.id, topic |-> s.topic, fields |-> s.fields, registry |-> s.registry,
               version |-> IF s.registry.url = Unset THEN "1" ELSE s.version]
      BY <2>3, <2>4, <3>2, <3>4
    <3>6. CASE s.registry.url = Unset
      <4>1. [s EXCEPT !.version = "1"] = [id |-> s.id, topic |-> s.topic, fields |-> s.fields,
                registry |-> s.registry,
                                          version |-> "1"]
        BY <3>3
      <4> QED BY <3>5, <3>6, <4>1 DEF s, t
    <3>7. CASE s.registry.url # Unset
      BY <3>3, <3>5, <3>7 DEF s, t
    <3> QED BY <3>6, <3>7
  <2>6. UnversionedSources(a) =
          [i \in D |-> IF a.sources[i].registry.url = Unset THEN [a.sources[i] EXCEPT !.version =
              "1"] ELSE a.sources[i]]
    BY <1>1, <1>3 DEF UnversionedSources
  <2> QED BY <2>2, <2>5, <2>6
<1> QED BY <1>2, <1>3

\* Its deduplication stays.
LEMMA DedupTwice ==
  ASSUME NEW d, NEW a, NEW table, NEW live, Regular(d), Again(a, d, table, live)
  PROVE  MadeDedup(a) = a.dedup
<1>1. a.source = d.source /\ a.dedup = MadeDedup(d) /\ DOMAIN a.sources = DOMAIN d.sources
          /\ DOMAIN d.dedup = DOMAIN d.sources
  <2>1. a.source = d.source /\ a.dedup = MadeDedup(d)
    BY Zenon DEF Again
  <2>2. DOMAIN a.sources = DOMAIN d.sources
    BY AgainIsRegular
  <2>3. DOMAIN d.dedup = DOMAIN d.sources
    BY RegularSizes
  <2> QED BY <2>1, <2>2, <2>3
<1>2. CASE IsOtlp(d.source)
  <2>1. a.dedup = <<d.dedup[1]>> /\ MadeDedup(a) = <<a.dedup[1]>>
    BY <1>1, <1>2, Zenon DEF MadeDedup
  <2> QED BY <2>1
<1>3. CASE ~IsOtlp(d.source)
  <2> DEFINE D == DOMAIN d.sources
             made(S) == {[key |-> c.key, window |-> KeptWindow(c.window)] : c \in S}
  <2>1. a.dedup = [i \in D |-> made(d.dedup[i])] /\ MadeDedup(a) = [i \in D |-> made(a.dedup[i])]
    BY <1>1, <1>3, Zenon DEF MadeDedup
  <2>2. ASSUME NEW i \in D PROVE made(a.dedup[i]) = a.dedup[i]
    <3> DEFINE S == d.dedup[i]
               K == made(S)
    <3>1. a.dedup[i] = K
      BY <2>1
    <3>2. \A c \in S : c.window \in Nat
      BY <1>1, Zenon DEF Regular
    <3> HIDE DEF S
    <3>3. \A c \in K : [key |-> c.key, window |-> KeptWindow(c.window)] = c
      <4> SUFFICES ASSUME NEW c \in K PROVE [key |-> c.key, window |-> KeptWindow(c.window)] = c
        OBVIOUS
      <4>1. PICK b \in S : c = [key |-> b.key, window |-> KeptWindow(b.window)]
        OBVIOUS
      <4>2. KeptWindow(KeptWindow(b.window)) = KeptWindow(b.window)
        BY <3>2, KeptIsStable
      <4> QED BY <4>1, <4>2
    <3> HIDE DEF K
    <3>4. made(K) = K
      BY <3>3
    <3> HIDE DEF made
    <3> QED BY <3>1, <3>4
  <2> HIDE DEF made
  <2> QED BY <2>1, <2>2
<1> QED BY <1>2, <1>3

\* Its join stays.
LEMMA JoinTwice ==
  ASSUME NEW d, NEW a, NEW table, NEW live, Regular(d), Again(a, d, table, live),
         ~IsOtlp(d.source), MadeMapping(a.mapping, table) = a.mapping
  PROVE  MadeJoin(a, table, live) = a.join
<1>1. /\ a.source = d.source /\ a.sources = MadeSources(d) /\ a.join = MadeJoin(d, table, live)
      /\ a.mapping = MadeMapping(d.mapping, table)
  BY Zenon DEF Again
<1>2. CASE d.join = {}
  BY <1>1, <1>2 DEF MadeJoin
<1>3. CASE d.join # {}
  <2> DEFINE j == The(d.join)
             k == The(a.join)
             made == [left |-> MadeSide(j.left), right |-> MadeSide(j.right),
                 fields |-> MadeFields(d, table, live)]
  <2>1. a.join = {made}
    BY <1>1, <1>3, Zenon DEF MadeJoin
  <2>2. k = made
    <3> HIDE DEF made
    <3> QED BY <2>1, TheOnly
  <2>3. k.left = MadeSide(j.left) /\ k.right = MadeSide(j.right)
            /\ k.fields = MadeFields(d, table, live)
    <3> HIDE DEF k, j
    <3> QED BY <2>2
  <2>4. ASSUME NEW side, side.window \in Nat PROVE MadeSide(MadeSide(side)) = MadeSide(side)
    <3>1. KeptWindow(KeptWindow(side.window)) = KeptWindow(side.window)
      BY <2>4, KeptIsStable
    <3> QED BY <3>1 DEF MadeSide
  <2>5. j.left.window \in Nat /\ j.right.window \in Nat
    <3>1. j \in d.join
      BY <1>3 DEF The
    <3> QED BY <3>1, Zenon DEF Regular
  <2>6. DOMAIN d.sources = {1, 2} /\ DOMAIN a.sources = {1, 2}
    BY <1>3, RegularSizes, AgainIsRegular
  <2>7. \A i \in {1, 2} : a.sources[i].topic = d.sources[i].topic
            /\ a.sources[i].fields = d.sources[i].fields
    <3>1. a.sources = [i \in DOMAIN d.sources |-> MadeSource(d.sources[i], d)]
      BY <1>1, Zenon DEF MadeSources
    <3>2. \A i \in {1, 2} : a.sources[i] = MadeSource(d.sources[i], d)
      BY <2>6, <3>1
    <3> QED BY <3>2, MadeSourceIs
  <2>8. ASSUME NEW name PROVE SourceFor(name, a, live) = SourceFor(name, d, live)
    <3> DEFINE has == {i \in DOMAIN d.sources : live /\ name \in d.sources[i].fields}
               other == IF has = {} THEN 1 ELSE Min(has)
    <3>1. {i \in DOMAIN a.sources : live /\ name \in a.sources[i].fields} = has
      BY <2>6, <2>7
    <3>2. SourceFor(name, a, live) =
            IF name = k.left.key THEN k.left.id ELSE IF name = k.right.key THEN k.right.id
            ELSE a.sources[other].topic
      <4> HIDE DEF has, k
      <4> QED BY <3>1, Zenon DEF SourceFor, k
    <3>3. SourceFor(name, d, live) =
            IF name = j.left.key THEN j.left.id ELSE IF name = j.right.key THEN j.right.id
            ELSE d.sources[other].topic
      BY Zenon DEF SourceFor
    <3>4. other \in {1, 2}
      <4>1. has \in SUBSET {1, 2}
        BY <2>6
      <4> HIDE DEF has
      <4>2. has = {} \/ 1 \in has \/ has = {2}
        BY <4>1
      <4> QED BY <4>1, <4>2, FirstOfTwo
    <3>5. k.left.key = j.left.key /\ k.left.id = j.left.id /\ k.right.key = j.right.key
              /\ k.right.id = j.right.id
      <4> HIDE DEF k, j
      <4> QED BY <2>3 DEF MadeSide
    <3> HIDE DEF other, k, j
    <3> QED BY <2>7, <3>2, <3>3, <3>4, <3>5
  <2>9. MadeFields(a, table, live) = MadeFields(d, table, live)
    <3> DEFINE P == a.mapping
    <3>1. MadeFields(a, table, live) = {[id |-> SourceFor(m.name, a, live), name |-> m.name,
              out |-> m.name] : m \in P}
      BY Zenon DEF MadeFields
    <3>2. MadeFields(d, table, live) = {[id |-> SourceFor(m.name, d, live), name |-> m.name,
              out |-> m.name] : m \in P}
      BY <1>1, Zenon DEF MadeFields
    <3>3. \A m \in P : SourceFor(m.name, a, live) = SourceFor(m.name, d, live)
      BY <2>8
    <3> HIDE DEF P
    <3> QED BY <3>1, <3>2, <3>3
  <2>10. MadeJoin(a, table, live) = {[left |-> MadeSide(k.left), right |-> MadeSide(k.right),
                                      fields |-> MadeFields(a, table, live)]}
    <3>1. a.join # {}
      BY <2>1
    <3> HIDE DEF k
    <3> QED BY <3>1, Zenon DEF MadeJoin, k
  <2>11. MadeSide(k.left) = MadeSide(j.left) /\ MadeSide(k.right) = MadeSide(j.right)
    <3> HIDE DEF k, j
    <3> QED BY <2>3, <2>4, <2>5
  <2> HIDE DEF k, j
  <2> QED BY <2>1, <2>9, <2>10, <2>11
<1> QED BY <1>2, <1>3

\* The sizes of its sources stay.
LEMMA SizesTwice ==
  ASSUME NEW d, NEW a, NEW table, NEW live, Regular(d), Again(a, d, table, live)
  PROVE  FirstOf(a) = FirstOf(d) /\ MadeResources(a).sources = a.resources.sources
<1> DEFINE R == d.resources.sources
           A == a.resources.sources
<1>1. /\ a.source = d.source /\ a.sources = MadeSources(d) /\ a.join = MadeJoin(d, table, live)
      /\ A = MadeResources(d).sources
  BY Zenon DEF Again
<1>2. FirstOf(a) = FirstOf(d)
  <2>1. CASE IsOtlp(d.source)
    <3>1. a.sources = <<[id |-> d.sources[1].id, topic |-> Unset, fields |-> {}, version |-> Unset,
              registry |-> NoRegistry]>>
      BY <1>1, <2>1, Zenon DEF MadeSources
    <3>2. a.sources[1].id = d.sources[1].id
      BY <3>1
    <3> QED BY <1>1, <2>1, <3>2 DEF FirstOf
  <2>2. CASE ~IsOtlp(d.source)
    <3>1. a.sources = [i \in DOMAIN d.sources |-> MadeSource(d.sources[i], d)]
      BY <1>1, <2>2, Zenon DEF MadeSources
    <3>2. 1 \in DOMAIN d.sources
      BY RegularSizes
    <3>3. a.sources[1] = MadeSource(d.sources[1], d)
      BY <3>1, <3>2
    <3>4. a.sources[1].topic = d.sources[1].topic
      BY <3>3, MadeSourceIs
    <3> QED BY <1>1, <2>2, <3>4 DEF FirstOf
  <2> QED BY <2>1, <2>2
<1> HIDE DEF R, A
<1>3. CASE d.join # {}
  <2> DEFINE j == The(d.join)
             k == The(a.join)
             made == [left |-> MadeSide(j.left), right |-> MadeSide(j.right),
                 fields |-> MadeFields(d, table, live)]
  <2>1. a.join = {made}
    BY <1>1, <1>3, Zenon DEF MadeJoin
  <2>2. k = made
    <3> HIDE DEF made
    <3> QED BY <2>1, TheOnly
  <2> HIDE DEF k, j
  <2>3. k.left.id = j.left.id /\ k.right.id = j.right.id
    BY <2>2 DEF MadeSide
  <2>4. A = SizesOf(R, j.left.id) \union SizesOf(R, j.right.id)
    BY <1>1, <1>3, MadeSizes DEF j, R
  <2>5. MadeResources(a).sources = SizesOf(A, k.left.id) \union SizesOf(A, k.right.id)
    <3>1. a.join # {}
      BY <2>1
    <3> QED BY <3>1, MadeSizes DEF k, A
  <2>6. \A x \in A : x = [id |-> x.id, size |-> x.size] /\ (x.id = j.left.id \/ x.id = j.right.id)
    BY <2>4 DEF SizesOf
  <2>7. ASSUME NEW id PROVE SizesOf(A, id) = {x \in A : x.id = id}
    BY <2>6 DEF SizesOf
  <2>8. MadeResources(a).sources = A
    BY <2>3, <2>5, <2>6, <2>7
  <2> QED BY <1>2, <2>8 DEF A
<1>4. CASE d.join = {}
  <2>1. a.join = {}
    BY <1>1, <1>4 DEF MadeJoin
  <2>2. CASE IsOtlp(d.source)
    <3>1. A = {} /\ MadeResources(a).sources = {}
      BY <1>1, <1>4, <2>1, <2>2, MadeSizes
    <3> QED BY <1>2, <3>1 DEF A
  <2>3. CASE ~IsOtlp(d.source)
    <3>1. A = {[id |-> FirstOf(d), size |-> r.size] : r \in R}
      BY <1>1, <1>4, <2>3, MadeSizes DEF R
    <3>2. MadeResources(a).sources = {[id |-> FirstOf(d), size |-> r.size] : r \in A}
      <4>1. ~IsOtlp(a.source)
        BY <1>1, <2>3
      <4>2. MadeResources(a).sources = {[id |-> FirstOf(a),
                size |-> r.size] : r \in a.resources.sources}
        BY <2>1, <4>1, MadeSizes
      <4> QED BY <1>2, <4>2, Zenon DEF A
    <3>3. \A x \in A : [id |-> FirstOf(d), size |-> x.size] = x
      BY <3>1
    <3>4. MadeResources(a).sources = A
      BY <3>2, <3>3
    <3> QED BY <1>2, <3>4 DEF A
  <2> QED BY <2>2, <2>3
<1> QED BY <1>3, <1>4

\* Its sources keep their names.
LEMMA IdsTwice ==
  ASSUME NEW d, NEW a, NEW table, NEW live, Regular(d), Again(a, d, table, live)
  PROVE  /\ DOMAIN MadeSources(a) = DOMAIN a.sources
         /\ \A i \in DOMAIN a.sources : MadeSources(a)[i].id = a.sources[i].id
<1>1. a.source = d.source /\ a.sources = MadeSources(d)
  BY Zenon DEF Again
<1>2. DOMAIN a.sources = DOMAIN d.sources
  BY AgainIsRegular
<1>3. CASE IsOtlp(d.source)
  <2>1. \E s : a.sources = <<s>>
    BY <1>1, <1>3, Zenon DEF MadeSources
  <2> DEFINE q == a.sources[1].id
  <2>2. MadeSources(a) = <<[id |-> q, topic |-> Unset, fields |-> {}, version |-> Unset,
            registry |-> NoRegistry]>>
    BY <1>1, <1>3, Zenon DEF MadeSources
  <2> HIDE DEF q
  <2>3. DOMAIN MadeSources(a) = {1} /\ MadeSources(a)[1].id = q
    BY <2>2
  <2>4. DOMAIN a.sources = {1}
    BY <2>1
  <2> QED BY <2>3, <2>4 DEF q
<1>4. CASE ~IsOtlp(d.source)
  <2> DEFINE D == DOMAIN d.sources
  <2>1. a.sources = [i \in D |-> MadeSource(d.sources[i], d)]
            /\ MadeSources(a) = [i \in D |-> MadeSource(a.sources[i], a)]
    BY <1>1, <1>2, <1>4, Zenon DEF MadeSources
  <2> HIDE DEF D
  <2>2. ASSUME NEW i \in D PROVE MadeSources(a)[i].id = a.sources[i].id
    <3>1. a.sources[i] = MadeSource(d.sources[i], d)
              /\ MadeSources(a)[i] = MadeSource(a.sources[i], a)
      BY <2>1
    <3>2. MadeSources(a)[i].id = a.sources[i].topic
      BY <3>1, MadeSourceIs
    <3>3. a.sources[i].id = d.sources[i].topic /\ a.sources[i].topic = d.sources[i].topic
      BY <3>1, MadeSourceIs
    <3> QED BY <3>2, <3>3
  <2>3. DOMAIN a.sources = D /\ DOMAIN MadeSources(a) = D
    BY <2>1
  <2> QED BY <2>2, <2>3
<1> QED BY <1>3, <1>4

\* Its transformation keeps its block.
LEMMA TransformTwice ==
  ASSUME NEW d, NEW a, NEW table, NEW live, Regular(d), Again(a, d, table, live)
  PROVE  TransformOf(MadeResources(a).transform, Owners(a)) = a.resources.transform
<1> DEFINE T == a.resources.transform
           W == MadeResources(d).transform
           O == Owners(a)
           some == Some(a.dedup)
           first == FirstOf(a)
<1>1. T = TransformOf(W, O)
  BY Zenon DEF Again
<1>2. W = {[id |-> FirstOf(d), size |-> t.size,
          storage |-> IF Some(d.dedup) THEN t.storage ELSE Unset] :
             t \in d.resources.transform}
  BY MadeTransform
<1>3. MadeResources(a).transform =
        {[id |-> first, size |-> t.size, storage |-> IF some THEN t.storage ELSE Unset] : t \in T}
  BY MadeTransform
<1>4. some = Some(d.dedup) /\ some \in BOOLEAN
  <2>1. DOMAIN a.dedup = DOMAIN d.dedup
            /\ \A i \in DOMAIN d.dedup : a.dedup[i] = {} <=> d.dedup[i] = {}
    BY AgainIsRegular
  <2> QED BY <2>1 DEF Some
<1> HIDE DEF W, T, O, some, first
<1>5. Shaped(W) /\ \A u \in W : u.storage # Unset => some
  <2>1. \A u \in W : \E t \in d.resources.transform :
          u = [id |-> FirstOf(d), size |-> t.size, storage |-> IF some THEN t.storage ELSE Unset]
    BY <1>2, <1>4
  <2>2. ASSUME NEW u \in W
        PROVE  u = [id |-> u.id, size |-> u.size, storage |-> u.storage]
            /\ (u.storage # Unset => some)
    <3>1. PICK t \in d.resources.transform :
            u = [id |-> FirstOf(d), size |-> t.size, storage |-> IF some THEN t.storage ELSE Unset]
      BY <2>1
    <3> QED BY <3>1
  <2> QED BY <2>2, Zenon DEF Shaped
<1>6. Shaped(T) /\ TransformOf(T, O) = T /\ \A t \in T : \E u \in W : t.storage = u.storage
  BY <1>1, <1>5, TransformIsStable
<1>7. \A t \in T : t.storage # Unset => some
  BY <1>5, <1>6
<1>8. TransformOf({[id |-> first, size |-> t.size,
          storage |-> IF some THEN t.storage ELSE Unset] : t \in T}, O) = T
  BY <1>4, <1>6, <1>7, TransformWritten
<1> QED BY <1>3, <1>8 DEF T, O

\* A configuration that was deployed again: once more it stays, but for versions.
LEMMA AgainIsKept ==
  ASSUME NEW d, NEW a, NEW table \in SUBSET STRING, NEW live, IsDeployed(d), Again(a, d, table,
      live)
  PROVE  Stored(Made(a, table, live)) = Unversioned(a)
<1> DEFINE B == Stored(Made(a, table, live))
           S == UnversionedSources(a)
<1>1. Regular(d) /\ d \in Configurations
  BY DeployedIsRegular, DeployedFacts
<1>2. Regular(a)
  BY <1>1, AgainIsRegular
<1>3. Again(B, a, table, live)
  BY <1>2, StoredIsAgain
<1> HIDE DEF B
<1>4. /\ Whole(a) /\ a.source = d.source
             /\ a.conn = (IF IsOtlp(d.source) THEN NoConnection ELSE WriteConnection(ReadConnection(d.conn)))
      /\ a.join = MadeJoin(d, table, live)
             /\ a.filter = {[not |-> TRUE, text |-> f.text] : f \in d.filter}
      /\ a.mapping = MadeMapping(d.mapping, table) /\ a.delay = KeptDelay(d.delay)
  BY Zenon DEF Again
<1>5. /\ Whole(B) /\ B.source = a.source /\ B.sources = MadeSources(a)
      /\ B.conn = (IF IsOtlp(a.source) THEN NoConnection ELSE WriteConnection(ReadConnection(a.conn)))
      /\ B.dedup = MadeDedup(a) /\ B.join = MadeJoin(a, table, live)
      /\ B.filter = {[not |-> TRUE, text |-> f.text] : f \in a.filter}
      /\ B.outputs = a.outputs /\ B.mapping = MadeMapping(a.mapping, table)
      /\ B.delay = KeptDelay(a.delay)
      /\ B.resources.sources = MadeResources(a).sources
      /\ B.resources.transform = TransformOf(MadeResources(a).transform, Owners(B))
  BY <1>3, Zenon DEF Again
<1>6. B.sources = S /\ B.dedup = a.dedup
  BY <1>1, <1>5, SourcesTwice, DedupTwice
<1>7. B.conn = a.conn
  <2>1. d.conn \in Connections
    BY <1>1, ConfigurationIs DEF Connections
  <2>2. WriteConnection(ReadConnection(WriteConnection(ReadConnection(d.conn)))) =
            WriteConnection(ReadConnection(d.conn))
    BY <2>1, ConnectionTwice
  <2> QED BY <1>4, <1>5, <2>2
<1>8. MadeMapping(a.mapping, table) = a.mapping
  <2> DEFINE M == MadeMapping(d.mapping, table)
  <2>1. d.mapping \in SUBSET [name: Names, column: STRING]
    BY <1>1, ConfigurationIs
  <2>2. /\ M \in SUBSET [name: Names, column: STRING]
        /\ table # {} => /\ {m.column : m \in M} \subseteq table
                         /\ \A m, n \in M : m.column = n.column => m = n
    BY <2>1, MappingShape
  <2> HIDE DEF M
  <2>3. MadeMapping(M, table) = M
    BY <2>2, MappingKept
  <2> QED BY <1>4, <2>3 DEF M
<1>9. B.join = a.join
  <2>1. CASE IsOtlp(d.source)
    <3>1. d.join = {}
      BY <1>1, <2>1 DEF Regular
    <3>2. a.join = {}
      BY <1>4, <3>1 DEF MadeJoin
    <3> QED BY <1>5, <3>2 DEF MadeJoin
  <2>2. CASE ~IsOtlp(d.source)
    BY <1>1, <1>5, <1>8, <2>2, JoinTwice
  <2> QED BY <2>1, <2>2
<1>10. B.filter = a.filter
  <2> DEFINE F == {[not |-> TRUE, text |-> f.text] : f \in d.filter}
  <2>1. \A f \in F : [not |-> TRUE, text |-> f.text] = f
    OBVIOUS
  <2>2. a.filter = F /\ B.filter = {[not |-> TRUE, text |-> f.text] : f \in F}
    BY <1>4, <1>5
  <2> HIDE DEF F
  <2> QED BY ZenonT(40), <2>1, <2>2
<1>11. B.delay = a.delay
  <2>1. d.delay \in Nat /\ d.delay > 0
    BY <1>1 DEF Regular
  <2> QED BY <1>4, <1>5, <2>1, DelayIsStable
<1>12. B.resources.sources = a.resources.sources
  BY <1>1, <1>5, SizesTwice
<1>13. Owners(B) = Owners(a)
  <2>1. DOMAIN B.sources = DOMAIN a.sources
            /\ \A i \in DOMAIN a.sources : B.sources[i].id = a.sources[i].id
    BY <1>1, <1>5, IdsTwice
  <2>2. 1 \in DOMAIN a.sources
    BY <1>2, RegularSizes
  <2> QED BY <1>5, <1>6, <2>1, <2>2, OwnersAre
<1>14. B.resources.transform = a.resources.transform
  BY <1>1, <1>5, <1>13, TransformTwice
<1>15. Unversioned(a) = [a EXCEPT !.sources = S]
  BY Zenon DEF Unversioned, UnversionedSources
<1> HIDE DEF S
<1>16. /\ a = [source |-> a.source, sources |-> a.sources, conn |-> a.conn, dedup |-> a.dedup,
              join |-> a.join,
          filter |-> a.filter, outputs |-> a.outputs, mapping |-> a.mapping, delay |-> a.delay,
          resources |-> a.resources]
       /\ a.resources = [sources |-> a.resources.sources, transform |-> a.resources.transform]
  BY <1>4, Zenon DEF Whole
<1>17. /\ B = [source |-> B.source, sources |-> B.sources, conn |-> B.conn, dedup |-> B.dedup,
              join |-> B.join,
          filter |-> B.filter, outputs |-> B.outputs, mapping |-> B.mapping, delay |-> B.delay,
          resources |-> B.resources]
       /\ B.resources = [sources |-> B.resources.sources, transform |-> B.resources.transform]
  BY <1>5, Zenon DEF Whole
<1>18. [a EXCEPT !.sources = S] =
         [source |-> a.source, sources |-> S, conn |-> a.conn, dedup |-> a.dedup, join |-> a.join,
          filter |-> a.filter, outputs |-> a.outputs, mapping |-> a.mapping, delay |-> a.delay,
          resources |-> a.resources]
  BY <1>16
<1>19. B.resources = a.resources
  BY <1>12, <1>14, <1>16, <1>17, Zenon
<1>20. B.source = a.source /\ B.outputs = a.outputs /\ B.mapping = a.mapping
  BY <1>5, <1>8
<1>21. B = [a EXCEPT !.sources = S]
  BY <1>6, <1>7, <1>9, <1>10, <1>11, <1>17, <1>18, <1>19, <1>20, Zenon
<1> QED BY <1>15, <1>21 DEF B

\* Any pipeline, opened after any other.
LEMMA OneIsKept ==
  ASSUME NEW e, NEW d, NEW table \in SUBSET STRING, NEW live \in BOOLEAN
  PROVE  StaysAsItWas(e, d, table, live)
<1> SUFFICES ASSUME IsDeployed(e), IsDeployed(d) PROVE StaysAsItWas(e, d, table, live)
  BY Zenon DEF StaysAsItWas
<1> DEFINE M == Made(d, table, live)
           before == Hydrate(FreshStores, e, table, live)
           again == Redeployed(FreshStores, d, table, live)
<1>1. Regular(d) /\ Regular(e)
  BY DeployedIsRegular
<1>2. ASSUME NEW stores, Fits(stores, d, live)
      PROVE  Request(stores, d, table, live) = M /\ Redeployed(stores, d, table, live) = Stored(M)
  BY <1>1, <1>2, RequestIsMade, Zenon DEF Redeployed
<1>3. Request(FreshStores, d, table, live) = M /\ again = Stored(M)
  BY <1>1, <1>2, FreshFits
<1>4. Representable(d, table, live) => Accepted(M) /\ Stored(M) = d
  BY RepresentableIsKept
<1>5. Overwritten(e, d) => Request(before, d, table, live) = M
          /\ Redeployed(before, d, table, live) = Stored(M)
  BY <1>1, <1>2, OverwrittenFits
<1>6. Redeployed(FreshStores, again, table, live) = Unversioned(again)
  <2> DEFINE a == Stored(M)
  <2>1. Again(a, d, table, live)
    BY <1>1, StoredIsAgain
  <2> HIDE DEF a
  <2>2. Regular(a)
    BY <1>1, <2>1, AgainIsRegular
  <2>3. Request(FreshStores, a, table, live) = Made(a, table, live)
    BY <2>2, FreshFits, RequestIsMade
  <2>4. Redeployed(FreshStores, a, table, live) = Stored(Made(a, table, live))
    BY <2>3, Zenon DEF Redeployed
  <2>5. Stored(Made(a, table, live)) = Unversioned(a)
    BY <2>1, AgainIsKept
  <2> QED BY <1>3, <2>4, <2>5 DEF a
<1> HIDE DEF M, before, again
<1> QED BY <1>3, <1>4, <1>5, <1>6, Zenon DEF StaysAsItWas, before, again

\* A deployed pipeline that nobody edited is accepted and deployed as it was, by a fresh tab
\* and after any pipeline of which nothing shows through; and one the stores cannot hold, of
\* whatever kind, changes once and then stays, but for the version of a schema whose registry
\* the first time lost (hydrate, buildInternalPipelineConfig, generate; toModel).
THEOREM ConfigurationsAreKept == resume \in Optional(Resumes) => ConfigIsKept
<1> SUFFICES ASSUME resume \in Optional(Resumes), NEW r \in resume
             PROVE  StaysAsItWas(r.before, r.deployed, r.table, r.live)
  BY Zenon DEF ConfigIsKept
<1>1. r \in Resumes
  BY DEF Optional
<1>2. r.table \in SUBSET STRING /\ r.live \in BOOLEAN
  BY <1>1 DEF Resumes
<1> QED BY <1>2, OneIsKept

-----------------------------------------------------------------------------
(* The live status of pipelines in a tab (StatusStream). *)

Update == [Pipelines -> Health]
StreamType ==
  [phase : {"free", "starting", "polling", "cancelled"}, ids : SUBSET Pipelines,
   todo : SUBSET Pipelines, batch : Update, polling : SUBSET Pipelines, sent : Update,
   chan : Seq(Update)]
TabType ==
  [cur : Conns \union {NoConn},
   state : {"disconnected", "connecting", "connected", "reconnecting", "error"},
   subs : SUBSET Pipelines, cache : Update, attempts : 0..MaxReconnectAttempts,
   timer : BOOLEAN, stray : 0..MaxStrayTimers, heartbeat : BOOLEAN, fallback : BOOLEAN,
   hidden : BOOLEAN]
SourceType == [Conns -> {"none", "connecting", "open"}]

\* What a stream fetches, has fetched and sends is about the ids it was asked for, and its
\* start and its polls do not overlap.
StreamGood(s) ==
  /\ s.phase \in {"free", "starting"} => s.polling = {}
  /\ s.phase \in {"free", "polling"} => s.todo = {}
  /\ s.todo \subseteq s.ids /\ s.polling \subseteq s.ids
  /\ Len(s.chan) <= MaxBuffered
  /\ \A p \in Pipelines : s.batch[p] # NoStatus => p \in s.ids
  /\ \A i \in 1..Len(s.chan), p \in Pipelines : s.chan[i][p] # NoStatus => p \in s.ids

\* A cache entry a stream wrote is one it has sent, or will send with its first batch.
OwnerGood(c) ==
  /\ stream[c].phase = "free" => \A p \in Pipelines : writer[p] # c
  /\ stream[c].phase = "starting" => \A p \in Pipelines : writer[p] = c =>
       /\ p \notin stream[c].todo
       /\ stream[c].batch[p] = serverCache[p] /\ serverCache[p] # NoStatus
  /\ stream[c].phase = "polling" => \A p \in Pipelines : writer[p] = c =>
       stream[c].sent[p] = serverCache[p]
  /\ source[c] # "none" => Active(c)

ServerType ==
  /\ serverCache \in Update /\ writer \in [Pipelines -> Conns \union {NoConn}]
  /\ stream \in [Conns -> StreamType] /\ source \in SourceType
ServerInv ==
  ServerType /\ (\A c \in Conns : StreamGood(stream[c])) /\ (\A c \in Conns : OwnerGood(c))

\* The tab holds one source, for what it watches, and nothing else would open another.
TabGood(t, e, st) ==
  /\ \A c \in Conns : e[c] # "none" => c = t.cur
  /\ t.cur # NoConn => /\ e[t.cur] # "none" /\ st[t.cur].ids = t.subs
                       /\ t.subs # {} /\ ~t.fallback /\ ~t.hidden
                       /\ t.state # "reconnecting"
  /\ t.state = "connected" => t.cur # NoConn /\ e[t.cur] = "open" /\ t.heartbeat
  /\ t.heartbeat => t.cur # NoConn
  /\ t.timer <=> t.state = "reconnecting"
  /\ t.state = "reconnecting" => t.subs # {} /\ ~t.fallback /\ ~t.hidden
  /\ t.stray = 0
  /\ \A p \in Pipelines \ t.subs : t.cache[p] = NoStatus

TabInv ==
  /\ tab \in TabType /\ openedHidden \in BOOLEAN
  /\ ~openedHidden => TabGood(tab, source, stream)

StreamInv == ServerInv /\ TabInv

NoStatusType == NoStatuses \in Update /\ \A p \in Pipelines : NoStatuses[p] = NoStatus

LEMMA NoneCounted == 0 \in 0..MaxReconnectAttempts /\ 0 \in 0..MaxStrayTimers
BY StreamAssumption

LEMMA NothingKnown == NoStatusType
BY DEF NoStatusType, NoStatuses, Update, Health

\* A stream before and at its start.
LEMMA FreeStreamIs ==
  /\ FreeStream \in StreamType /\ StreamGood(FreeStream) /\ FreeStream.phase = "free"
<1>1. FreeStream.chan = << >> /\ << >> \in Seq(Update) /\ Len(<< >>) = 0
  BY DEF FreeStream
<1>2. FreeStream \in StreamType
  BY <1>1, NothingKnown DEF FreeStream, StreamType, NoStatusType
<1>3. 1..Len(FreeStream.chan) = {}
  BY <1>1
<1>4. StreamGood(FreeStream)
  BY <1>1, <1>3, NothingKnown, StreamAssumption DEF FreeStream, StreamGood, NoStatusType
<1> QED BY <1>2, <1>4 DEF FreeStream

LEMMA NewStreamIs ==
  ASSUME NEW ids \in SUBSET Pipelines
  PROVE  /\ NewStream(ids) \in StreamType /\ StreamGood(NewStream(ids))
         /\ NewStream(ids).phase = "starting" /\ NewStream(ids).ids = ids
<1>1. /\ NewStream(ids).phase = "starting" /\ NewStream(ids).ids = ids
      /\ NewStream(ids).todo = ids /\ NewStream(ids).batch = NoStatuses
      /\ NewStream(ids).polling = {} /\ NewStream(ids).chan = << >>
  BY DEF NewStream, FreeStream
<1>2. << >> \in Seq(Update) /\ Len(<< >>) = 0 /\ 1..Len(<< >>) = {}
  OBVIOUS
<1>3. NewStream(ids) \in StreamType
  BY <1>2, NothingKnown DEF NewStream, FreeStream, StreamType, NoStatusType
<1>4. StreamGood(NewStream(ids))
  BY <1>1, <1>2, NothingKnown, StreamAssumption DEF StreamGood, NoStatusType
<1> QED BY <1>1, <1>3, <1>4

\* A step at one connection: no other stream changes, opens, or comes to own an entry.
OnlyAt(c) == \A d \in Conns \ {c} :
  /\ stream'[d] = stream[d]
  /\ source'[d] # "none" => source[d] # "none"
  /\ \A p \in Pipelines : writer'[p] = d =>
       writer[p] = d /\ serverCache'[p] = serverCache[p]

LEMMA OneConnection ==
  ASSUME ServerInv, NEW c \in Conns, OnlyAt(c), ServerType', StreamGood(stream'[c]), OwnerGood(c)'
  PROVE  ServerInv'
<1>1. \A d \in Conns : StreamGood(stream'[d])
  BY DEF ServerInv, OnlyAt
<1>2. ASSUME NEW d \in Conns, d # c PROVE OwnerGood(d)'
  BY <1>2 DEF ServerInv, OnlyAt, OwnerGood, Active
<1>3. \A d \in Conns : OwnerGood(d)'
  BY <1>2
<1> QED BY <1>1, <1>3 DEF ServerInv

\* A step of the tab that opens no connection.
NoneOpened == \A d \in Conns : source'[d] # "none" => source[d] # "none"

LEMMA ClosingServes ==
  ASSUME ServerInv, UNCHANGED <<serverCache, writer, stream>>, source' \in SourceType, NoneOpened
  PROVE  ServerInv'
<1>1. ServerType'
  BY DEF ServerInv, ServerType
<1>2. \A d \in Conns : OwnerGood(d)'
  BY DEF ServerInv, NoneOpened, OwnerGood, Active
<1> QED BY <1>1, <1>2 DEF ServerInv

-----------------------------------------------------------------------------
(* The steps of the server *)

LEMMA FetchServes ==
  ASSUME ServerInv, NEW c \in Conns, StartFetch(c)
  PROVE  ServerInv'
<1>0. ServerType /\ StreamGood(stream[c]) /\ OwnerGood(c) /\ stream[c] \in StreamType
  BY DEF ServerInv, ServerType
<1>1. PICK p \in stream[c].todo, h \in Health :
        /\ stream' = [stream EXCEPT ![c].todo = @ \ {p}, ![c].batch[p] = h]
        /\ IF h = NoStatus
             THEN UNCHANGED <<serverCache, writer>>
             ELSE /\ serverCache' = [serverCache EXCEPT ![p] = h]
                  /\ writer' = [writer EXCEPT ![p] = c]
        /\ UNCHANGED source
  BY DEF StartFetch
<1>2. p \in Pipelines /\ stream[c].batch \in Update /\ stream[c].phase \in {"starting", "cancelled"}
      /\ p \in stream[c].ids
  BY <1>0 DEF StreamType, StreamGood
<1> DEFINE b == [stream[c].batch EXCEPT ![p] = h]
           s == [stream[c] EXCEPT !.todo = @ \ {p}, !.batch = b]
<1>3. b \in Update /\ b[p] = h /\ \A q \in Pipelines : q # p => b[q] = stream[c].batch[q]
  BY <1>2 DEF Update
<1>4. stream' = [stream EXCEPT ![c] = s]
  BY <1>0, <1>1, <1>2 DEF ServerType, StreamType
<1> HIDE DEF b
<1>5. /\ s \in StreamType /\ s.phase = stream[c].phase /\ s.ids = stream[c].ids
      /\ s.todo = stream[c].todo \ {p} /\ s.batch = b /\ s.polling = stream[c].polling
      /\ s.chan = stream[c].chan
  BY <1>0, <1>3 DEF StreamType
<1> HIDE DEF s
<1>6. stream'[c] = s /\ stream' \in [Conns -> StreamType]
      /\ \A d \in Conns : d # c => stream'[d] = stream[d]
  BY <1>0, <1>4, <1>5 DEF ServerType
<1>7. /\ serverCache' \in Update /\ writer' \in [Pipelines -> Conns \union {NoConn}]
      /\ \A q \in Pipelines : q # p =>
           serverCache'[q] = serverCache[q] /\ writer'[q] = writer[q]
      /\ \/ h = NoStatus /\ serverCache' = serverCache /\ writer' = writer
         \/ h # NoStatus /\ serverCache'[p] = h /\ writer'[p] = c
  BY <1>0, <1>1, <1>2 DEF ServerType, Update
<1>8. ServerType'
  BY <1>0, <1>1, <1>6, <1>7 DEF ServerType
<1>9. StreamGood(s)
  BY <1>0, <1>2, <1>3, <1>5 DEF StreamGood
<1>10. OnlyAt(c)
  BY <1>1, <1>2, <1>6, <1>7 DEF OnlyAt
<1>11. ASSUME s.phase = "starting", NEW q \in Pipelines, writer'[q] = c
       PROVE  q \notin s.todo /\ s.batch[q] = serverCache'[q] /\ serverCache'[q] # NoStatus
  <2>1. CASE q = p
    BY <1>0, <1>2, <1>3, <1>5, <1>7, <1>11, <2>1 DEF OwnerGood
  <2>2. CASE q # p
    BY <1>0, <1>2, <1>3, <1>5, <1>7, <1>11, <2>2 DEF OwnerGood
  <2> QED BY <2>1, <2>2
<1>12. OwnerGood(c)'
  BY <1>0, <1>1, <1>2, <1>5, <1>6, <1>11 DEF OwnerGood, Active
<1> QED BY <1>6, <1>8, <1>9, <1>10, <1>12, OneConnection

About(u, ids) == \A p \in Pipelines : u[p] # NoStatus => p \in ids

LEMMA SendIs ==
  ASSUME NEW s \in StreamType, NEW u \in Update, StreamGood(s), About(u, s.ids),
         Len(s.chan) < MaxBuffered
  PROVE  /\ Send(s, u) \in StreamType /\ StreamGood(Send(s, u))
         /\ Send(s, u).phase = s.phase
         /\ s.phase # "cancelled" => \A p \in Pipelines :
              Send(s, u).sent[p] = IF u[p] = NoStatus THEN s.sent[p] ELSE u[p]
<1>1. CASE s.phase = "cancelled"
  BY <1>1 DEF Send
<1>2. CASE s.phase # "cancelled"
  <2> DEFINE told == [p \in Pipelines |-> IF u[p] = NoStatus THEN s.sent[p] ELSE u[p]]
             r == Send(s, u)
  <2>1. told \in Update
    BY DEF StreamType, Update
  <2>2. s.chan \in Seq(Update) /\ Append(s.chan, u) \in Seq(Update)
        /\ Len(Append(s.chan, u)) = Len(s.chan) + 1
        /\ \A i \in 1..Len(s.chan) + 1 :
             Append(s.chan, u)[i] = IF i <= Len(s.chan) THEN s.chan[i] ELSE u
    BY DEF StreamType
  <2>3. /\ r \in StreamType /\ r.phase = s.phase /\ r.ids = s.ids /\ r.todo = s.todo
        /\ r.batch = s.batch /\ r.polling = s.polling /\ r.sent = told
        /\ r.chan = Append(s.chan, u)
    BY <1>2, <2>1, <2>2 DEF Send, StreamType
  <2>4. \A i \in 1..Len(r.chan), p \in Pipelines : r.chan[i][p] # NoStatus => p \in r.ids
    <3> SUFFICES ASSUME NEW i \in 1..Len(r.chan), NEW p \in Pipelines, r.chan[i][p] # NoStatus
                 PROVE  p \in r.ids
      OBVIOUS
    <3> HIDE DEF r
    <3>1. CASE i <= Len(s.chan)
      <4>1. i \in 1..Len(s.chan) /\ r.chan[i] = s.chan[i]
        BY <2>2, <2>3, <3>1
      <4> QED BY <2>3, <4>1 DEF StreamGood
    <3>2. CASE ~(i <= Len(s.chan))
      <4>1. r.chan[i] = u
        BY <2>2, <2>3, <3>2
      <4> QED BY <2>3, <4>1 DEF About
    <3> QED BY <3>1, <3>2
  <2>5. Len(r.chan) <= MaxBuffered
    <3> HIDE DEF r
    <3> QED BY <2>2, <2>3, StreamAssumption
  <2> HIDE DEF r
  <2>6. StreamGood(r)
    BY <2>3, <2>4, <2>5 DEF StreamGood
  <2> QED BY <2>3, <2>6 DEF r
<1> QED BY <1>1, <1>2

LEMMA StartServes ==
  ASSUME ServerInv, NEW c \in Conns, StartSend(c)
  PROVE  ServerInv'
<1>0. ServerType /\ StreamGood(stream[c]) /\ OwnerGood(c) /\ stream[c] \in StreamType
      /\ stream[c].phase = "starting" /\ stream[c].todo = {} /\ Len(stream[c].chan) < MaxBuffered
      /\ UNCHANGED <<serverCache, writer, source>>
  BY DEF ServerInv, ServerType, StartSend
<1> DEFINE s == [stream[c] EXCEPT !.phase = "polling"]
           r == IF s.batch = NoStatuses THEN s ELSE Send(s, s.batch)
<1>1. stream' = [stream EXCEPT ![c] = r]
  BY DEF StartSend
<1>2. /\ s \in StreamType /\ s.phase = "polling" /\ s.ids = stream[c].ids /\ s.todo = {}
      /\ s.batch = stream[c].batch /\ s.batch \in Update /\ s.polling = {}
      /\ s.chan = stream[c].chan
  BY <1>0 DEF StreamType, StreamGood
<1> HIDE DEF s
<1>3. StreamGood(s) /\ About(s.batch, s.ids)
  BY <1>0, <1>2 DEF StreamGood, About
<1>4. r \in StreamType /\ StreamGood(r) /\ r.phase = "polling"
  BY <1>0, <1>2, <1>3, SendIs
<1>5. ASSUME NEW p \in Pipelines, writer[p] = c
      PROVE  r.sent[p] = serverCache[p]
  <2>1. s.batch[p] = serverCache[p] /\ s.batch[p] # NoStatus
    BY <1>0, <1>2, <1>5 DEF OwnerGood
  <2>2. s.batch # NoStatuses
    BY <2>1, NothingKnown DEF NoStatusType
  <2> QED BY <1>0, <1>2, <1>3, <2>1, <2>2, SendIs
<1> HIDE DEF r
<1>6. stream'[c] = r /\ stream' \in [Conns -> StreamType]
      /\ \A d \in Conns : d # c => stream'[d] = stream[d]
  BY <1>0, <1>1, <1>4 DEF ServerType
<1>7. ServerType' /\ OnlyAt(c)
  BY <1>0, <1>6 DEF ServerType, OnlyAt
<1>8. OwnerGood(c)'
  BY <1>0, <1>4, <1>5, <1>6 DEF OwnerGood, Active
<1> QED BY <1>4, <1>6, <1>7, <1>8, OneConnection

LEMMA TickServes ==
  ASSUME ServerInv, NEW c \in Conns, PollTick(c)
  PROVE  ServerInv'
<1>0. ServerType /\ StreamGood(stream[c]) /\ OwnerGood(c) /\ stream[c] \in StreamType
      /\ stream[c].phase = "polling" /\ UNCHANGED <<serverCache, writer, source>>
  BY DEF ServerInv, ServerType, PollTick
<1> DEFINE s == [stream[c] EXCEPT !.polling = stream[c].ids]
<1>1. stream' = [stream EXCEPT ![c] = s]
  BY DEF PollTick
<1>2. /\ s \in StreamType /\ s.phase = "polling" /\ s.ids = stream[c].ids /\ s.todo = stream[c].todo
      /\ s.batch = stream[c].batch /\ s.polling = stream[c].ids /\ s.sent = stream[c].sent
      /\ s.chan = stream[c].chan
  BY <1>0 DEF StreamType
<1> HIDE DEF s
<1>3. StreamGood(s)
  BY <1>0, <1>2 DEF StreamGood
<1>4. stream'[c] = s /\ stream' \in [Conns -> StreamType]
      /\ \A d \in Conns : d # c => stream'[d] = stream[d]
  BY <1>0, <1>1, <1>2 DEF ServerType
<1>5. ServerType' /\ OnlyAt(c) /\ OwnerGood(c)'
  BY <1>0, <1>2, <1>4 DEF ServerType, OnlyAt, OwnerGood, Active
<1> QED BY <1>3, <1>4, <1>5, OneConnection

LEMMA AnswerServes ==
  ASSUME ServerInv, NEW c \in Conns, PollAnswer(c)
  PROVE  ServerInv'
<1>0. ServerType /\ StreamGood(stream[c]) /\ OwnerGood(c) /\ stream[c] \in StreamType
      /\ Len(stream[c].chan) < MaxBuffered /\ UNCHANGED source
  BY DEF ServerInv, ServerType, PollAnswer
<1> DEFINE left1(p) == [stream[c] EXCEPT !.polling = IF Active(c) THEN @ \ {p} ELSE {}]
<1>1. PICK p \in stream[c].polling, h \in Health :
        IF h \in {NoStatus, serverCache[p]}
          THEN /\ stream' = [stream EXCEPT ![c] = left1(p)]
               /\ UNCHANGED <<serverCache, writer>>
          ELSE /\ stream' = [stream EXCEPT ![c] = Send(left1(p), [NoStatuses EXCEPT ![p] = h])]
               /\ serverCache' = [serverCache EXCEPT ![p] = h]
               /\ writer' = [writer EXCEPT ![p] = c]
  BY DEF PollAnswer
<1> DEFINE s == left1(p)
           u == [NoStatuses EXCEPT ![p] = h]
<1>2. p \in Pipelines /\ p \in stream[c].ids /\ stream[c].phase \in {"polling", "cancelled"}
  BY <1>0 DEF StreamType, StreamGood
<1>3. /\ s \in StreamType /\ s.phase = stream[c].phase /\ s.ids = stream[c].ids
      /\ s.todo = stream[c].todo /\ s.batch = stream[c].batch /\ s.sent = stream[c].sent
      /\ s.polling \subseteq stream[c].polling /\ s.chan = stream[c].chan
  BY <1>0 DEF StreamType
<1>4. u \in Update /\ u[p] = h /\ \A q \in Pipelines : q # p => u[q] = NoStatus
  BY <1>2, NothingKnown DEF NoStatusType, Update
<1>5. \/ /\ stream' = [stream EXCEPT ![c] = s]
         /\ UNCHANGED <<serverCache, writer>>
      \/ /\ h # NoStatus
         /\ stream' = [stream EXCEPT ![c] = Send(s, u)]
         /\ serverCache' = [serverCache EXCEPT ![p] = h]
         /\ writer' = [writer EXCEPT ![p] = c]
  BY <1>1
<1> HIDE DEF s, u
<1>6. StreamGood(s) /\ About(u, s.ids)
  BY <1>0, <1>2, <1>3, <1>4 DEF StreamGood, About
<1>7. CASE stream' = [stream EXCEPT ![c] = s] /\ UNCHANGED <<serverCache, writer>>
  <2>1. stream'[c] = s /\ stream' \in [Conns -> StreamType]
        /\ \A d \in Conns : d # c => stream'[d] = stream[d]
    BY <1>0, <1>3, <1>7 DEF ServerType
  <2>2. ServerType' /\ OnlyAt(c) /\ OwnerGood(c)'
    BY <1>0, <1>2, <1>3, <1>7, <2>1 DEF ServerType, OnlyAt, OwnerGood, Active
  <2> QED BY <1>6, <2>1, <2>2, OneConnection
<1>8. CASE /\ h # NoStatus
           /\ stream' = [stream EXCEPT ![c] = Send(s, u)]
           /\ serverCache' = [serverCache EXCEPT ![p] = h]
           /\ writer' = [writer EXCEPT ![p] = c]
  <2> DEFINE r == Send(s, u)
  <2>1. /\ r \in StreamType /\ StreamGood(r) /\ r.phase = s.phase
        /\ s.phase # "cancelled" => \A q \in Pipelines :
             r.sent[q] = IF u[q] = NoStatus THEN s.sent[q] ELSE u[q]
    BY <1>0, <1>3, <1>4, <1>6, SendIs
  <2>2. stream' = [stream EXCEPT ![c] = r]
    BY <1>8
  <2> HIDE DEF r
  <2>3. stream'[c] = r /\ stream' \in [Conns -> StreamType]
        /\ \A d \in Conns : d # c => stream'[d] = stream[d]
    BY <1>0, <2>1, <2>2 DEF ServerType
  <2>4. /\ serverCache' \in Update /\ writer' \in [Pipelines -> Conns \union {NoConn}]
        /\ serverCache'[p] = h /\ writer'[p] = c
        /\ \A q \in Pipelines : q # p =>
             serverCache'[q] = serverCache[q] /\ writer'[q] = writer[q]
    BY <1>0, <1>2, <1>8 DEF ServerType, Update
  <2>5. ServerType' /\ OnlyAt(c)
    BY <1>0, <1>2, <2>3, <2>4 DEF ServerType, OnlyAt
  <2>6. ASSUME r.phase = "polling", NEW q \in Pipelines, writer'[q] = c
        PROVE  r.sent[q] = serverCache'[q]
    <3>1. CASE q = p
      BY <1>4, <1>8, <2>1, <2>4, <2>6, <3>1
    <3>2. CASE q # p
      BY <1>0, <1>3, <1>4, <2>1, <2>4, <2>6, <3>2 DEF OwnerGood
    <3> QED BY <3>1, <3>2
  <2>7. OwnerGood(c)'
    BY <1>0, <1>2, <1>3, <2>1, <2>3, <2>6 DEF OwnerGood, Active
  <2> QED BY <2>1, <2>3, <2>5, <2>7, OneConnection
<1> QED BY <1>5, <1>7, <1>8

LEMMA CancelServes ==
  ASSUME ServerInv, NEW c \in Conns, Cancel(c)
  PROVE  ServerInv'
<1>0. ServerType /\ StreamGood(stream[c]) /\ OwnerGood(c) /\ stream[c] \in StreamType
      /\ source[c] = "none" /\ UNCHANGED <<serverCache, writer, source>>
  BY DEF ServerInv, ServerType, Cancel
<1> DEFINE s == [stream[c] EXCEPT !.phase = "cancelled", !.chan = << >>]
<1>1. stream' = [stream EXCEPT ![c] = s]
  BY DEF Cancel
<1>2. << >> \in Seq(Update) /\ Len(<< >>) = 0 /\ 1..Len(<< >>) = {}
  OBVIOUS
<1>3. /\ s \in StreamType /\ s.phase = "cancelled" /\ s.ids = stream[c].ids
      /\ s.todo = stream[c].todo /\ s.batch = stream[c].batch /\ s.polling = stream[c].polling
      /\ s.chan = << >>
  BY <1>0, <1>2 DEF StreamType
<1> HIDE DEF s
<1>4. StreamGood(s)
  BY <1>0, <1>2, <1>3, StreamAssumption DEF StreamGood
<1>5. stream'[c] = s /\ stream' \in [Conns -> StreamType]
      /\ \A d \in Conns : d # c => stream'[d] = stream[d]
  BY <1>0, <1>1, <1>3 DEF ServerType
<1>6. ServerType' /\ OnlyAt(c) /\ OwnerGood(c)'
  BY <1>0, <1>3, <1>5 DEF ServerType, OnlyAt, OwnerGood
<1> QED BY <1>4, <1>5, <1>6, OneConnection

LEMMA DisownedIs ==
  ASSUME ServerType, NEW c \in Conns
  PROVE  /\ Disowned(c) \in [Pipelines -> Conns \union {NoConn}]
         /\ \A p \in Pipelines : Disowned(c)[p] # c /\ Disowned(c)[p] \in {writer[p], NoConn}
BY StreamAssumption DEF ServerType, Disowned

\* The slot of a stream begins again, with a stream that wrote nothing.
LEMMA RenewServes ==
  ASSUME ServerInv, NEW c \in Conns, NEW s \in StreamType, StreamGood(s),
         s.phase \in {"free", "starting"}, source'[c] # "none" => s.phase = "starting",
         stream' = [stream EXCEPT ![c] = s], writer' = Disowned(c), serverCache' = serverCache,
         source' \in SourceType, \A d \in Conns \ {c} : source'[d] # "none" => source[d] # "none"
  PROVE  ServerInv'
<1>0. ServerType
  BY DEF ServerInv
<1>1. stream'[c] = s /\ stream' \in [Conns -> StreamType]
      /\ \A d \in Conns : d # c => stream'[d] = stream[d]
  BY <1>0 DEF ServerType
<1>2. /\ writer' \in [Pipelines -> Conns \union {NoConn}]
      /\ \A p \in Pipelines : writer'[p] # c /\ writer'[p] \in {writer[p], NoConn}
  BY <1>0, DisownedIs
<1>3. ServerType' /\ OnlyAt(c)
  BY <1>0, <1>1, <1>2, StreamAssumption DEF ServerType, OnlyAt
<1>4. OwnerGood(c)'
  BY <1>1, <1>2 DEF OwnerGood, Active
<1> QED BY <1>1, <1>3, <1>4, OneConnection

LEMMA EndServes ==
  ASSUME ServerInv, NEW c \in Conns, StreamEnds(c)
  PROVE  ServerInv'
<1>1. source[c] = "none"
  BY DEF ServerInv, OwnerGood, StreamEnds, Active
<1> QED BY <1>1, FreeStreamIs, RenewServes DEF ServerInv, ServerType, StreamEnds

LEMMA DeliverServes ==
  ASSUME ServerInv, NEW c \in Conns, Deliver(c)
  PROVE  /\ ServerInv'
         /\ \A d \in Conns : stream'[d].ids = stream[d].ids
         /\ Head(stream[c].chan) \in Update /\ About(Head(stream[c].chan), stream[c].ids)
<1>0. /\ ServerType /\ StreamGood(stream[c]) /\ OwnerGood(c) /\ stream[c] \in StreamType
      /\ UNCHANGED <<serverCache, writer, source>> /\ stream[c].chan # << >>
      /\ stream[c].chan \in Seq(Update)
  BY DEF ServerInv, ServerType, Deliver, StreamType
<1> DEFINE q == Tail(stream[c].chan)
           s == [stream[c] EXCEPT !.chan = q]
<1>1. stream' = [stream EXCEPT ![c] = s]
  BY DEF Deliver
<1>2. /\ q \in Seq(Update) /\ Len(q) = Len(stream[c].chan) - 1
      /\ \A i \in 1..Len(q) : i + 1 \in 1..Len(stream[c].chan) /\ q[i] = stream[c].chan[i + 1]
      /\ Head(stream[c].chan) \in Update /\ Head(stream[c].chan) = stream[c].chan[1]
      /\ 1 \in 1..Len(stream[c].chan)
  BY <1>0
<1> HIDE DEF q
<1>3. /\ s \in StreamType /\ s.phase = stream[c].phase /\ s.ids = stream[c].ids
      /\ s.todo = stream[c].todo /\ s.batch = stream[c].batch /\ s.polling = stream[c].polling
      /\ s.sent = stream[c].sent /\ s.chan = q
  BY <1>0, <1>2 DEF StreamType
<1> HIDE DEF s
<1>4. \A i \in 1..Len(s.chan), p \in Pipelines : s.chan[i][p] # NoStatus => p \in s.ids
  BY <1>0, <1>2, <1>3 DEF StreamGood
<1>5. Len(s.chan) <= MaxBuffered
  BY <1>0, <1>2, <1>3, StreamAssumption DEF StreamGood
<1>6. StreamGood(s)
  BY <1>0, <1>3, <1>4, <1>5 DEF StreamGood
<1>7. stream'[c] = s /\ stream' \in [Conns -> StreamType]
      /\ \A d \in Conns : d # c => stream'[d] = stream[d]
  BY <1>0, <1>1, <1>3 DEF ServerType
<1>8. ServerType' /\ OnlyAt(c) /\ OwnerGood(c)'
  BY <1>0, <1>3, <1>7 DEF ServerType, OnlyAt, OwnerGood, Active
<1>9. About(Head(stream[c].chan), stream[c].ids)
  BY <1>0, <1>2 DEF StreamGood, About
<1> QED BY <1>2, <1>3, <1>6, <1>7, <1>8, <1>9, OneConnection

-----------------------------------------------------------------------------
(* The steps of the tab *)

\* A manager that holds no source, so that it may connect.
Ready(t, e) ==
  /\ t.cur = NoConn /\ \A c \in Conns : e[c] = "none"
  /\ ~t.timer /\ ~t.heartbeat /\ t.state # "connected" /\ t.stray = 0
  /\ t.state = "reconnecting" => t.subs # {} /\ ~t.fallback
  /\ \A p \in Pipelines \ t.subs : t.cache[p] = NoStatus

FewerOpen(e) == \A c \in Conns : e[c] # "none" => source[c] # "none"

LEMMA ConnectKeeps ==
  ASSUME ServerInv, openedHidden \in BOOLEAN, NEW t \in TabType, NEW e \in SourceType,
         FewerOpen(e), ~openedHidden => Ready(t, e), Connect(t, e),
         UNCHANGED <<serverCache, writer>>
  PROVE  StreamInv'
<1>0. ServerType
  BY DEF ServerInv
<1>1. CASE (t.subs = {} \/ t.fallback) /\ tab' = t /\ source' = e /\ UNCHANGED <<stream, openedHidden>>
  <2>1. ServerInv'
    BY <1>1, ClosingServes DEF FewerOpen, NoneOpened
  <2>2. ~openedHidden => TabGood(t, e, stream)
    BY <1>1 DEF Ready, TabGood, TabType
  <2> QED BY <1>1, <2>1, <2>2 DEF StreamInv, TabInv
<1>2. ASSUME ~(t.subs = {} \/ t.fallback), NEW c \in Conns,
             e[c] = "none", stream[c].phase = "free",
             tab' = [t EXCEPT !.cur = c, !.state = "connecting"],
             source' = [e EXCEPT ![c] = "connecting"],
             stream' = [stream EXCEPT ![c] = NewStream(t.subs)],
             openedHidden' = (openedHidden \/ t.hidden)
      PROVE  StreamInv'
  <2> DEFINE s == NewStream(t.subs)
             u == [t EXCEPT !.cur = c, !.state = "connecting"]
  <2>1. s \in StreamType /\ StreamGood(s) /\ s.phase = "starting" /\ s.ids = t.subs
    BY NewStreamIs DEF TabType
  <2>2. /\ u \in TabType /\ u.cur = c /\ u.state = "connecting" /\ u.subs = t.subs
        /\ u.fallback = t.fallback /\ u.hidden = t.hidden /\ u.timer = t.timer
        /\ u.heartbeat = t.heartbeat /\ u.stray = t.stray /\ u.cache = t.cache
    BY DEF TabType
  <2>3. tab' = u /\ stream' = [stream EXCEPT ![c] = s]
    BY <1>2
  <2> HIDE DEF s, u
  <2>4. stream'[c] = s /\ stream' \in [Conns -> StreamType]
        /\ \A d \in Conns : d # c => stream'[d] = stream[d]
    BY <1>0, <2>1, <2>3 DEF ServerType
  <2>5. source' \in SourceType /\ source'[c] = "connecting"
        /\ \A d \in Conns : d # c => source'[d] = e[d]
    BY <1>2 DEF SourceType
  <2>6. ServerType' /\ OnlyAt(c)
    BY <1>0, <2>4, <2>5 DEF ServerType, OnlyAt, FewerOpen
  <2>7. \A p \in Pipelines : writer'[p] # c
    BY <1>2 DEF ServerInv, OwnerGood
  <2>8. OwnerGood(c)'
    BY <2>1, <2>4, <2>7 DEF OwnerGood, Active
  <2>9. ServerInv'
    BY <2>1, <2>4, <2>6, <2>8, OneConnection
  <2>10. ~openedHidden' => TabGood(u, source', stream')
    BY <1>2, <2>1, <2>2, <2>4, <2>5, StreamAssumption DEF Ready, TabGood, TabType
  <2> QED BY <1>2, <2>2, <2>3, <2>9, <2>10 DEF StreamInv, TabInv, TabType
<1> QED BY <1>1, <1>2 DEF Connect

\* What disconnect() leaves, of the tab and of the sources.
LEMMA DisconnectedIs ==
  ASSUME NEW t \in TabType
  PROVE  /\ Disconnected(t) \in TabType /\ Disconnected(t).cur = NoConn
         /\ ~Disconnected(t).timer /\ ~Disconnected(t).heartbeat
         /\ Disconnected(t).state = "disconnected" /\ Disconnected(t).stray = t.stray
         /\ Disconnected(t).subs = t.subs /\ Disconnected(t).cache = t.cache
         /\ Disconnected(t).fallback = t.fallback /\ Disconnected(t).hidden = t.hidden
BY DEF Disconnected, TabType

LEMMA CloseIs ==
  ASSUME ServerType, NEW t \in TabType
  PROVE  /\ CloseCurrent(t) \in SourceType /\ FewerOpen(CloseCurrent(t))
         /\ (\A c \in Conns : source[c] # "none" => c = t.cur)
              => \A c \in Conns : CloseCurrent(t)[c] = "none"
         /\ \A c \in Conns : c # t.cur => CloseCurrent(t)[c] = source[c]
BY StreamAssumption DEF ServerType, TabType, CloseCurrent, SourceType, FewerOpen

\* The manager after disconnect() may connect, whatever else changed in it.
Alone(t, e) == \A c \in Conns : e[c] # "none" => c = t.cur
Clean(t) == t.stray = 0 /\ \A p \in Pipelines \ t.subs : t.cache[p] = NoStatus

LEMMA DisconnectReadies ==
  ASSUME ServerType, NEW t \in TabType, Alone(t, source), Clean(t)
  PROVE  Ready(Disconnected(t), CloseCurrent(t))
BY DisconnectedIs, CloseIs DEF Alone, Clean, Ready

LEMMA ReconnectKeeps ==
  ASSUME ServerInv, openedHidden \in BOOLEAN, NEW t \in TabType,
         ~openedHidden => Alone(t, source) /\ Clean(t),
         Reconnect(t), UNCHANGED <<serverCache, writer>>
  PROVE  StreamInv'
<1>1. Disconnected(t) \in TabType /\ CloseCurrent(t) \in SourceType /\ FewerOpen(CloseCurrent(t))
  BY DisconnectedIs, CloseIs DEF ServerInv
<1>2. ~openedHidden => Ready(Disconnected(t), CloseCurrent(t))
  BY DisconnectReadies DEF ServerInv
<1> QED BY <1>1, <1>2, ConnectKeeps DEF Reconnect

LEMMA MountKeeps ==
  ASSUME StreamInv, MountMonitoring
  PROVE  StreamInv'
<1>1. PICK ids \in SUBSET Pipelines \ {{}} : Reconnect([tab EXCEPT !.subs = ids])
  BY DEF MountMonitoring
<1> DEFINE t == [tab EXCEPT !.subs = ids]
<1>2. t \in TabType /\ t.cur = tab.cur /\ t.stray = tab.stray /\ t.subs = ids /\ t.cache = tab.cache
  BY DEF StreamInv, TabInv, TabType
<1> HIDE DEF t
<1>3. ~openedHidden => Alone(t, source) /\ Clean(t)
  BY <1>2 DEF StreamInv, TabInv, TabGood, MountMonitoring, Alone, Clean
<1>4. Reconnect(t)
  BY <1>1 DEF t
<1> QED BY <1>2, <1>3, <1>4, ReconnectKeeps DEF StreamInv, TabInv, MountMonitoring

LEMMA ResetKeeps ==
  ASSUME StreamInv, ResetFallback
  PROVE  StreamInv'
<1> DEFINE t == [tab EXCEPT !.fallback = FALSE, !.attempts = 0]
<1>1. /\ t \in TabType /\ t.cur = tab.cur /\ t.stray = tab.stray /\ t.subs = tab.subs
      /\ t.cache = tab.cache
  BY NoneCounted DEF StreamInv, TabInv, TabType
<1>2. Reconnect(t)
  BY DEF ResetFallback
<1> HIDE DEF t
<1>3. ~openedHidden => Alone(t, source) /\ Clean(t)
  BY <1>1 DEF StreamInv, TabInv, TabGood, Alone, Clean
<1> QED BY <1>1, <1>2, <1>3, ReconnectKeeps DEF StreamInv, TabInv, ResetFallback

LEMMA UnsubscribedIs ==
  ASSUME NEW t \in TabType
  PROVE  /\ Unsubscribed(t) \in TabType /\ Unsubscribed(t).cur = NoConn
         /\ ~Unsubscribed(t).timer /\ ~Unsubscribed(t).heartbeat
         /\ Unsubscribed(t).state = "disconnected" /\ Unsubscribed(t).stray = t.stray
         /\ Unsubscribed(t).subs = {} /\ Unsubscribed(t).fallback = t.fallback
         /\ Unsubscribed(t).hidden = t.hidden /\ Unsubscribed(t).cache = NoStatuses
<1> DEFINE u == [t EXCEPT !.subs = {}, !.cache = NoStatuses]
<1>1. /\ u \in TabType /\ u.stray = t.stray /\ u.subs = {} /\ u.fallback = t.fallback
      /\ u.hidden = t.hidden /\ u.cache = NoStatuses
  BY NothingKnown DEF NoStatusType, TabType
<1> HIDE DEF u
<1>2. Unsubscribed(t) = Disconnected(u)
  BY DEF Unsubscribed, u
<1> QED BY <1>1, <1>2, DisconnectedIs

\* A step of the tab that closes its source and leaves it disconnected.
LEMMA LeavingKeeps ==
  ASSUME StreamInv, NEW t \in TabType, tab' = t, source' = CloseCurrent(tab),
         UNCHANGED <<serverCache, writer, stream, openedHidden>>,
         ~openedHidden => Ready(t, source') /\ t.state # "reconnecting"
  PROVE  StreamInv'
<1>1. source' \in SourceType /\ FewerOpen(source')
  BY CloseIs DEF StreamInv, ServerInv, TabInv
<1>2. ServerInv'
  BY <1>1, ClosingServes DEF StreamInv, FewerOpen, NoneOpened
<1>3. ~openedHidden => TabGood(t, source', stream)
  BY DEF Ready, TabGood, TabType
<1> QED BY <1>2, <1>3 DEF StreamInv, TabInv

LEMMA UnmountKeeps ==
  ASSUME StreamInv, UnmountMonitoring
  PROVE  StreamInv'
<1>1. ~openedHidden => Ready(Unsubscribed(tab), CloseCurrent(tab))
  BY UnsubscribedIs, CloseIs, NothingKnown
     DEF StreamInv, ServerInv, TabInv, TabGood, Ready, NoStatusType
<1> QED BY <1>1, UnsubscribedIs, LeavingKeeps DEF StreamInv, TabInv, UnmountMonitoring

LEMMA HideKeeps ==
  ASSUME StreamInv, TabHidden
  PROVE  StreamInv'
<1> DEFINE t == [tab EXCEPT !.hidden = TRUE]
<1>1. t \in TabType /\ t.subs = tab.subs /\ t.cache = tab.cache /\ t.stray = tab.stray
  BY DEF StreamInv, TabInv, TabType
<1>2. tab' = Disconnected(t)
  BY DEF TabHidden
<1> HIDE DEF t
<1>3. ~openedHidden => Ready(Disconnected(t), CloseCurrent(tab))
  BY <1>1, DisconnectedIs, CloseIs DEF StreamInv, ServerInv, TabInv, TabGood, Ready
<1> QED BY <1>1, <1>2, <1>3, DisconnectedIs, LeavingKeeps DEF TabHidden

LEMMA ChangeIdsKeeps ==
  ASSUME StreamInv, ChangeIds
  PROVE  StreamInv'
<1>1. PICK ids \in SUBSET Pipelines \ {{}, tab.subs} :
        Connect([Unsubscribed(tab) EXCEPT !.subs = ids], CloseCurrent(tab))
  BY DEF ChangeIds
<1> DEFINE v == Unsubscribed(tab)
           t == [v EXCEPT !.subs = ids]
<1>2. /\ v \in TabType /\ v.cur = NoConn /\ ~v.timer /\ ~v.heartbeat
      /\ v.state = "disconnected" /\ v.stray = tab.stray /\ v.cache = NoStatuses
  BY UnsubscribedIs DEF StreamInv, TabInv
<1> HIDE DEF v
<1>3. /\ t \in TabType /\ t.cur = NoConn /\ ~t.timer /\ ~t.heartbeat
      /\ t.state = "disconnected" /\ t.stray = tab.stray /\ t.cache = NoStatuses
  BY <1>2 DEF TabType
<1>4. Connect(t, CloseCurrent(tab))
  BY <1>1 DEF v
<1> HIDE DEF t
<1>5. ~openedHidden => Ready(t, CloseCurrent(tab))
  BY <1>3, CloseIs, NothingKnown DEF StreamInv, ServerInv, TabInv, TabGood, Ready, NoStatusType
<1>6. CloseCurrent(tab) \in SourceType /\ FewerOpen(CloseCurrent(tab))
  BY CloseIs DEF StreamInv, ServerInv, TabInv
<1> QED BY <1>3, <1>4, <1>5, <1>6, ConnectKeeps DEF StreamInv, TabInv, ChangeIds

\* A pending timer fires, or the tab is shown again: connect() with the tab as t.
LEMMA ConnectsAgain ==
  ASSUME StreamInv, NEW t \in TabType, Connect(t, source), UNCHANGED <<serverCache, writer>>,
         ~openedHidden => Ready(t, source)
  PROVE  StreamInv'
<1>1. source \in SourceType /\ FewerOpen(source)
  BY DEF StreamInv, ServerInv, ServerType, FewerOpen
<1> QED BY <1>1, ConnectKeeps DEF StreamInv, TabInv

LEMMA TimerKeeps ==
  ASSUME StreamInv, ReconnectTimer \/ StrayTimer \/ TabVisible
  PROVE  StreamInv'
<1>0. tab \in TabType /\ (~openedHidden => TabGood(tab, source, stream))
  BY DEF StreamInv, TabInv
<1>1. CASE ReconnectTimer
  <2> DEFINE t == [tab EXCEPT !.timer = FALSE]
  <2>1. /\ t \in TabType /\ t.cur = tab.cur /\ ~t.timer /\ t.heartbeat = tab.heartbeat
        /\ t.state = tab.state /\ t.stray = tab.stray /\ t.subs = tab.subs
        /\ t.fallback = tab.fallback /\ t.cache = tab.cache
    BY <1>0 DEF TabType
  <2>2. Connect(t, source)
    BY <1>1 DEF ReconnectTimer
  <2> HIDE DEF t
  <2>3. ~openedHidden => Ready(t, source)
    BY <1>0, <1>1, <2>1, StreamAssumption DEF ReconnectTimer, TabGood, Ready
  <2> QED BY <1>1, <2>1, <2>2, <2>3, ConnectsAgain DEF ReconnectTimer
<1>2. CASE StrayTimer
  <2> DEFINE t == [tab EXCEPT !.stray = @ - 1]
  <2>1. t \in TabType
    BY <1>0, <1>2, StreamAssumption DEF TabType, StrayTimer
  <2>2. Connect(t, source)
    BY <1>2 DEF StrayTimer
  <2> HIDE DEF t
  <2>3. openedHidden
    BY <1>0, <1>2 DEF StrayTimer, TabGood
  <2> QED BY <1>2, <2>1, <2>2, <2>3, ConnectsAgain DEF StrayTimer
<1>3. CASE TabVisible
  <2> DEFINE t == [tab EXCEPT !.hidden = FALSE]
  <2>1. /\ t \in TabType /\ t.cur = tab.cur /\ t.timer = tab.timer /\ t.heartbeat = tab.heartbeat
        /\ t.state = tab.state /\ t.stray = tab.stray /\ t.subs = tab.subs
        /\ t.fallback = tab.fallback /\ t.cache = tab.cache
    BY <1>0 DEF TabType
  <2>2. Connect(t, source)
    BY <1>3 DEF TabVisible
  <2> HIDE DEF t
  <2>3. ~openedHidden => Ready(t, source)
    BY <1>0, <1>3, <2>1, StreamAssumption DEF TabVisible, TabGood, Ready
  <2> QED BY <1>3, <2>1, <2>2, <2>3, ConnectsAgain DEF TabVisible
<1> QED BY <1>1, <1>2, <1>3

\* What handleConnectionError leaves of the tab.
LEMMA ErrorLeaves ==
  ASSUME NEW t \in TabType
  PROVE  /\ ConnectionError(t) \in TabType /\ ConnectionError(t).cur = NoConn
         /\ ~ConnectionError(t).heartbeat /\ ConnectionError(t).subs = t.subs
         /\ ConnectionError(t).cache = t.cache /\ ConnectionError(t).hidden = t.hidden
         /\ \/ /\ ConnectionError(t).state = "error"
               /\ ConnectionError(t).timer = t.timer /\ ConnectionError(t).stray = t.stray
            \/ /\ ConnectionError(t).state = "reconnecting" /\ ConnectionError(t).timer
               /\ ConnectionError(t).fallback = t.fallback
               /\ ~t.timer => ConnectionError(t).stray = t.stray
<1> DEFINE a == IF t.attempts < MaxReconnectAttempts THEN t.attempts + 1 ELSE t.attempts
           u == [t EXCEPT !.cur = NoConn, !.heartbeat = FALSE, !.attempts = a]
<1>1. a \in 0..MaxReconnectAttempts
  BY StreamAssumption DEF TabType
<1> HIDE DEF a
<1>2. /\ u \in TabType /\ u.cur = NoConn /\ ~u.heartbeat /\ u.subs = t.subs /\ u.cache = t.cache
      /\ u.hidden = t.hidden /\ u.timer = t.timer /\ u.stray = t.stray
      /\ u.fallback = t.fallback
  BY <1>1 DEF TabType
<1>3. CASE a >= MaxReconnectAttempts
  <2>1. ConnectionError(t) = [u EXCEPT !.state = "error", !.fallback = TRUE]
    BY <1>3 DEF ConnectionError, a
  <2> HIDE DEF u
  <2> QED BY <1>2, <2>1 DEF TabType
<1>4. CASE ~(a >= MaxReconnectAttempts)
  <2>1. ConnectionError(t) =
          [u EXCEPT !.state = "reconnecting", !.timer = TRUE,
                    !.stray = IF t.timer /\ @ < MaxStrayTimers THEN @ + 1 ELSE @]
    BY <1>4 DEF ConnectionError, a
  <2> HIDE DEF u
  <2> DEFINE n == IF t.timer /\ u.stray < MaxStrayTimers THEN u.stray + 1 ELSE u.stray
  <2>2. n \in 0..MaxStrayTimers /\ (~t.timer => n = t.stray)
    BY <1>2, StreamAssumption DEF TabType
  <2>3. ConnectionError(t) = [u EXCEPT !.state = "reconnecting", !.timer = TRUE, !.stray = n]
    BY <2>1
  <2> HIDE DEF n
  <2> QED BY <1>2, <2>2, <2>3 DEF TabType
<1> QED BY <1>3, <1>4

\* A failure of the current source leaves the tab good.
LEMMA ErrorIsGood ==
  ASSUME NEW t \in TabType, TabGood(t, source, stream), t.cur # NoConn, NEW e, NEW st,
         \A c \in Conns : e[c] = "none"
  PROVE  TabGood(ConnectionError(t), e, st)
<1> DEFINE u == ConnectionError(t)
<1>1. ~t.timer /\ t.subs # {} /\ ~t.fallback /\ ~t.hidden /\ t.stray = 0
  BY DEF TabGood, TabType
<1>2. /\ u \in TabType /\ u.cur = NoConn /\ ~u.heartbeat /\ u.subs = t.subs /\ u.cache = t.cache
      /\ u.hidden = t.hidden /\ u.stray = t.stray
      /\ \/ u.state = "error" /\ u.timer = t.timer
         \/ u.state = "reconnecting" /\ u.timer /\ u.fallback = t.fallback
  BY <1>1, ErrorLeaves
<1> HIDE DEF u
<1>3. TabGood(u, e, st)
  BY <1>1, <1>2 DEF TabGood, TabType
<1> QED BY <1>3 DEF u

LEMMA HeartbeatKeeps ==
  ASSUME StreamInv, HeartbeatTimeout
  PROVE  StreamInv'
<1>1. source' \in SourceType /\ FewerOpen(source')
  BY CloseIs DEF StreamInv, ServerInv, TabInv, HeartbeatTimeout
<1>2. ServerInv'
  BY <1>1, ClosingServes DEF StreamInv, FewerOpen, NoneOpened, HeartbeatTimeout
<1>3. ~openedHidden => TabGood(ConnectionError(tab), source', stream')
  <2> SUFFICES ASSUME ~openedHidden PROVE TabGood(ConnectionError(tab), source', stream')
    OBVIOUS
  <2>1. tab \in TabType /\ TabGood(tab, source, stream) /\ tab.cur # NoConn
    BY DEF StreamInv, TabInv, TabGood, HeartbeatTimeout
  <2>2. \A c \in Conns : source'[c] = "none"
    BY <2>1, CloseIs DEF StreamInv, ServerInv, TabGood, HeartbeatTimeout
  <2> QED BY <2>1, <2>2, ErrorIsGood
<1> QED BY <1>2, <1>3, ErrorLeaves DEF StreamInv, TabInv, HeartbeatTimeout

LEMMA ErrorKeeps ==
  ASSUME StreamInv, NEW c \in Conns, OnError(c)
  PROVE  StreamInv'
<1>0. /\ ServerInv /\ ServerType /\ tab \in TabType /\ source[c] # "none"
      /\ tab' = ConnectionError(tab) /\ UNCHANGED <<serverCache, openedHidden>>
      /\ CloseCurrent(tab) \in SourceType /\ FewerOpen(CloseCurrent(tab))
  BY CloseIs DEF StreamInv, ServerInv, TabInv, OnError
<1>1. CASE c = tab.cur
  <2>1. source' = CloseCurrent(tab) /\ UNCHANGED <<stream, writer>>
    BY <1>1 DEF OnError
  <2>2. ServerInv'
    BY <1>0, <2>1, ClosingServes DEF FewerOpen, NoneOpened
  <2>3. ASSUME ~openedHidden PROVE TabGood(ConnectionError(tab), source', stream')
    <3>1. TabGood(tab, source, stream) /\ tab.cur # NoConn
      BY <1>1, <2>3, StreamAssumption DEF StreamInv, TabInv
    <3>2. \A d \in Conns : source'[d] = "none"
      BY <1>0, <2>1, <3>1, CloseIs DEF TabGood
    <3> QED BY <1>0, <3>1, <3>2, ErrorIsGood
  <2> QED BY <1>0, <2>2, <2>3, ErrorLeaves DEF StreamInv, TabInv
<1>2. CASE c # tab.cur
  <2>1. /\ source' = [CloseCurrent(tab) EXCEPT ![c] = "connecting"]
        /\ stream' = [stream EXCEPT ![c] = NewStream(stream[c].ids)]
        /\ writer' = Disowned(c)
    BY <1>0, <1>2 DEF OnError, ServerType
  <2>2. stream[c].ids \in SUBSET Pipelines
    BY <1>0 DEF ServerType, StreamType
  <2> DEFINE s == NewStream(stream[c].ids)
  <2>3. s \in StreamType /\ StreamGood(s) /\ s.phase = "starting"
    BY <2>2, NewStreamIs
  <2> HIDE DEF s
  <2>4. source' \in SourceType /\ \A d \in Conns \ {c} : source'[d] # "none" => source[d] # "none"
    BY <1>0, <2>1 DEF SourceType, FewerOpen
  <2>5. ServerInv'
    BY <1>0, <2>1, <2>3, <2>4, RenewServes DEF s
  <2>6. openedHidden
    BY <1>0, <1>2 DEF StreamInv, TabInv, TabGood
  <2> QED BY <1>0, <2>5, <2>6, ErrorLeaves DEF StreamInv, TabInv
<1> QED BY <1>1, <1>2

LEMMA OpenKeeps ==
  ASSUME StreamInv, NEW c \in Conns, OnOpen(c)
  PROVE  StreamInv'
<1>0. /\ ServerInv /\ ServerType /\ tab \in TabType /\ source[c] = "connecting"
      /\ source' = [source EXCEPT ![c] = "open"]
      /\ UNCHANGED <<serverCache, writer, stream, openedHidden>>
  BY DEF StreamInv, ServerInv, TabInv, OnOpen
<1>1. source' \in SourceType /\ source'[c] = "open" /\ \A d \in Conns : d # c => source'[d] = source[d]
  BY <1>0 DEF ServerType, SourceType
<1>2. ServerInv'
  BY <1>0, <1>1, ClosingServes DEF NoneOpened
<1> DEFINE u == [tab EXCEPT !.state = "connected", !.attempts = 0, !.heartbeat = TRUE]
<1>3. /\ u \in TabType /\ u.state = "connected" /\ u.heartbeat /\ u.cur = tab.cur
      /\ u.subs = tab.subs /\ u.timer = tab.timer /\ u.stray = tab.stray
      /\ u.cache = tab.cache /\ u.fallback = tab.fallback /\ u.hidden = tab.hidden
  BY <1>0, NoneCounted DEF TabType
<1>4. tab' = u
  BY DEF OnOpen
<1> HIDE DEF u
<1>5. ASSUME TabGood(tab, source, stream) PROVE TabGood(u, source', stream)
  <2>1. c = tab.cur /\ tab.cur # NoConn /\ tab.state # "reconnecting" /\ ~tab.timer
    BY <1>0, <1>5, StreamAssumption DEF TabGood, TabType
  <2> QED BY <1>1, <1>3, <1>5, <2>1 DEF TabGood
<1> QED BY <1>0, <1>2, <1>3, <1>4, <1>5 DEF StreamInv, TabInv

LEMMA DeliverKeeps ==
  ASSUME StreamInv, NEW c \in Conns, Deliver(c)
  PROVE  StreamInv'
<1>0. /\ ServerInv /\ tab \in TabType /\ source[c] = "open" /\ UNCHANGED <<source, openedHidden>>
  BY DEF StreamInv, TabInv, Deliver
<1>1. /\ ServerInv' /\ \A d \in Conns : stream'[d].ids = stream[d].ids
      /\ Head(stream[c].chan) \in Update /\ About(Head(stream[c].chan), stream[c].ids)
  BY <1>0, DeliverServes
<1> DEFINE v == Head(stream[c].chan)
           m == [p \in Pipelines |-> IF v[p] = NoStatus THEN tab.cache[p] ELSE v[p]]
           u == [tab EXCEPT !.cache = m]
<1>2. tab' = u
  BY <1>0 DEF Deliver
<1> HIDE DEF v
<1>3. m \in Update
  BY <1>0, <1>1 DEF TabType, Update, v
<1>4. \A p \in Pipelines : m[p] = IF v[p] = NoStatus THEN tab.cache[p] ELSE v[p]
  OBVIOUS
<1> HIDE DEF m
<1>5. /\ u \in TabType /\ u.cache = m /\ u.state = tab.state /\ u.heartbeat = tab.heartbeat
      /\ u.cur = tab.cur /\ u.subs = tab.subs /\ u.timer = tab.timer /\ u.stray = tab.stray
      /\ u.fallback = tab.fallback /\ u.hidden = tab.hidden
  BY <1>0, <1>3 DEF TabType
<1> HIDE DEF u
<1>6. ASSUME TabGood(tab, source, stream) PROVE TabGood(u, source, stream')
  <2>1. c = tab.cur /\ c # NoConn /\ stream[c].ids = tab.subs
    BY <1>0, <1>6, StreamAssumption DEF TabGood
  <2>2. \A p \in Pipelines \ u.subs : u.cache[p] = NoStatus
    BY <1>1, <1>4, <1>5, <1>6, <2>1 DEF About, TabGood, v
  <2> QED BY <1>1, <1>5, <1>6, <2>1, <2>2 DEF TabGood
<1> QED BY <1>0, <1>1, <1>2, <1>5, <1>6 DEF StreamInv, TabInv

\* The steps of the server leave what the tab's connection was opened for.
LEMMA ServingKeeps ==
  ASSUME StreamInv, NEW c \in Conns, ServerStep(c) \/ PollTick(c)
  PROVE  StreamInv'
<1>1. ServerInv'
  BY FetchServes, StartServes, AnswerServes, CancelServes, EndServes, TickServes
     DEF StreamInv, ServerStep
<1>2. UNCHANGED <<source, tab, openedHidden>>
  BY DEF ServerStep, StartFetch, StartSend, PollAnswer, Cancel, StreamEnds, PollTick
<1>3. ASSUME NEW d \in Conns, source[d] # "none" PROVE stream'[d].ids = stream[d].ids
  <2>0. stream \in [Conns -> StreamType] /\ stream[c] \in StreamType /\ Active(d)
    BY <1>3 DEF StreamInv, ServerInv, ServerType, OwnerGood
  <2>1. CASE d # c
    BY <2>0, <2>1 DEF ServerStep, StartFetch, StartSend, PollAnswer, Cancel, StreamEnds, PollTick
  <2>2. CASE d = c
    <3>1. CASE StartFetch(c)
      BY <2>0, <2>2, <3>1 DEF StartFetch, StreamType
    <3>2. CASE StartSend(c)
      BY <2>0, <2>2, <3>2 DEF StartSend, Send, StreamType
    <3>3. CASE PollAnswer(c)
      <4> DEFINE kept(p) == [stream[c] EXCEPT !.polling = IF Active(c) THEN @ \ {p} ELSE {}]
      <4>1. PICK p \in stream[c].polling, h \in Health :
              \/ stream' = [stream EXCEPT ![c] = kept(p)]
              \/ stream' = [stream EXCEPT ![c] = Send(kept(p), [NoStatuses EXCEPT ![p] = h])]
        BY <3>3 DEF PollAnswer
      <4> DEFINE s == kept(p)
      <4>2. s \in StreamType /\ s.ids = stream[c].ids
        BY <2>0 DEF StreamType
      <4>3. stream'[c] = s \/ stream'[c] = Send(s, [NoStatuses EXCEPT ![p] = h])
        BY <2>0, <4>1
      <4> HIDE DEF s
      <4>4. \A u : Send(s, u).ids = s.ids
        BY <4>2 DEF Send, StreamType
      <4> QED BY <2>2, <4>2, <4>3, <4>4
    <3>4. CASE Cancel(c) \/ StreamEnds(c)
      BY <1>3, <2>0, <2>2, <3>4 DEF Cancel, StreamEnds, Active
    <3>5. CASE PollTick(c)
      BY <2>0, <2>2, <3>5 DEF PollTick, StreamType
    <3> QED BY <3>1, <3>2, <3>3, <3>4, <3>5 DEF ServerStep
  <2> QED BY <2>1, <2>2
<1>4. tab.cur \in Conns \union {NoConn}
  BY DEF StreamInv, TabInv, TabType
<1>5. TabGood(tab, source, stream) => TabGood(tab, source, stream')
  BY <1>3, <1>4 DEF TabGood
<1> QED BY <1>1, <1>2, <1>5 DEF StreamInv, TabInv

LEMMA StreamStarts == StreamInit => StreamInv
<1> SUFFICES ASSUME StreamInit PROVE StreamInv
  OBVIOUS
<1>1. ServerType
  BY FreeStreamIs, NothingKnown DEF StreamInit, ServerType, SourceType, NoStatusType
<1>2. \A c \in Conns : StreamGood(stream[c]) /\ OwnerGood(c)
  BY FreeStreamIs, StreamAssumption DEF StreamInit, OwnerGood
<1>3. tab \in TabType
  BY NothingKnown, NoneCounted DEF StreamInit, TabType, NoStatusType
<1>4. TabGood(tab, source, stream)
  BY NothingKnown DEF StreamInit, TabGood, NoStatusType
<1> QED BY <1>1, <1>2, <1>3, <1>4 DEF StreamInit, StreamInv, ServerInv, TabInv

LEMMA StreamSteps == StreamInv /\ [StreamNext]_streamVars => StreamInv'
<1> SUFFICES ASSUME StreamInv, [StreamNext]_streamVars PROVE StreamInv'
  OBVIOUS
<1>1. CASE UNCHANGED streamVars
  BY <1>1 DEF streamVars, StreamInv, ServerInv, ServerType, TabInv, OwnerGood, Active
<1>2. CASE \E c \in Conns : ServerStep(c) \/ PollTick(c) \/ OnOpen(c) \/ Deliver(c) \/ OnError(c)
  BY <1>2, ServingKeeps, OpenKeeps, DeliverKeeps, ErrorKeeps
<1>3. CASE \/ MountMonitoring \/ UnmountMonitoring \/ ChangeIds \/ HeartbeatTimeout
           \/ ReconnectTimer \/ StrayTimer \/ ResetFallback \/ TabHidden \/ TabVisible
  BY <1>3, MountKeeps, UnmountKeeps, ChangeIdsKeeps, HeartbeatKeeps, TimerKeeps, ResetKeeps,
     HideKeeps
<1> QED BY <1>1, <1>2, <1>3 DEF StreamNext

\* The invariant of the tab's manager and of the streams the UI server runs for it
\* (pipeline-sse-manager.ts, route.ts).
THEOREM StreamInvariant == StreamSpec => []StreamInv
BY StreamStarts, StreamSteps, PTL DEF StreamSpec

\* The variables of the manager and of the streams keep their types; no stream buffers more than
\* the bound, no manager counts attempts beyond maxReconnectAttempts.
THEOREM StreamTypeCorrect == StreamSpec => []StreamTypeOK
<1>1. StreamInv => StreamTypeOK
  <2> SUFFICES ASSUME StreamInv PROVE StreamTypeOK
    OBVIOUS
  <2>1. /\ serverCache \in [Pipelines -> StreamStatuses \union {NoStatus}]
        /\ writer \in [Pipelines -> Conns \union {NoConn}]
        /\ source \in [Conns -> {"none", "connecting", "open"}]
    BY DEF StreamInv, ServerInv, ServerType, Update, Health, SourceType
  <2>2. ASSUME NEW c \in Conns
        PROVE  /\ stream[c].phase \in {"free", "starting", "polling", "cancelled"}
               /\ stream[c].todo \subseteq stream[c].ids
               /\ stream[c].polling \subseteq stream[c].ids
               /\ Len(stream[c].chan) <= MaxBuffered
    BY DEF StreamInv, ServerInv, ServerType, StreamType, StreamGood
  <2>3. tab \in TabType
    BY DEF StreamInv, TabInv
  <2> QED BY <2>1, <2>2, <2>3 DEF StreamTypeOK, TabType
<1> QED BY <1>1, StreamInvariant, PTL

\* "Single EventSource connection per browser tab" (pipeline-sse-manager.ts:8), with what the
\* manager's state promises beside it: for any number of pipelines, connections and attempts,
\* a tab that never connected while hidden holds at most one source, is "connected" only over an
\* open and watched one, has a timer pending exactly while "reconnecting", and keeps no status of
\* a pipeline it does not watch.
THEOREM TabStaysConsistent == StreamSpec => []TabConsistent
<1>1. StreamInv => TabConsistent
  <2> SUFFICES ASSUME StreamInv PROVE TabConsistent
    OBVIOUS
  <2>0. tab \in TabType /\ source \in SourceType /\ (~openedHidden => TabGood(tab, source, stream))
    BY DEF StreamInv, ServerInv, ServerType, TabInv
  <2>1. SingleEventSource
    <3> SUFFICES ASSUME ~openedHidden PROVE ~(Cardinality(OpenSources) > 1)
      BY DEF SingleEventSource
    <3>1. OpenSources \subseteq {tab.cur}
      BY <2>0 DEF TabGood, OpenSources
    <3>2. Cardinality(OpenSources) <= 1 /\ Cardinality(OpenSources) \in Nat
      <4>1. OpenSources = {} \/ OpenSources = {tab.cur}
        BY <3>1
      <4>2. Cardinality({}) = 0 /\ Cardinality({tab.cur}) = 1
        BY FS_EmptySet, FS_Singleton
      <4> QED BY <4>1, <4>2
    <3> QED BY <3>2
  <2>2. NoGhostStatus /\ ConnectedIsWatched
    BY <2>0 DEF NoGhostStatus, ConnectedIsWatched, TabGood
  <2>3. TimerWhileReconnecting
    BY <2>0, StreamAssumption DEF TimerWhileReconnecting, TabGood, TabType, OpenSources
  <2> QED BY <2>1, <2>2, <2>3 DEF TabConsistent
<1> QED BY <1>1, StreamInvariant, PTL

\* fetchPipelineStatus and the poll of route.ts share one cache among all streams, and send only
\* what differs from it: a stream has told its client the cached status of every pipeline whose
\* entry it wrote itself, so what it has not told is always the doing of another stream.
THEOREM OwnNewsIsSent == StreamSpec => []UnsentIsAnothers
<1>1. StreamInv => UnsentIsAnothers
  BY DEF StreamInv, ServerInv, OwnerGood, UnsentIsAnothers
<1> QED BY <1>1, StreamInvariant, PTL

-----------------------------------------------------------------------------
(* Operations on pipelines (PipelineTracking). *)

\* A tracker object, and a handler under way.
TrackerType ==
  [pipe : TrackedPipelines \union {NoTracker}, op : Operations \union {"none"},
   phase : {"free", "timer", "asked", "answered"}, active : BOOLEAN,
   answer : PipelineStatuses \union {"none", "error"}, current : PipelineStatuses \union {"none"},
   errors : Nat, ticks : Nat]
TrackRequestType ==
  [op : Operations, phase : {"sent", "ok", "failed"}, retry : BOOLEAN, orphan : BOOLEAN,
   was : PipelineStatuses]

MapType ==
  /\ tracker \in [Trackers -> TrackerType]
  /\ trackedBy \in [TrackedPipelines -> Trackers \union {NoTracker}]
  /\ seen \in [TrackedPipelines -> SUBSET {"late", "gaveUp", "wentBack", "retried"}]
PageType ==
  /\ backend \in [TrackedPipelines -> PipelineStatuses \union {"gone"}]
  /\ shown \in [TrackedPipelines -> PipelineStatuses]
  /\ listed \in [TrackedPipelines -> PipelineStatuses]
  /\ loading \in [TrackedPipelines -> BOOLEAN]
  /\ requests \in [TrackedPipelines -> SUBSET TrackRequestType]
  /\ retryOffered \in [TrackedPipelines -> {"none", "stop", "delete"}]
StateType == pipelineState \in [TrackedPipelines -> PipelineStatuses \union {"none"}]
SyncType ==
  /\ sync \in [ids : SUBSET TrackedPipelines, missing : SUBSET TrackedPipelines, read : BOOLEAN]
  /\ sync.missing \subseteq sync.ids

\* A tracker that goes on is the one of its pipeline in the map, has seen no final status
\* yet, and a timer runs only for such a tracker.
MapInv ==
  /\ \A k \in Trackers :
       /\ tracker[k].phase # "free" => tracker[k].pipe \in TrackedPipelines
       /\ tracker[k].phase = "timer" => tracker[k].active
       /\ tracker[k].errors < MaxErrors
       /\ tracker[k].active => /\ tracker[k].phase # "free"
                               /\ trackedBy[tracker[k].pipe] = k
                               /\ ~Final(tracker[k].current)
  /\ \A p \in TrackedPipelines : trackedBy[p] # NoTracker =>
       tracker[trackedBy[p]].active /\ tracker[trackedBy[p]].pipe = p

Followed(p) ==
  pipelineState[p] \in Transitional /\ seen[p] \intersect {"late", "gaveUp", "wentBack"} = {}
    => trackedBy[p] # NoTracker
FollowInv == \A p \in TrackedPipelines : Followed(p)

TrackInv == MapType /\ PageType /\ StateType /\ SyncType /\ MapInv /\ FollowInv

LEMMA FreeTyped == FreeTracker \in TrackerType
BY TrackingAssumption DEF FreeTracker, TrackerType

\* What destroyTracker leaves.
LEMMA DestroyedIs ==
  ASSUME NEW t \in TrackerType
  PROVE  /\ Destroyed(t) \in TrackerType /\ ~Destroyed(t).active /\ Destroyed(t).phase # "timer"
         /\ Destroyed(t).errors \in {t.errors, 0}
         /\ Destroyed(t).phase # "free" => Destroyed(t).phase = t.phase /\ Destroyed(t).pipe = t.pipe
<1>1. CASE t.phase = "timer"
  <2>1. Destroyed(t) = FreeTracker
    BY <1>1 DEF Destroyed
  <2> QED BY <2>1, FreeTyped DEF FreeTracker
<1>2. CASE t.phase # "timer"
  <2>1. Destroyed(t) = [t EXCEPT !.active = FALSE]
    BY <1>2 DEF Destroyed
  <2> QED BY <1>2, <2>1 DEF TrackerType
<1> QED BY <1>1, <1>2

\* What stopTracking does to the tracker objects.
LEMMA StoppedIs ==
  ASSUME NEW t \in [Trackers -> TrackerType],
         NEW map \in [TrackedPipelines -> Trackers \union {NoTracker}], NEW p \in TrackedPipelines
  PROVE  /\ Stopped(t, map, p) \in [Trackers -> TrackerType]
         /\ \A j \in Trackers :
              Stopped(t, map, p)[j] = IF map[p] = j THEN Destroyed(t[j]) ELSE t[j]
<1>1. CASE map[p] = NoTracker
  BY <1>1, TrackingAssumption DEF Stopped
<1>2. CASE map[p] # NoTracker
  <2>1. map[p] \in Trackers /\ Destroyed(t[map[p]]) \in TrackerType
    BY <1>2, DestroyedIs
  <2>2. Stopped(t, map, p) = [t EXCEPT ![map[p]] = Destroyed(t[map[p]])]
    BY <1>2 DEF Stopped
  <2> QED BY <2>1, <2>2
<1> QED BY <1>1, <1>2

\* A step that leaves the map and its trackers, and what is known of them.
LEMMA MapStays ==
  ASSUME TrackInv, UNCHANGED <<tracker, trackedBy>>
  PROVE  /\ MapInv' /\ (UNCHANGED seen => MapType')
         /\ UNCHANGED <<seen, pipelineState>> => FollowInv' /\ StateType'
BY DEF TrackInv, MapInv, MapType, FollowInv, Followed, StateType

\* A loop that is over, or ends with the answer it waits for.
Over(old, new) ==
  /\ new \in TrackerType /\ ~new.active /\ new.phase # "timer" /\ new.errors < MaxErrors
  /\ new.phase # "free" => old.phase # "free" /\ new.pipe = old.pipe

\* stopTracking of a set of pipelines.
StopsAll(P) ==
  /\ \A j \in Trackers :
       \/ Over(tracker[j], tracker'[j]) /\ (tracker[j].active => \E p \in P : trackedBy[p] = j)
       \/ tracker'[j] = tracker[j] /\ \A p \in P : trackedBy[p] # j
  /\ trackedBy' = [p \in TrackedPipelines |-> IF p \in P THEN NoTracker ELSE trackedBy[p]]

LEMMA StopsAllMap ==
  ASSUME TrackInv, NEW P \in SUBSET TrackedPipelines, StopsAll(P)
  PROVE  MapInv' /\ \A p \in TrackedPipelines \ P : trackedBy'[p] = trackedBy[p]
<1>1. /\ tracker \in [Trackers -> TrackerType]
      /\ trackedBy \in [TrackedPipelines -> Trackers \union {NoTracker}]
  BY DEF TrackInv, MapType
<1>2. \A p \in TrackedPipelines : trackedBy'[p] = IF p \in P THEN NoTracker ELSE trackedBy[p]
  BY DEF StopsAll
<1>3. ASSUME NEW k \in Trackers
      PROVE  /\ tracker'[k].phase # "free" => tracker'[k].pipe \in TrackedPipelines
             /\ tracker'[k].phase = "timer" => tracker'[k].active
             /\ tracker'[k].errors < MaxErrors
             /\ tracker'[k].active => /\ tracker'[k].phase # "free"
                                      /\ trackedBy'[tracker'[k].pipe] = k
                                      /\ ~Final(tracker'[k].current)
  <2>1. CASE Over(tracker[k], tracker'[k])
    BY <2>1 DEF TrackInv, MapInv, Over
  <2>2. CASE tracker'[k] = tracker[k] /\ \A p \in P : trackedBy[p] # k
    BY <1>2, <2>2 DEF TrackInv, MapInv
  <2> QED BY <2>1, <2>2 DEF StopsAll
<1>4. ASSUME NEW p \in TrackedPipelines, trackedBy'[p] # NoTracker
      PROVE  tracker'[trackedBy'[p]].active /\ tracker'[trackedBy'[p]].pipe = p
  <2>1. p \notin P /\ trackedBy'[p] = trackedBy[p] /\ trackedBy[p] \in Trackers
    BY <1>1, <1>2, <1>4
  <2>2. tracker[trackedBy[p]].active /\ tracker[trackedBy[p]].pipe = p
    BY <2>1, <1>4 DEF TrackInv, MapInv
  <2>3. ~ \E q \in P : trackedBy[q] = trackedBy[p]
    <3> SUFFICES ASSUME NEW q \in P, trackedBy[q] = trackedBy[p] PROVE FALSE
      OBVIOUS
    <3>1. q \in TrackedPipelines /\ trackedBy[q] # NoTracker
      BY <1>4, <2>1
    <3>2. tracker[trackedBy[q]].pipe = q
      BY <3>1 DEF TrackInv, MapInv
    <3> QED BY <2>1, <2>2, <3>2
  <2>4. tracker'[trackedBy[p]] = tracker[trackedBy[p]]
    BY <2>1, <2>2, <2>3 DEF StopsAll
  <2> QED BY <2>1, <2>2, <2>4
<1> QED BY <1>2, <1>3, <1>4 DEF MapInv

\* A new tracker in the map, where the one before it is stopped.
LEMMA TrackMap ==
  ASSUME TrackInv, NEW p \in TrackedPipelines, NEW op \in Operations, TrackPipeline(p, op)
  PROVE  /\ tracker' \in [Trackers -> TrackerType]
         /\ trackedBy' \in [TrackedPipelines -> Trackers \union {NoTracker}]
         /\ MapInv' /\ trackedBy'[p] # NoTracker
         /\ \A q \in TrackedPipelines \ {p} : trackedBy'[q] = trackedBy[q]
<1>1. /\ tracker \in [Trackers -> TrackerType]
      /\ trackedBy \in [TrackedPipelines -> Trackers \union {NoTracker}]
  BY DEF TrackInv, MapType
<1> DEFINE new == [FreeTracker EXCEPT !.pipe = p, !.op = op, !.phase = "timer", !.active = TRUE]
           s == Stopped(tracker, trackedBy, p)
<1>2. PICK k \in Trackers :
        /\ tracker[k].phase = "free" \/ (k = trackedBy[p] /\ tracker[k].phase = "timer")
        /\ tracker' = [s EXCEPT ![k] = new]
        /\ trackedBy' = [trackedBy EXCEPT ![p] = k]
  BY DEF TrackPipeline
<1>3. /\ new \in TrackerType /\ new.active /\ new.pipe = p /\ new.phase = "timer"
      /\ ~Final(new.current) /\ new.errors = 0
  <2>1. new \in TrackerType
    BY FreeTyped DEF TrackerType
  <2>2. new.active /\ new.pipe = p /\ new.phase = "timer" /\ new.current = "none"
      /\ new.errors = 0
    BY DEF FreeTracker
  <2> QED BY <2>1, <2>2 DEF Final
<1>4. /\ s \in [Trackers -> TrackerType]
      /\ \A j \in Trackers : s[j] = IF trackedBy[p] = j THEN Destroyed(tracker[j]) ELSE tracker[j]
  BY <1>1, StoppedIs
<1> HIDE DEF new, s
<1>5. /\ tracker' \in [Trackers -> TrackerType]
      /\ \A j \in Trackers : tracker'[j] = IF j = k THEN new ELSE s[j]
  BY <1>2, <1>3, <1>4
<1>6. /\ trackedBy' \in [TrackedPipelines -> Trackers \union {NoTracker}]
      /\ \A q \in TrackedPipelines : trackedBy'[q] = IF q = p THEN k ELSE trackedBy[q]
  BY <1>1, <1>2
<1>7. k # NoTracker
  BY TrackingAssumption
<1>8. \A q \in TrackedPipelines \ {p} : trackedBy[q] # k
  <2> SUFFICES ASSUME NEW q \in TrackedPipelines \ {p}, trackedBy[q] = k PROVE FALSE
    OBVIOUS
  <2>1. tracker[k].active /\ tracker[k].pipe = q
    BY <1>7 DEF TrackInv, MapInv
  <2>2. tracker[k].phase # "free" /\ k = trackedBy[p]
    BY <1>2, <2>1 DEF TrackInv, MapInv
  <2>3. tracker[k].pipe = p
    BY <1>7, <2>2 DEF TrackInv, MapInv
  <2> QED BY <2>1, <2>3
<1>9. ASSUME NEW j \in Trackers
      PROVE  /\ tracker'[j].phase # "free" => tracker'[j].pipe \in TrackedPipelines
             /\ tracker'[j].phase = "timer" => tracker'[j].active
             /\ tracker'[j].errors < MaxErrors
             /\ tracker'[j].active => /\ tracker'[j].phase # "free"
                                      /\ trackedBy'[tracker'[j].pipe] = j
                                      /\ ~Final(tracker'[j].current)
  <2>1. CASE j = k
    BY <1>3, <1>5, <1>6, <2>1, TrackingAssumption
  <2>2. CASE j # k /\ trackedBy[p] = j
    <3>1. tracker'[j] = Destroyed(tracker[j])
      BY <1>4, <1>5, <2>2
    <3>2. tracker[j].errors < MaxErrors
      BY DEF TrackInv, MapInv
    <3> QED BY <1>1, <3>1, <3>2, DestroyedIs, TrackingAssumption DEF TrackInv, MapInv
  <2>3. CASE j # k /\ trackedBy[p] # j
    <3>1. tracker'[j] = tracker[j]
      BY <1>4, <1>5, <2>3
    <3> QED BY <1>6, <2>3, <3>1 DEF TrackInv, MapInv
  <2> QED BY <2>1, <2>2, <2>3
<1>10. ASSUME NEW q \in TrackedPipelines, trackedBy'[q] # NoTracker
       PROVE  tracker'[trackedBy'[q]].active /\ tracker'[trackedBy'[q]].pipe = q
  <2>1. CASE q = p
    BY <1>3, <1>5, <1>6, <2>1
  <2>2. CASE q # p
    <3>1. trackedBy'[q] = trackedBy[q] /\ trackedBy[q] # k /\ trackedBy[q] \in Trackers
      BY <1>1, <1>6, <1>8, <1>10, <2>2
    <3>2. tracker[trackedBy[q]].active /\ tracker[trackedBy[q]].pipe = q
      BY <1>10, <3>1 DEF TrackInv, MapInv
    <3>3. trackedBy[p] # trackedBy[q]
      BY <1>1, <1>10, <2>2, <3>1, <3>2 DEF TrackInv, MapInv
    <3> QED BY <1>4, <1>5, <3>1, <3>2, <3>3
  <2> QED BY <2>1, <2>2
<1> QED BY <1>5, <1>6, <1>7, <1>9, <1>10 DEF MapInv

\* Following is not disturbed where the tracker, or a reason without one, stays.
LEMMA FollowStays ==
  ASSUME FollowInv, NEW p \in TrackedPipelines,
         pipelineState'[p] \in Transitional => pipelineState[p] = pipelineState'[p],
         seen[p] \subseteq seen'[p],
         \/ trackedBy'[p] = trackedBy[p]
         \/ trackedBy'[p] # NoTracker
         \/ seen'[p] \intersect {"late", "gaveUp", "wentBack"} # {}
  PROVE  Followed(p)'
BY DEF FollowInv, Followed

LEMMA TickTracks ==
  ASSUME TrackInv, NEW k \in Trackers, Tick(k)
  PROVE  TrackInv'
<1> DEFINE p == tracker[k].pipe
           t == [tracker EXCEPT ![k].ticks = @ + 1]
<1>1. /\ tracker \in [Trackers -> TrackerType]
      /\ trackedBy \in [TrackedPipelines -> Trackers \union {NoTracker}]
      /\ seen \in [TrackedPipelines -> SUBSET {"late", "gaveUp", "wentBack", "retried"}]
  BY DEF TrackInv, MapType
<1>2. /\ tracker[k].phase = "timer" /\ tracker[k].active /\ p \in TrackedPipelines
      /\ trackedBy[p] = k
  BY DEF Tick, TrackInv, MapInv
<1>3. /\ t \in [Trackers -> TrackerType] /\ t[k].phase = "timer"
      /\ \A j \in Trackers \ {k} : t[j] = tracker[j]
  <2>1. [tracker[k] EXCEPT !.ticks = @ + 1] \in TrackerType
    BY <1>1 DEF TrackerType
  <2>2. \A j \in Trackers : t[j] = IF j = k THEN [tracker[k] EXCEPT !.ticks = @ + 1] ELSE tracker[j]
    BY <1>1
  <2> QED BY <1>1, <1>2, <2>1, <2>2 DEF TrackerType
<1>4. UNCHANGED <<left, backend, shown, listed, pipelineState, requests, loading, retryOffered, sync>>
  BY DEF Tick
<1>5. CASE t[k].ticks >= MaxTicks(t[k].op)
  <2>1. /\ tracker' = Stopped(t, trackedBy, p) /\ trackedBy' = Unmapped(trackedBy, p)
        /\ seen' = [seen EXCEPT ![p] = @ \union {"gaveUp"}]
    BY <1>5 DEF Tick
  <2> HIDE DEF t
  <2>2. /\ tracker' \in [Trackers -> TrackerType]
        /\ \A j \in Trackers : tracker'[j] = IF j = k THEN Destroyed(t[k]) ELSE tracker[j]
    BY <1>1, <1>2, <1>3, <2>1, StoppedIs
  <2>3. Over(tracker[k], tracker'[k])
    <3>1. tracker'[k] = FreeTracker
      BY <1>3, <2>2 DEF Destroyed
    <3> QED BY <3>1, FreeTyped, TrackingAssumption DEF Over, FreeTracker
  <2>4. StopsAll({p})
    BY <1>1, <1>2, <2>1, <2>2, <2>3 DEF StopsAll, Unmapped
  <2>5. MapInv' /\ \A q \in TrackedPipelines \ {p} : trackedBy'[q] = trackedBy[q]
    BY <1>2, <2>4, StopsAllMap
  <2>6. MapType'
    BY <1>1, <1>2, <2>1, <2>2 DEF MapType, Unmapped
  <2>7. FollowInv'
    <3> SUFFICES ASSUME NEW q \in TrackedPipelines PROVE Followed(q)'
      BY DEF FollowInv
    <3>1. seen[q] \subseteq seen'[q] /\ (q = p => "gaveUp" \in seen'[q])
      BY <1>1, <1>2, <2>1
    <3> QED BY <1>4, <2>5, <3>1, FollowStays DEF TrackInv
  <2> QED BY <1>4, <2>5, <2>6, <2>7 DEF TrackInv, PageType, StateType, SyncType
<1>6. CASE ~(t[k].ticks >= MaxTicks(t[k].op))
  <2>1. tracker' = [t EXCEPT ![k].phase = "asked"] /\ UNCHANGED <<trackedBy, seen>>
    BY <1>6 DEF Tick
  <2>2. /\ t[k].pipe = p /\ t[k].active /\ t[k].current = tracker[k].current
        /\ t[k].errors = tracker[k].errors
    BY <1>1, <1>2 DEF TrackerType
  <2> HIDE DEF t
  <2>3. \A j \in Trackers : tracker'[j] = IF j = k THEN [t[k] EXCEPT !.phase = "asked"] ELSE tracker[j]
    BY <1>3, <2>1
  <2>4. /\ tracker'[k] \in TrackerType /\ tracker'[k].phase = "asked" /\ tracker'[k].pipe = p
        /\ tracker'[k].active /\ tracker'[k].current = tracker[k].current
        /\ tracker'[k].errors = tracker[k].errors
    BY <1>3, <2>2, <2>3 DEF TrackerType
  <2>5. tracker' \in [Trackers -> TrackerType]
    BY <1>1, <1>3, <2>1, <2>3, <2>4
  <2>6. MapType' /\ MapInv'
    BY <1>1, <1>2, <2>1, <2>3, <2>4, <2>5 DEF MapType, TrackInv, MapInv
  <2>7. FollowInv'
    BY <1>4, <2>1 DEF TrackInv, FollowInv, Followed
  <2> QED BY <1>4, <2>6, <2>7 DEF TrackInv, PageType, StateType, SyncType
<1> QED BY <1>5, <1>6

LEMMA HealthTracks ==
  ASSUME TrackInv, NEW k \in Trackers, HealthAnswers(k)
  PROVE  TrackInv'
<1>1. /\ tracker \in [Trackers -> TrackerType] /\ tracker[k].phase = "asked"
      /\ UNCHANGED <<left, backend, shown, listed, trackedBy, pipelineState, requests, loading,
                     retryOffered, sync, seen>>
  BY DEF HealthAnswers, TrackInv, MapType
<1>2. tracker[k].pipe \in TrackedPipelines
  BY <1>1 DEF TrackInv, MapInv
<1>3. backend[tracker[k].pipe] \in PipelineStatuses \union {"gone"}
  BY <1>2 DEF TrackInv, PageType
<1>4. PICK a \in PipelineStatuses \union {"error"} :
        tracker' = [tracker EXCEPT ![k].phase = "answered", ![k].answer = a]
  BY <1>3 DEF HealthAnswers
<1>5. \A j \in Trackers : tracker'[j] =
         IF j = k THEN [tracker[k] EXCEPT !.phase = "answered", !.answer = a] ELSE tracker[j]
  BY <1>1, <1>4
<1>6. /\ tracker'[k] \in TrackerType /\ tracker'[k].phase = "answered"
      /\ tracker'[k].pipe = tracker[k].pipe /\ tracker'[k].active = tracker[k].active
      /\ tracker'[k].current = tracker[k].current /\ tracker'[k].errors = tracker[k].errors
  BY <1>1, <1>5 DEF TrackerType
<1>7. tracker' \in [Trackers -> TrackerType]
  BY <1>1, <1>4, <1>5, <1>6
<1>8. MapType' /\ MapInv'
  BY <1>1, <1>2, <1>5, <1>6, <1>7 DEF MapType, TrackInv, MapInv
<1>9. FollowInv'
  BY <1>1 DEF TrackInv, FollowInv, Followed
<1> QED BY <1>1, <1>8, <1>9 DEF TrackInv, PageType, StateType, SyncType

LEMMA AnswerTracks ==
  ASSUME TrackInv, NEW k \in Trackers, HandleAnswer(k)
  PROVE  TrackInv'
<1> DEFINE p == tracker[k].pipe
           a == tracker[k].answer
           t == IF a = "error" THEN [tracker EXCEPT ![k].errors = @ + 1]
                               ELSE [tracker EXCEPT ![k].errors = 0, ![k].current = a]
           ends == IF a = "error" THEN t[k].errors >= MaxErrors ELSE Final(a)
           u == IF ends THEN Stopped(t, trackedBy, p) ELSE t
           rest(x) == [x EXCEPT !.phase = "timer", !.answer = "none"]
<1>1. /\ tracker \in [Trackers -> TrackerType] /\ tracker[k].phase = "answered"
      /\ trackedBy \in [TrackedPipelines -> Trackers \union {NoTracker}]
      /\ seen \in [TrackedPipelines -> SUBSET {"late", "gaveUp", "wentBack", "retried"}]
      /\ pipelineState \in [TrackedPipelines -> PipelineStatuses \union {"none"}]
      /\ UNCHANGED <<left, backend, shown, listed, requests, loading, retryOffered, sync>>
  BY DEF HandleAnswer, TrackInv, MapType, StateType
<1>2. /\ p \in TrackedPipelines /\ a \in PipelineStatuses \union {"none", "error"}
      /\ tracker[k].active => trackedBy[p] = k /\ ~Final(tracker[k].current)
  BY <1>1 DEF TrackInv, MapInv, TrackerType
<1>3. /\ trackedBy' = IF ends THEN Unmapped(trackedBy, p) ELSE trackedBy
      /\ tracker' = [u EXCEPT ![k] = IF @.active THEN rest(@) ELSE FreeTracker]
      /\ pipelineState' = [pipelineState EXCEPT
            ![p] = IF a # "error" /\ a # tracker[k].current THEN a ELSE @]
      /\ seen' = [seen EXCEPT ![p] = @ \union (IF tracker[k].active THEN {} ELSE {"late"})
                                       \union (IF ends /\ a = "error" THEN {"gaveUp"} ELSE {})]
  BY DEF HandleAnswer
<1>4. /\ t \in [Trackers -> TrackerType] /\ \A j \in Trackers \ {k} : t[j] = tracker[j]
      /\ t[k].active = tracker[k].active /\ t[k].phase = "answered" /\ t[k].pipe = p
      /\ t[k].current = IF a = "error" THEN tracker[k].current ELSE a
      /\ ~ends => t[k].errors < MaxErrors
  <2>1. CASE a = "error"
    <3>1. [tracker[k] EXCEPT !.errors = @ + 1] \in TrackerType
      BY <1>1 DEF TrackerType
    <3>2. \A j \in Trackers :
             t[j] = IF j = k THEN [tracker[k] EXCEPT !.errors = @ + 1] ELSE tracker[j]
      BY <1>1, <2>1
    <3>3. t \in [Trackers -> TrackerType]
      BY <1>1, <2>1, <3>1, <3>2
    <3>4. ~ends => t[k].errors < MaxErrors
      BY <2>1, <3>3, TrackingAssumption DEF TrackerType
    <3> QED BY <1>1, <2>1, <3>2, <3>3, <3>4 DEF TrackerType
  <2>2. CASE a # "error"
    <3>0. a \in PipelineStatuses \union {"none"} /\ tracker[k] \in TrackerType
      BY <1>1, <1>2, <2>2
    <3> HIDE DEF a
    <3>1. [tracker[k] EXCEPT !.errors = 0, !.current = a] \in TrackerType
      BY <3>0 DEF TrackerType
    <3>2. \A j \in Trackers :
             t[j] = IF j = k THEN [tracker[k] EXCEPT !.errors = 0, !.current = a] ELSE tracker[j]
      BY <1>1, <2>2
    <3>3. t \in [Trackers -> TrackerType]
      BY <1>1, <2>2, <3>1, <3>2
    <3>4. /\ t[k].active = tracker[k].active /\ t[k].phase = "answered" /\ t[k].current = a
          /\ t[k].pipe = p /\ t[k].errors = 0
      <4>1. t[k] = [tracker[k] EXCEPT !.errors = 0, !.current = a]
        BY <3>2
      <4> HIDE DEF t
      <4> QED BY <1>1, <3>0, <4>1 DEF TrackerType
    <3> QED BY <2>2, <3>2, <3>3, <3>4, TrackingAssumption
  <2> QED BY <2>1, <2>2
<1>6. MapType' /\ MapInv' /\ \A q \in TrackedPipelines \ {p} : trackedBy'[q] = trackedBy[q]
  <2>1. trackedBy' \in [TrackedPipelines -> Trackers \union {NoTracker}]
    BY <1>1, <1>3 DEF Unmapped
  <2>2. seen' \in [TrackedPipelines -> SUBSET {"late", "gaveUp", "wentBack", "retried"}]
    BY <1>1, <1>3
  <2>3. CASE ends
    <3>0. u = Stopped(t, trackedBy, p)
      BY <2>3
    <3> HIDE DEF t, u, ends
    <3>1. /\ u \in [Trackers -> TrackerType]
          /\ \A j \in Trackers : u[j] = IF trackedBy[p] = j THEN Destroyed(t[j]) ELSE t[j]
      BY <1>1, <1>2, <1>4, <3>0, StoppedIs
    <3>2. ~u[k].active
      BY <1>2, <1>4, <3>1, DestroyedIs
    <3>3. \A j \in Trackers : tracker'[j] = IF j = k THEN FreeTracker ELSE u[j]
      BY <1>3, <3>1, <3>2
    <3>4. \A j \in Trackers \ {k} :
             tracker'[j] = IF trackedBy[p] = j THEN Destroyed(tracker[j]) ELSE tracker[j]
      BY <1>4, <3>1, <3>3
    <3>5. tracker' \in [Trackers -> TrackerType]
      BY <1>3, <3>1, <3>2, FreeTyped
    <3>6. StopsAll({p})
      <4>1. Over(tracker[k], tracker'[k]) /\ (tracker[k].active => trackedBy[p] = k)
        BY <1>2, <3>3, FreeTyped, TrackingAssumption DEF Over, FreeTracker
      <4>2. ASSUME NEW j \in Trackers \ {k}
            PROVE  \/ Over(tracker[j], tracker'[j]) /\ trackedBy[p] = j
                   \/ tracker'[j] = tracker[j] /\ trackedBy[p] # j
        <5>1. tracker[j].errors < MaxErrors
          BY DEF TrackInv, MapInv
        <5> QED BY <1>1, <3>4, <5>1, DestroyedIs, TrackingAssumption DEF Over, TrackerType
      <4> QED BY <1>1, <1>2, <1>3, <2>3, <4>1, <4>2 DEF StopsAll, Unmapped
    <3> QED BY <1>2, <2>1, <2>2, <3>5, <3>6, StopsAllMap DEF MapType
  <2>4. CASE ~ends
    <3>1. u = t /\ trackedBy' = trackedBy
      BY <1>3, <2>4
    <3>2. ~Final(t[k].current) \/ ~tracker[k].active
      BY <1>2, <1>4, <2>4
    <3> HIDE DEF t, u, ends
    <3>3. \A j \in Trackers : tracker'[j] =
             IF j = k THEN IF tracker[k].active THEN rest(t[k]) ELSE FreeTracker ELSE tracker[j]
      BY <1>3, <1>4, <3>1
    <3>4. /\ rest(t[k]) \in TrackerType /\ rest(t[k]).phase = "timer" /\ rest(t[k]).pipe = p
          /\ rest(t[k]).active = tracker[k].active /\ rest(t[k]).current = t[k].current
          /\ rest(t[k]).errors = t[k].errors
      BY <1>4, <2>4 DEF TrackerType
    <3> HIDE DEF rest
    <3>5. tracker' \in [Trackers -> TrackerType]
      BY <1>1, <1>3, <1>4, <3>1, <3>3, <3>4, FreeTyped
    <3>6. CASE tracker[k].active
      <4>1. tracker'[k] = rest(t[k])
        BY <3>3, <3>6
      <4>2. /\ tracker'[k].phase = "timer" /\ tracker'[k].pipe = p /\ tracker'[k].active
            /\ ~Final(tracker'[k].current) /\ tracker'[k].errors < MaxErrors
        BY <1>4, <2>4, <3>2, <3>4, <3>6, <4>1
      <4> QED BY <1>1, <1>2, <2>1, <2>2, <3>1, <3>3, <3>5, <3>6, <4>2
              DEF MapType, TrackInv, MapInv
    <3>7. CASE ~tracker[k].active
      <4>1. tracker'[k] = FreeTracker
        BY <3>3, <3>7
      <4>2. ~tracker'[k].active /\ tracker'[k].phase = "free" /\ tracker'[k].errors < MaxErrors
        BY <4>1, TrackingAssumption DEF FreeTracker
      <4> QED BY <1>1, <1>2, <2>1, <2>2, <3>1, <3>3, <3>5, <3>7, <4>2 DEF MapType, TrackInv, MapInv
    <3> QED BY <3>6, <3>7
  <2> QED BY <2>3, <2>4
<1>7. StateType'
  BY <1>1, <1>2, <1>3 DEF StateType
<1>8. FollowInv'
  <2> SUFFICES ASSUME NEW q \in TrackedPipelines PROVE Followed(q)'
    BY DEF FollowInv
  <2>1. seen[q] \subseteq seen'[q]
    BY <1>1, <1>3
  <2>2. CASE q # p
    BY <1>1, <1>3, <1>6, <2>1, <2>2, FollowStays DEF TrackInv
  <2>3. CASE q = p
    <3>1. ~tracker[k].active => "late" \in seen'[p]
      BY <1>1, <1>2, <1>3
    <3>2. ends /\ a = "error" => "gaveUp" \in seen'[p]
      BY <1>1, <1>2, <1>3
    <3>3. ~ends => trackedBy'[p] = trackedBy[p]
      BY <1>3
    <3>4. ends /\ a # "error" /\ tracker[k].active => pipelineState'[p] = a /\ Final(a)
      BY <1>1, <1>2, <1>3
    <3>5. tracker[k].active => trackedBy[p] # NoTracker
      BY <1>2, TrackingAssumption
    <3> HIDE DEF ends
    <3> QED BY <2>3, <3>1, <3>2, <3>3, <3>4, <3>5 DEF Followed, Final, Transitional
  <2> QED BY <2>2, <2>3
<1> QED BY <1>1, <1>6, <1>7, <1>8 DEF TrackInv, PageType, SyncType

LEMMA SyncTracks ==
  ASSUME TrackInv, SyncStart \/ SyncAnswers
  PROVE  TrackInv'
<1>1. UNCHANGED <<left, backend, shown, listed, trackedBy, tracker, pipelineState, requests, loading,
                  retryOffered, seen>>
  BY DEF SyncStart, SyncAnswers
<1>2. SyncType
  BY DEF TrackInv
<1>3. SyncType'
  <2>1. CASE sync' = NoSync
    BY <2>1 DEF SyncType, NoSync
  <2>2. CASE sync' = [NoSync EXCEPT !.ids = {p \in TrackedPipelines : trackedBy[p] # NoTracker}]
    BY <2>2 DEF SyncType, NoSync
  <2>3. CASE sync' = [sync EXCEPT !.missing = {p \in sync.ids : backend[p] = "gone"}, !.read = TRUE]
    BY <1>2, <2>3 DEF SyncType
  <2> QED BY <2>1, <2>2, <2>3 DEF SyncStart, SyncAnswers
<1> QED BY <1>1, <1>3, MapStays DEF TrackInv, PageType

LEMMA SyncHandleTracks ==
  ASSUME TrackInv, SyncHandle
  PROVE  TrackInv'
<1> DEFINE P == sync.missing
<1>1. /\ tracker \in [Trackers -> TrackerType]
      /\ trackedBy \in [TrackedPipelines -> Trackers \union {NoTracker}]
      /\ seen \in [TrackedPipelines -> SUBSET {"late", "gaveUp", "wentBack", "retried"}]
      /\ P \in SUBSET TrackedPipelines
  BY DEF TrackInv, MapType, SyncType
<1>2. /\ tracker' = [k \in Trackers |->
           IF \E p \in P : trackedBy[p] = k THEN Destroyed(tracker[k]) ELSE tracker[k]]
      /\ trackedBy' = [p \in TrackedPipelines |-> IF p \in P THEN NoTracker ELSE trackedBy[p]]
      /\ seen' = [p \in TrackedPipelines |-> seen[p] \union (IF p \in P THEN {"gaveUp"} ELSE {})]
      /\ sync' = NoSync
      /\ UNCHANGED <<left, backend, shown, listed, pipelineState, requests, loading, retryOffered>>
  BY DEF SyncHandle
<1> HIDE DEF P
<1>3. MapType'
  BY <1>1, <1>2, DestroyedIs DEF MapType
<1>4. StopsAll(P)
  <2> SUFFICES ASSUME NEW j \in Trackers
      PROVE  \/ Over(tracker[j], tracker'[j]) /\ (tracker[j].active => \E p \in P : trackedBy[p] = j)
             \/ tracker'[j] = tracker[j] /\ \A p \in P : trackedBy[p] # j
    BY <1>2 DEF StopsAll
  <2>1. tracker[j] \in TrackerType /\ tracker[j].errors < MaxErrors
    BY <1>1 DEF TrackInv, MapInv
  <2>2. CASE \E p \in P : trackedBy[p] = j
    <3>1. tracker'[j] = Destroyed(tracker[j])
      BY <1>2, <2>2
    <3> QED BY <2>1, <2>2, <3>1, DestroyedIs, TrackingAssumption DEF Over
  <2>3. CASE ~ \E p \in P : trackedBy[p] = j
    BY <1>2, <2>3
  <2> QED BY <2>2, <2>3
<1>5. MapInv' /\ \A p \in TrackedPipelines \ P : trackedBy'[p] = trackedBy[p]
  BY <1>1, <1>4, StopsAllMap
<1>6. FollowInv'
  <2> SUFFICES ASSUME NEW q \in TrackedPipelines PROVE Followed(q)'
    BY DEF FollowInv
  <2>1. seen[q] \subseteq seen'[q] /\ (q \in P => "gaveUp" \in seen'[q])
    BY <1>2
  <2> QED BY <1>2, <1>5, <2>1, FollowStays DEF TrackInv
<1>7. SyncType'
  BY <1>2 DEF SyncType, NoSync
<1> QED BY <1>2, <1>3, <1>5, <1>6, <1>7 DEF TrackInv, PageType, StateType

\* The part of a handler before its await.
Reports(p, op, retry) ==
  /\ Report(p, op, retry) /\ retryOffered' \in [TrackedPipelines -> {"none", "stop", "delete"}]
  /\ listed' \in [TrackedPipelines -> PipelineStatuses]
  /\ seen' \in [TrackedPipelines -> SUBSET {"late", "gaveUp", "wentBack", "retried"}]
  /\ \A q \in TrackedPipelines : seen[q] \subseteq seen'[q]
  /\ UNCHANGED <<backend, shown, sync>>

LEMMA ReportTracks ==
  ASSUME TrackInv, NEW p \in TrackedPipelines, NEW op \in Operations, NEW retry \in BOOLEAN,
         Reports(p, op, retry)
  PROVE  TrackInv'
<1> DEFINE r == [op |-> op, phase |-> "sent", retry |-> retry, orphan |-> FALSE, was |-> listed[p]]
<1>1. MapType /\ PageType /\ StateType /\ SyncType
  BY DEF TrackInv
<1>2. /\ requests' = [requests EXCEPT ![p] = @ \union {r}]
      /\ loading' = [loading EXCEPT ![p] = TRUE]
      /\ pipelineState' = IF op = "rename" THEN pipelineState
                          ELSE [pipelineState EXCEPT ![p] = Optimistic(op)]
      /\ IF Tracked(op) THEN TrackPipeline(p, IF op = "edit" THEN "stop" ELSE op)
                        ELSE UNCHANGED <<tracker, trackedBy>>
  BY DEF Reports, Report
<1>3. /\ listed' \in [TrackedPipelines -> PipelineStatuses]
      /\ retryOffered' \in [TrackedPipelines -> {"none", "stop", "delete"}]
      /\ seen' \in [TrackedPipelines -> SUBSET {"late", "gaveUp", "wentBack", "retried"}]
      /\ \A q \in TrackedPipelines : seen[q] \subseteq seen'[q]
      /\ UNCHANGED <<backend, shown, sync>>
  BY DEF Reports
<1>4. r \in TrackRequestType
  BY <1>1 DEF TrackRequestType, PageType
<1> HIDE DEF r
<1>5. PageType'
  BY <1>1, <1>2, <1>3, <1>4 DEF PageType
<1>6. op # "rename" => Optimistic(op) \in PipelineStatuses
  BY DEF Optimistic, PipelineStatuses, Operations
<1>7. StateType'
  BY <1>1, <1>2, <1>6 DEF StateType
<1>8. /\ tracker' \in [Trackers -> TrackerType]
      /\ trackedBy' \in [TrackedPipelines -> Trackers \union {NoTracker}]
      /\ MapInv' /\ (Tracked(op) => trackedBy'[p] # NoTracker)
      /\ ~Tracked(op) => trackedBy' = trackedBy
      /\ \A q \in TrackedPipelines \ {p} : trackedBy'[q] = trackedBy[q]
  <2>1. CASE Tracked(op)
    <3>1. (IF op = "edit" THEN "stop" ELSE op) \in Operations
      BY DEF Operations
    <3> QED BY <1>2, <2>1, <3>1, TrackMap
  <2>2. CASE ~Tracked(op)
    BY <1>1, <1>2, <2>2, MapStays DEF MapType
  <2> QED BY <2>1, <2>2
<1>9. MapType' /\ SyncType'
  BY <1>1, <1>3, <1>8 DEF MapType, SyncType
<1>10. FollowInv'
  <2> SUFFICES ASSUME NEW q \in TrackedPipelines PROVE Followed(q)'
    BY DEF FollowInv
  <2>1. CASE q # p
    BY <1>1, <1>2, <1>3, <1>8, <2>1, FollowStays DEF TrackInv, StateType
  <2>2. CASE q = p /\ Tracked(op)
    BY <1>8, <2>2 DEF Followed
  <2>3. CASE q = p /\ ~Tracked(op)
    <3>1. op = "rename" \/ pipelineState'[p] = "stopped"
      BY <1>1, <1>2, <2>3 DEF StateType, Optimistic, Operations, Tracked
    <3>2. pipelineState'[p] \in Transitional => pipelineState'[p] = pipelineState[p]
      BY <1>2, <3>1 DEF Transitional
    <3> QED BY <1>3, <1>8, <2>3, <3>2, FollowStays DEF TrackInv
  <2> QED BY <2>1, <2>2, <2>3
<1> QED BY <1>5, <1>7, <1>8, <1>9, <1>10 DEF TrackInv

LEMMA StartTracks ==
  ASSUME TrackInv, NEW p \in TrackedPipelines, NEW op \in Operations, Start(p, op)
  PROVE  TrackInv'
<1>1. MapType /\ PageType
  BY DEF TrackInv
<1>2. Reports(p, op, FALSE)
  BY <1>1 DEF Start, Reports, MapType, PageType, PipelineStatuses
<1> QED BY <1>2, ReportTracks

LEMMA RetryTracks ==
  ASSUME TrackInv, NEW p \in TrackedPipelines, Retry(p)
  PROVE  TrackInv'
<1>1. MapType /\ PageType
  BY DEF TrackInv
<1>2. retryOffered[p] \in Operations
  BY <1>1 DEF Retry, PageType, Operations
<1>3. Reports(p, retryOffered[p], TRUE)
  BY <1>1 DEF Retry, Reports, MapType, PageType
<1> QED BY <1>2, <1>3, ReportTracks

LEMMA RespondTracks ==
  ASSUME TrackInv, NEW p \in TrackedPipelines, NEW r \in requests[p], Respond(p, r)
  PROVE  TrackInv'
<1>1. /\ PageType /\ requests[p] \subseteq TrackRequestType
      /\ UNCHANGED <<left, shown, listed, trackedBy, tracker, pipelineState, loading, retryOffered,
                     sync, seen>>
  BY DEF TrackInv, PageType, Respond
<1>2. \A ph \in {"ok", "failed"} : [r EXCEPT !.phase = ph] \in TrackRequestType
  BY <1>1 DEF TrackRequestType
<1>3. PICK ph \in {"ok", "failed"} :
        requests' = [requests EXCEPT ![p] = (@ \ {r}) \union {[r EXCEPT !.phase = ph]}]
  BY DEF Respond
<1>4. requests' \in [TrackedPipelines -> SUBSET TrackRequestType]
  BY <1>1, <1>2, <1>3 DEF PageType
<1>5. /\ CarriedOut(r.op, backend[p]) \in PipelineStatuses \union {"gone", "none"}
      /\ \/ backend' = backend
         \/ /\ CarriedOut(r.op, backend[p]) # "none"
            /\ backend' = [backend EXCEPT ![p] = CarriedOut(r.op, backend[p])]
  <2>1. backend[p] \in PipelineStatuses \union {"gone"}
    BY <1>1 DEF PageType
  <2>2. CarriedOut(r.op, backend[p]) \in PipelineStatuses \union {"gone", "none"}
    BY <2>1 DEF CarriedOut, PipelineStatuses
  <2> QED BY <2>2 DEF Respond
<1>6. PageType'
  BY <1>1, <1>4, <1>5 DEF PageType
<1> QED BY <1>1, <1>6, MapStays DEF TrackInv, SyncType

LEMMA FinishTracks ==
  ASSUME TrackInv, NEW p \in TrackedPipelines, NEW r \in requests[p], Finish(p, r)
  PROVE  TrackInv'
<1>1. /\ PageType /\ MapType /\ StateType /\ r \in TrackRequestType
      /\ UNCHANGED <<left, backend, shown, trackedBy, tracker, sync>>
  BY DEF TrackInv, PageType, Finish
<1>2. /\ requests' = [requests EXCEPT ![p] = @ \ {r}]
      /\ loading' = IF r.orphan THEN loading ELSE [loading EXCEPT ![p] = FALSE]
      /\ retryOffered' \in {retryOffered, [retryOffered EXCEPT ![p] = r.op]}
      /\ retryOffered' # retryOffered => r.op \in {"stop", "delete"}
  BY DEF Finish
<1>3. /\ pipelineState' \in {pipelineState, [pipelineState EXCEPT ![p] = Reverted(r)]}
      /\ seen' = IF pipelineState' # pipelineState /\ r.was \in Transitional
                   THEN [seen EXCEPT ![p] = @ \union {"wentBack"}] ELSE seen
  BY DEF Finish
<1>4. listed' \in {listed, [listed EXCEPT ![p] = "stopped"], [listed EXCEPT ![p] = r.was]}
  BY DEF Finish
<1>5. Reverted(r) \in {"active", "stopped", r.was} /\ r.was \in PipelineStatuses
  BY <1>1 DEF Reverted, TrackRequestType
<1>6. PageType'
  <2>1. requests' \in [TrackedPipelines -> SUBSET TrackRequestType]
    BY <1>1, <1>2 DEF PageType
  <2>2. listed' \in [TrackedPipelines -> PipelineStatuses]
    BY <1>1, <1>4, <1>5 DEF PageType, PipelineStatuses
  <2>3. loading' \in [TrackedPipelines -> BOOLEAN]
    BY <1>1, <1>2 DEF PageType
  <2>4. retryOffered' \in [TrackedPipelines -> {"none", "stop", "delete"}]
    BY <1>1, <1>2 DEF PageType
  <2> QED BY <1>1, <2>1, <2>2, <2>3, <2>4 DEF PageType
<1>7. MapType'
  BY <1>1, <1>3 DEF MapType
<1>8. StateType'
  BY <1>1, <1>3, <1>5 DEF StateType, PipelineStatuses
<1>9. FollowInv'
  <2> SUFFICES ASSUME NEW q \in TrackedPipelines PROVE Followed(q)'
    BY DEF FollowInv
  <2>1. seen[q] \subseteq seen'[q]
    BY <1>1, <1>3 DEF MapType
  <2>2. CASE pipelineState' = pipelineState
    BY <1>1, <2>1, <2>2, FollowStays DEF TrackInv
  <2>3. CASE pipelineState' # pipelineState /\ q = p
    <3>1. pipelineState'[p] = Reverted(r)
      BY <1>1, <1>3, <2>3 DEF StateType
    <3>2. r.was \in Transitional => "wentBack" \in seen'[p]
      BY <1>1, <1>3, <2>3 DEF MapType
    <3> QED BY <1>5, <2>3, <3>1, <3>2 DEF Followed, Transitional
  <2>4. CASE q # p
    <3>1. pipelineState'[q] = pipelineState[q]
      BY <1>1, <1>3, <2>4 DEF StateType
    <3> QED BY <1>1, <2>1, <3>1, FollowStays DEF TrackInv
  <2> QED BY <2>2, <2>3, <2>4
<1> QED BY <1>1, <1>6, <1>7, <1>8, <1>9, MapStays DEF TrackInv, SyncType

LEMMA PageTracks ==
  ASSUME TrackInv, PageReplaced
  PROVE  TrackInv'
<1>1. PageType /\ UNCHANGED <<backend, trackedBy, tracker, pipelineState, retryOffered, sync, seen>>
  BY DEF TrackInv, PageReplaced
<1>2. requests' \in [TrackedPipelines -> SUBSET TrackRequestType]
  <2>1. \A p \in TrackedPipelines : \A r \in requests[p] : [r EXCEPT !.orphan = TRUE] \in TrackRequestType
    <3> SUFFICES ASSUME NEW p \in TrackedPipelines, NEW r \in requests[p]
                 PROVE  [r EXCEPT !.orphan = TRUE] \in TrackRequestType
      OBVIOUS
    <3>1. r \in TrackRequestType
      BY <1>1 DEF PageType
    <3> QED BY <3>1 DEF TrackRequestType
  <2>2. requests' = [p \in TrackedPipelines |-> {[r EXCEPT !.orphan = TRUE] : r \in requests[p]}]
    BY DEF PageReplaced
  <2> QED BY <2>1, <2>2
<1>3. /\ listed' \in [TrackedPipelines -> PipelineStatuses] /\ shown' = listed'
      /\ loading' \in [TrackedPipelines -> BOOLEAN]
  BY <1>1 DEF PageReplaced, PageType
<1>4. PageType'
  BY <1>1, <1>2, <1>3 DEF PageType
<1> QED BY <1>1, <1>4, MapStays DEF TrackInv, SyncType

LEMMA BackendTracks ==
  ASSUME TrackInv, NEW p \in TrackedPipelines, BackendProceeds(p) \/ StatusShown(p)
  PROVE  TrackInv'
<1>1. /\ PageType
      /\ UNCHANGED <<left, listed, trackedBy, tracker, pipelineState, requests, loading,
                     retryOffered, sync, seen>>
  BY DEF TrackInv, BackendProceeds, StatusShown
<1>2. /\ backend' \in [TrackedPipelines -> PipelineStatuses \union {"gone"}]
      /\ shown' \in [TrackedPipelines -> PipelineStatuses]
  BY <1>1 DEF BackendProceeds, StatusShown, PageType, PipelineStatuses
<1>3. PageType'
  BY <1>1, <1>2 DEF PageType
<1> QED BY <1>1, <1>3, MapStays DEF TrackInv, SyncType

LEMMA StillTracks == TrackInv /\ UNCHANGED trackingVars => TrackInv'
<1> SUFFICES ASSUME TrackInv, UNCHANGED trackingVars PROVE TrackInv'
  OBVIOUS
<1>1. PageType' /\ SyncType'
  BY DEF TrackInv, PageType, SyncType, trackingVars
<1> QED BY <1>1, MapStays DEF TrackInv, trackingVars

LEMMA TrackInit == TrackingInit => TrackInv
<1> SUFFICES ASSUME TrackingInit PROVE TrackInv
  OBVIOUS
<1>1. tracker = [k \in Trackers |-> FreeTracker] /\ trackedBy = [p \in TrackedPipelines |-> NoTracker]
  BY DEF TrackingInit
<1>2. MapType
  BY <1>1, FreeTyped DEF TrackingInit, MapType
<1>3. PageType
  BY DEF TrackingInit, PageType, PipelineStatuses
<1>4. StateType /\ FollowInv
  BY DEF TrackingInit, StateType, FollowInv, Followed, Transitional
<1>5. SyncType
  BY DEF TrackingInit, SyncType, NoSync
<1>6. MapInv
  BY <1>1, TrackingAssumption DEF MapInv, FreeTracker
<1> QED BY <1>2, <1>3, <1>4, <1>5, <1>6 DEF TrackInv

LEMMA TrackNext == TrackInv /\ [TrackingNext]_trackingVars => TrackInv'
<1> SUFFICES ASSUME TrackInv, [TrackingNext]_trackingVars PROVE TrackInv'
  OBVIOUS
<1>1. CASE \E k \in Trackers : Tick(k) \/ HealthAnswers(k) \/ HandleAnswer(k)
  BY <1>1, TickTracks, HealthTracks, AnswerTracks
<1>2. CASE SyncStart \/ SyncAnswers \/ SyncHandle \/ PageReplaced
  BY <1>2, SyncTracks, SyncHandleTracks, PageTracks
<1>3. CASE \E p \in TrackedPipelines :
             (\E op \in Operations : Start(p, op)) \/ Retry(p) \/ BackendProceeds(p) \/ StatusShown(p)
  BY <1>3, StartTracks, RetryTracks, BackendTracks
<1>4. CASE \E p \in TrackedPipelines : \E r \in requests[p] : Respond(p, r) \/ Finish(p, r)
  BY <1>4, RespondTracks, FinishTracks
<1>5. CASE UNCHANGED trackingVars
  BY <1>5, StillTracks
<1> QED BY <1>1, <1>2, <1>3, <1>4, <1>5 DEF TrackingNext

\* The invariant of the pages and of their trackers: which object polls for which pipeline, and
\* what every status on a page rests on (pipeline-status-manager.ts, usePipelineListOperations).
THEOREM TrackingInvariant == TrackingSpec => []TrackInv
BY TrackInit, TrackNext, PTL DEF TrackingSpec

\* The variables of the pages, trackers and handlers keep their types; no tracker counts more
\* errors than it may before it gives up.
THEOREM TrackingTypeCorrect == TrackingSpec => []TrackingTypeOK
<1>1. TrackInv => TrackingTypeOK
  <2> SUFFICES ASSUME TrackInv PROVE TrackingTypeOK
    OBVIOUS
  <2>1. \A k \in Trackers :
          /\ tracker[k].phase \in {"free", "timer", "asked", "answered"}
          /\ tracker[k].errors \in 0..(MaxErrors - 1)
    BY TrackingAssumption DEF TrackInv, MapType, MapInv, TrackerType
  <2> QED BY <2>1 DEF TrackInv, MapType, PageType, StateType, SyncType, TrackingTypeOK
<1> QED BY <1>1, TrackingInvariant, PTL

\* Whatever operations overlap on a pipeline, whenever their handlers' answers and the pollers'
\* come, and however often the list of pipelines is synchronised: an object polls exactly when
\* the map names it for its pipeline, and a page that announces a transition has one polling for
\* it, but for the ends named in the property (trackPipeline, stopTracking, the handlers of
\* usePipelineListOperations).
THEOREM TransitionsAreFollowed == TrackingSpec => []TransitionIsFollowed
<1>1. TrackInv => TransitionIsFollowed
  <2> SUFFICES ASSUME TrackInv PROVE TransitionIsFollowed
    OBVIOUS
  <2>1. OneLoopPerPipeline
    <3> SUFFICES ASSUME NEW k \in Trackers
        PROVE  tracker[k].active <=>
                 /\ tracker[k].phase # "free"
                 /\ \E p \in TrackedPipelines : trackedBy[p] = k /\ tracker[k].pipe = p
      BY DEF OneLoopPerPipeline
    <3>1. k # NoTracker /\ tracker[k].active \in BOOLEAN
      BY TrackingAssumption DEF TrackInv, MapType, TrackerType
    <3> QED BY <3>1 DEF TrackInv, MapInv
  <2> QED BY <2>1 DEF TrackInv, FollowInv, Followed, TransitionIsFollowed
<1> QED BY <1>1, TrackingInvariant, PTL

-----------------------------------------------------------------------------
(* The wizard (Wizard). *)

Steps == Range(Journey)
Status == [Sections -> SectionStatuses]
ClosureType ==
  [step : Steps, resume : Steps \union {Nowhere}, status : Status]
Chosen == [1..topicCount -> Topic] \union {Nowhere}

WizardType ==
  /\ topicCount \in TopicCounts /\ topicCount \in {1, 2}
  /\ activeStep \in Steps /\ completedSteps \in SUBSET Steps
  /\ resumeStep \in Steps \union {Nowhere}
  /\ sectionStatus \in Status
  /\ topics \in [{1, 2} -> Topic] /\ originalTopic \in Topic
  /\ joinedFor \in Chosen /\ mappedFor \in Chosen
  /\ raced \in BOOLEAN /\ abandoned \in BOOLEAN
  /\ \A c \in pending : c \in ClosureType /\ c.step \in {"kafka", "clickhouse", "transformation"}

\* The steps before a given one are completed.
AllBefore(step) == \A s \in Steps : Before(s, step) => s \in completedSteps
OrderInv == ~raced =>
  /\ \A d \in completedSteps : AllBefore(d)
  /\ AllBefore(activeStep)
  /\ resumeStep # Nowhere => AllBefore(resumeStep)

\* The topics as they were when the topic step on the screen was entered.
OnTopic(i) == activeStep \in TopicSteps /\ TopicIndex(activeStep) = i
Effective ==
  [i \in 1..topicCount |->
     IF OnTopic(i) /\ originalTopic # NoTopic THEN originalTopic ELSE topics[i]]

FreshInv == ~abandoned =>
  /\ \A i \in {1, 2} : topics[i].schema = 0 => topics[i] = NoTopic \/ OnTopic(i)
  /\ \A i \in {1, 2} : OnTopic(i) /\ originalTopic = NoTopic =>
       /\ topics[i].schema = 0
       /\ i <= topicCount => joinedFor = Nowhere /\ mappedFor = Nowhere
  /\ \A i \in {1, 2} : OnTopic(i) /\ originalTopic # NoTopic =>
       originalTopic.schema # 0 /\ (topics[i].schema # 0 => topics[i] = originalTopic)
  /\ {joinedFor, mappedFor} \subseteq {Nowhere, Effective}
  /\ {joinedFor, mappedFor} # {Nowhere} => \A i \in 1..topicCount : Effective[i].schema # 0

WizardInv == WizardType /\ OrderInv /\ FreshInv

-----------------------------------------------------------------------------
(* The journey: its steps are distinct, and which is its last *)

Distinct(s) == \A i, j \in 1..Len(s) : s[i] = s[j] => i = j

\* A part of a journey, with steps of R; parts without a step in common.
Part(s, R) == s \in Seq(R) /\ Distinct(s)
Apart(R, Q) == R \intersect Q = {}
StartsWithKafka(s) == Len(s) > 0 /\ s[1] = "kafka"
EndsWith(s, step) == Len(s) > 0 /\ s[Len(s)] = step

LEMMA Concatenated ==
  ASSUME NEW R, NEW Q, Apart(R, Q), NEW s, Part(s, R), NEW t, Part(t, Q)
  PROVE  /\ Part(s \o t, R \union Q)
         /\ StartsWithKafka(s) => StartsWithKafka(s \o t)
         /\ \A step : EndsWith(t, step) => EndsWith(s \o t, step)
<1>1. s \in Seq(R \union Q) /\ t \in Seq(R \union Q) /\ s \in Seq(R) /\ t \in Seq(Q)
  BY DEF Part
<1>2. /\ s \o t \in Seq(R \union Q) /\ Len(s \o t) = Len(s) + Len(t)
      /\ \A i \in 1..Len(s) : (s \o t)[i] = s[i] /\ s[i] \in R
      /\ \A i \in (Len(s) + 1)..(Len(s) + Len(t)) :
           (s \o t)[i] = t[i - Len(s)] /\ t[i - Len(s)] \in Q /\ i - Len(s) \in 1..Len(t)
  BY <1>1
<1>3. Distinct(s \o t)
  BY <1>2 DEF Distinct, Part, Apart
<1>4. StartsWithKafka(s) => StartsWithKafka(s \o t)
  BY <1>1, <1>2 DEF StartsWithKafka
<1>5. ASSUME NEW step, EndsWith(t, step) PROVE EndsWith(s \o t, step)
  BY <1>1, <1>2, <1>5 DEF EndsWith
<1> QED BY <1>2, <1>3, <1>4, <1>5 DEF Part

LEMMA WhenIs ==
  ASSUME NEW wanted \in BOOLEAN, NEW step
  PROVE  /\ Part(When(wanted, step), {step})
         /\ wanted => EndsWith(When(wanted, step), step)
         /\ ~wanted => When(wanted, step) = << >>
<1>1. <<step>> \in Seq({step}) /\ Len(<<step>>) = 1 /\ << >> \in Seq({step}) /\ Len(<< >>) = 0
      /\ <<step>>[1] = step
  OBVIOUS
<1>2. Distinct(<<step>>) /\ Distinct(<< >>)
  BY <1>1 DEF Distinct
<1>3. Part(<<step>>, {step}) /\ Part(<< >>, {step}) /\ EndsWith(<<step>>, step)
  BY <1>1, <1>2 DEF Part, EndsWith
<1>4. When(wanted, step) = IF wanted THEN <<step>> ELSE << >>
  BY DEF When
<1> QED BY <1>3, <1>4

LastStep == IF PreviewModeEnabled THEN "review" ELSE "resources"
StepNames ==
  {"kafka", "topic1", "types1", "dedup1", "topic2", "types2", "dedup2", "join", "filter",
   "transformation", "clickhouse", "mapper", "resources", "review"}
JourneyGood(J) == Part(J, StepNames) /\ StartsWithKafka(J) /\ EndsWith(J, LastStep)

LEMMA PartWithin == ASSUME NEW R, NEW Q, R \subseteq Q, NEW s, Part(s, R) PROVE Part(s, Q)
BY DEF Part

\* A journey that ends before the preview, with the preview after it.
LEMMA WithPreview ==
  ASSUME NEW R, Apart(R, {"review"}), R \subseteq StepNames, NEW s, Part(s, R),
         StartsWithKafka(s), EndsWith(s, "resources")
  PROVE  JourneyGood(s \o When(PreviewModeEnabled, "review"))
<1> DEFINE t == When(PreviewModeEnabled, "review")
<1>0. /\ Part(t, {"review"}) /\ PreviewModeEnabled \in BOOLEAN
      /\ PreviewModeEnabled => EndsWith(t, "review")
      /\ ~PreviewModeEnabled => t = << >>
  BY WhenIs, WizardAssumption
<1> HIDE DEF t
<1>1. /\ Part(s \o t, R \union {"review"}) /\ StartsWithKafka(s \o t)
      /\ EndsWith(t, "review") => EndsWith(s \o t, "review")
  BY <1>0, Concatenated
<1>2. R \union {"review"} \subseteq StepNames
  BY DEF StepNames
<1>3. ~PreviewModeEnabled => s \o t = s
  BY <1>0 DEF Part
<1> QED BY <1>0, <1>1, <1>2, <1>3, PartWithin DEF JourneyGood, LastStep, t

LEMMA JourneyIsGood == topicCount \in {1, 2} => JourneyGood(Journey)
<1> DEFINE R == {"kafka", "topic1", "types1", "dedup1", "topic2", "types2", "dedup2", "join",
                 "clickhouse", "mapper", "resources"}
           two == <<"kafka", "topic1", "types1", "dedup1", "topic2", "types2", "dedup2", "join",
                    "clickhouse", "mapper", "resources">>
           F == {"kafka", "topic1", "types1", "dedup1"}
           first == <<"kafka", "topic1", "types1", "dedup1">>
           filter == When(FiltersEnabled, "filter")
           transformation == When(TransformationsEnabled, "transformation")
           L == {"clickhouse", "mapper", "resources"}
           last == <<"clickhouse", "mapper", "resources">>
<1>1. JourneyGood(TwoTopicJourney)
  <2>1. two \in Seq(R) /\ Len(two) = 11 /\ two[11] = "resources" /\ two[1] = "kafka"
    OBVIOUS
  <2>2. Distinct(two)
    BY DEF Distinct
  <2>3. Apart(R, {"review"}) /\ R \subseteq StepNames
    BY DEF StepNames, Apart
  <2>4. TwoTopicJourney = two \o When(PreviewModeEnabled, "review")
    BY DEF TwoTopicJourney
  <2> HIDE DEF two, R
  <2>5. Part(two, R) /\ StartsWithKafka(two) /\ EndsWith(two, "resources")
    BY <2>1, <2>2 DEF Part, StartsWithKafka, EndsWith
  <2> QED BY <2>3, <2>4, <2>5, WithPreview
<1>2. JourneyGood(SingleTopicJourney)
  <2>1. first \in Seq(F) /\ Distinct(first) /\ Len(first) = 4 /\ first[1] = "kafka"
    BY DEF Distinct
  <2>2. last \in Seq(L) /\ Distinct(last) /\ Len(last) = 3 /\ last[3] = "resources"
    BY DEF Distinct
  <2>3. Part(filter, {"filter"}) /\ Part(transformation, {"transformation"})
    BY WhenIs, WizardAssumption
  <2> DEFINE A == F \union {"filter"}
             B == A \union {"transformation"}
             C == B \union L
             a == first \o filter
             b == a \o transformation
             c == b \o last
  <2>4. SingleTopicJourney = c \o When(PreviewModeEnabled, "review")
    BY DEF SingleTopicJourney
  <2>5. /\ Apart(F, {"filter"}) /\ Apart(A, {"transformation"}) /\ Apart(B, L)
        /\ Apart(C, {"review"}) /\ C \subseteq StepNames
    BY DEF Apart, StepNames
  <2> HIDE DEF first, filter, transformation, last, F, L
  <2>6. Part(first, F) /\ StartsWithKafka(first) /\ Part(last, L) /\ EndsWith(last, "resources")
    BY <2>1, <2>2 DEF Part, StartsWithKafka, EndsWith
  <2>7. Part(a, A) /\ StartsWithKafka(a)
    BY <2>3, <2>5, <2>6, Concatenated
  <2> HIDE DEF a, A
  <2>8. Part(b, B) /\ StartsWithKafka(b)
    BY <2>3, <2>5, <2>7, Concatenated
  <2> HIDE DEF b, B
  <2>9. Part(c, C) /\ StartsWithKafka(c) /\ EndsWith(c, "resources")
    BY <2>5, <2>6, <2>8, Concatenated
  <2> HIDE DEF c, C
  <2> QED BY <2>4, <2>5, <2>9, WithPreview
<1> QED BY <1>1, <1>2 DEF Journey

\* A step and its index.
IndexGood ==
  /\ Len(Journey) \in Nat /\ Len(Journey) > 0 /\ Journey \in Seq(StepNames)
  /\ \A s \in Steps : IndexOf(s) \in 1..Len(Journey) /\ Journey[IndexOf(s)] = s
  /\ \A i \in 1..Len(Journey) : Journey[i] \in Steps /\ IndexOf(Journey[i]) = i
  /\ Journey[Len(Journey)] = LastStep /\ Journey[1] = "kafka"

LEMMA Indexed == topicCount \in {1, 2} => IndexGood
<1> SUFFICES ASSUME topicCount \in {1, 2} PROVE IndexGood
  OBVIOUS
<1>1. JourneyGood(Journey)
  BY JourneyIsGood
<1> DEFINE J == Journey
<1>2. J \in Seq(StepNames) /\ Len(J) \in Nat /\ DOMAIN J = 1..Len(J) /\ J = Journey
  BY <1>1 DEF JourneyGood, Part
<1> HIDE DEF J
<1>3. Steps = {J[x] : x \in 1..Len(J)}
  BY <1>2 DEF Steps, Range
<1>4. \A s : IndexOf(s) = CHOOSE i \in 1..Len(J) : J[i] = s
  BY <1>2 DEF IndexOf
<1>5. \A s \in Steps : IndexOf(s) \in 1..Len(J) /\ J[IndexOf(s)] = s
  BY <1>3, <1>4
<1>6. \A i \in 1..Len(J) : J[i] \in Steps /\ IndexOf(J[i]) = i
  BY <1>1, <1>2, <1>3, <1>5 DEF JourneyGood, Part, Distinct
<1> QED BY <1>1, <1>2, <1>5, <1>6 DEF IndexGood, JourneyGood, StartsWithKafka, EndsWith

LEMMA SameJourney ==
  topicCount' = topicCount
    => Journey' = Journey /\ Steps' = Steps /\ \A s : IndexOf(s)' = IndexOf(s)
BY DEF Journey, Steps, IndexOf, SingleTopicJourney, TwoTopicJourney

\* A nonempty set of numbers has a least one.
LEMMA HasLeast ==
  ASSUME NEW T \in SUBSET Nat, T # {}
  PROVE  \E m \in T : \A k \in T : m <= k
<1> DEFINE C == {0..k : k \in T}
<1>1. \A k \in T : 0..k \in FiniteSubsetsOf(Nat)
  BY FS_Interval DEF FiniteSubsetsOf
<1>2. IsWellFoundedOn(StrictSubsetOrdering(Nat), FiniteSubsetsOf(Nat))
  BY FS_StrictSubsetOrderingWellFounded
<1>3. C \subseteq FiniteSubsetsOf(Nat) /\ C # {}
  BY <1>1
<1>4. PICK x \in C : \A y \in C : <<y, x>> \notin StrictSubsetOrdering(Nat)
  BY <1>2, <1>3, WFMin
<1>5. PICK m \in T : x = 0..m
  OBVIOUS
<1>6. ASSUME NEW k \in T, ~(m <= k) PROVE FALSE
  <2>1. 0..k \subseteq 0..m /\ m \notin 0..k /\ m \in 0..m /\ 0..m \subseteq Nat
    BY <1>6
  <2>2. 0..k \in SUBSET Nat /\ 0..m \in SUBSET Nat /\ 0..k # 0..m
    BY <2>1
  <2>3. <<0..k, 0..m>> \in StrictSubsetOrdering(Nat)
    BY <2>1, <2>2 DEF StrictSubsetOrdering
  <2>4. 0..k \in C
    OBVIOUS
  <2> QED BY <1>4, <1>5, <2>3, <2>4
<1> QED BY <1>6

-----------------------------------------------------------------------------
(* Moving from step to step *)

LEMMA FirstBlockingIs ==
  ASSUME NEW c \in ClosureType, IndexGood, c.resume \in Steps, BlockingSteps(c) # {}
  PROVE  FirstBlocking(c) \in (IndexOf(c.step) + 1)..IndexOf(c.resume)
<1>1. /\ IndexOf(c.step) \in 1..Len(Journey) /\ IndexOf(c.resume) \in 1..Len(Journey)
      /\ Len(Journey) \in Nat
  BY DEF ClosureType, IndexGood
<1>2. BlockingSteps(c) \subseteq (IndexOf(c.step) + 1)..IndexOf(c.resume)
  BY DEF BlockingSteps
<1>3. BlockingSteps(c) \in SUBSET Nat
  BY <1>1, <1>2
<1>4. \E i \in BlockingSteps(c) : \A j \in BlockingSteps(c) : i <= j
  BY <1>3, HasLeast
<1> QED BY <1>2, <1>4 DEF FirstBlocking

\* Where handleNext goes and what it leaves completed.
Goes(c, done) ==
  \/ /\ c.resume # Nowhere /\ c.resume \in Steps /\ Before(c.step, c.resume)
     /\ resumeStep' = Nowhere
     /\ \E i \in (IndexOf(c.step) + 1)..IndexOf(c.resume) :
          /\ Go(Journey[i])
          /\ \/ i = IndexOf(c.resume) /\ completedSteps' = done
             \/ completedSteps' = {s \in done : IndexOf(s) <= i - 1}
  \/ /\ resumeStep' \in {resumeStep, Nowhere}
     /\ completedSteps' = done
     /\ Go(Journey[IndexOf(c.step) + 1])

LEMMA HandleNextGoes ==
  ASSUME NEW c \in ClosureType, IndexGood, HandleNext(c)
  PROVE  Goes(c, completedSteps \union {c.step})
<1> DEFINE done == completedSteps \union {c.step}
<1>1. CASE c.resume # Nowhere /\ Before(c.step, c.resume)
  <2>0. c.resume \in Steps /\ c.step \in Steps
    BY <1>1 DEF ClosureType
  <2>1. /\ IndexOf(c.step) \in 1..Len(Journey) /\ IndexOf(c.resume) \in 1..Len(Journey)
        /\ IndexOf(c.step) < IndexOf(c.resume) /\ Journey[IndexOf(c.resume)] = c.resume
        /\ Len(Journey) \in Nat
    BY <1>1, <2>0 DEF IndexGood, Before
  <2>2. resumeStep' = Nowhere
    BY <1>1 DEF HandleNext
  <2>3. CASE BlockingSteps(c) = {} /\ completedSteps' = done /\ Go(c.resume)
    <3>1. IndexOf(c.resume) \in (IndexOf(c.step) + 1)..IndexOf(c.resume)
      BY <2>1
    <3> QED BY <1>1, <2>0, <2>1, <2>2, <2>3, <3>1 DEF Goes
  <2>4. CASE /\ BlockingSteps(c) # {}
             /\ completedSteps' = RemoveCompletedStepsAfter(done, FirstBlocking(c) - 1)
             /\ Go(Journey[FirstBlocking(c)])
    <3>1. FirstBlocking(c) \in (IndexOf(c.step) + 1)..IndexOf(c.resume)
      BY <2>0, <2>4, FirstBlockingIs
    <3> QED BY <1>1, <2>0, <2>2, <2>4, <3>1 DEF Goes, RemoveCompletedStepsAfter
  <2> QED BY <1>1, <2>3, <2>4 DEF HandleNext
<1>2. CASE ~(c.resume # Nowhere /\ Before(c.step, c.resume))
  BY <1>2 DEF HandleNext, Goes
<1> QED BY <1>1, <1>2

LEMMA GoTyped ==
  ASSUME NEW step \in Steps, Go(step), topics' \in [{1, 2} -> Topic]
  PROVE  activeStep' = step /\ originalTopic' \in Topic
<1>1. NoTopic \in Topic /\ TopicIndex(step) \in {1, 2}
  BY WizardAssumption DEF NoTopic, Topic, TopicIndex
<1> QED BY <1>1 DEF Go

MovesTyped ==
  /\ activeStep' \in Steps /\ completedSteps' \in SUBSET Steps
  /\ resumeStep' \in Steps \union {Nowhere} /\ originalTopic' \in Topic

LEMMA HandleNextTyped ==
  ASSUME WizardType, NEW c \in ClosureType, c.step # LastStep, HandleNext(c),
         topics' \in [{1, 2} -> Topic]
  PROVE  MovesTyped
<1>0. IndexGood
  BY Indexed DEF WizardType
<1>1. Goes(c, completedSteps \union {c.step}) /\ completedSteps \union {c.step} \in SUBSET Steps
  BY <1>0, HandleNextGoes DEF WizardType, ClosureType
<1>2. c.step \in Steps
  BY DEF ClosureType
<1>3. IndexOf(c.step) \in 1..Len(Journey) /\ IndexOf(c.step) # Len(Journey) /\ Len(Journey) \in Nat
  BY <1>0, <1>2 DEF IndexGood
<1>4. IndexOf(c.step) + 1 \in 1..Len(Journey)
  BY <1>3
<1>5. \A i \in 1..Len(Journey) : Journey[i] \in Steps
  BY <1>0 DEF IndexGood
<1>6. c.resume \in Steps => IndexOf(c.resume) \in 1..Len(Journey)
  BY <1>0 DEF IndexGood
<1>7. PICK i \in 1..Len(Journey) : Go(Journey[i])
  BY <1>1, <1>3, <1>4, <1>6 DEF Goes
<1>8. activeStep' \in Steps /\ originalTopic' \in Topic
  BY <1>5, <1>7, GoTyped
<1> QED BY <1>1, <1>8 DEF MovesTyped, Goes, WizardType

\* handleNext in the closure of the render on the screen keeps the order.
LEMMA HandleNextOrdered ==
  ASSUME WizardType, OrderInv, ~raced, NEW c \in ClosureType, c.step = activeStep,
         c.resume = resumeStep, c.step # LastStep, HandleNext(c), topicCount' = topicCount
  PROVE  OrderInv'
<1> DEFINE D == completedSteps \union {c.step}
           I(s) == IndexOf(s)
           N == Len(Journey)
<1>0. IndexGood /\ c.step \in Steps /\ completedSteps \in SUBSET Steps
  BY Indexed DEF WizardType, ClosureType
<1>1. N \in Nat /\ \A s \in Steps : I(s) \in 1..N /\ Journey[I(s)] = s
  BY <1>0 DEF IndexGood
<1>2. \A i \in 1..N : Journey[i] \in Steps /\ I(Journey[i]) = i
  BY <1>0 DEF IndexGood
<1>3. Steps' = Steps /\ \A s : IndexOf(s)' = IndexOf(s)
  BY SameJourney
<1>4. /\ \A d \in completedSteps, s \in Steps : I(s) < I(d) => s \in completedSteps
      /\ \A s \in Steps : I(s) < I(c.step) => s \in completedSteps
      /\ c.resume # Nowhere => \A s \in Steps : I(s) < I(c.resume) => s \in completedSteps
  BY <1>0 DEF OrderInv, AllBefore, Before
<1> HIDE DEF I, N
<1>5. /\ \A d \in D, s \in Steps : I(s) < I(d) => s \in D
      /\ \A s \in Steps : I(s) < I(c.step) + 1 => s \in D
      /\ D \subseteq Steps
  <2>1. ASSUME NEW s \in Steps, I(s) < I(c.step) + 1 PROVE s \in D
    <3>1. I(s) \in Nat /\ I(c.step) \in Nat
      BY <1>0, <1>1
    <3>2. CASE I(s) < I(c.step)
      BY <1>4, <3>2
    <3>3. CASE I(s) = I(c.step)
      BY <1>0, <1>1, <3>3
    <3> QED BY <2>1, <3>1, <3>2, <3>3
  <2> QED BY <1>0, <1>4, <2>1
<1>6. Goes(c, D)
  BY <1>0, HandleNextGoes
<1>7. ASSUME NEW i \in 1..N, activeStep' = Journey[i], resumeStep' = Nowhere \/ resumeStep' = resumeStep,
             \A s \in Steps : I(s) < i => s \in D,
             \/ completedSteps' = D
             \/ completedSteps' = {s \in D : I(s) <= i - 1} /\ resumeStep' = Nowhere
      PROVE  OrderInv'
  <2>1. activeStep' \in Steps /\ I(activeStep') = i
    BY <1>2, <1>7
  <2>2. \A d \in completedSteps', s \in Steps : I(s) < I(d) => s \in completedSteps'
    <3> SUFFICES ASSUME NEW d \in completedSteps', NEW s \in Steps, I(s) < I(d)
                 PROVE  s \in completedSteps'
      OBVIOUS
    <3>1. I(s) \in Nat /\ I(d) \in Nat /\ d \in D /\ s \in D
      BY <1>1, <1>5, <1>7
    <3> QED BY <1>7, <3>1
  <2>3. \A s \in Steps : I(s) < i => s \in completedSteps'
    BY <1>1, <1>7
  <2>4. resumeStep' # Nowhere => \A s \in Steps : I(s) < I(resumeStep') => s \in completedSteps'
    BY <1>4, <1>7
  <2>5. \A s \in Steps : (AllBefore(s))' <=> \A r \in Steps : I(r) < I(s) => r \in completedSteps'
    BY <1>3 DEF AllBefore, Before, I
  <2>6. completedSteps' \subseteq Steps /\ resumeStep' \in Steps \union {Nowhere}
    BY <1>5, <1>7 DEF WizardType
  <2>7. \A s \in Steps : Before(s, activeStep)' <=> I(s) < i
    BY <1>3, <2>1 DEF Before, I
  <2>8. (AllBefore(activeStep))'
    BY <1>3, <2>3, <2>7 DEF AllBefore
  <2>9. \A s, r \in Steps : Before(s, r)' <=> I(s) < I(r)
    BY <1>3 DEF Before, I
  <2>10. resumeStep' # Nowhere => (AllBefore(resumeStep))'
    <3> SUFFICES ASSUME resumeStep' # Nowhere PROVE (AllBefore(resumeStep))'
      OBVIOUS
    <3>1. resumeStep' \in Steps
      BY <2>6
    <3>2. \A s \in Steps : Before(s, resumeStep)' <=> I(s) < I(resumeStep')
      BY <1>3 DEF Before, I
    <3> QED BY <1>3, <2>4, <3>2 DEF AllBefore
  <2>11. (\A d \in completedSteps : AllBefore(d))'
    BY <1>3, <2>2, <2>6, <2>9 DEF AllBefore
  <2> QED BY <2>8, <2>10, <2>11 DEF OrderInv
<1>8. CASE /\ c.resume # Nowhere /\ c.resume \in Steps /\ Before(c.step, c.resume)
           /\ resumeStep' = Nowhere
           /\ \E i \in (IndexOf(c.step) + 1)..IndexOf(c.resume) :
                /\ Go(Journey[i])
                /\ \/ i = IndexOf(c.resume) /\ completedSteps' = D
                   \/ completedSteps' = {s \in D : IndexOf(s) <= i - 1}
  <2>1. PICK i \in (I(c.step) + 1)..I(c.resume) :
          /\ Go(Journey[i])
          /\ completedSteps' = D \/ completedSteps' = {s \in D : I(s) <= i - 1}
    BY <1>8 DEF I
  <2>2. I(c.step) \in 1..N /\ I(c.resume) \in 1..N
    BY <1>0, <1>1, <1>8
  <2>3. i \in 1..N
    BY <1>1, <2>2
  <2>4. ASSUME NEW s \in Steps, I(s) < i PROVE s \in D
    <3>1. I(s) \in 1..N
      BY <1>1
    <3>2. I(s) < I(c.resume)
      BY <2>2, <2>3, <2>4, <3>1
    <3> QED BY <1>4, <1>8, <3>2
  <2> QED BY <1>7, <1>8, <2>1, <2>3, <2>4 DEF Go
<1>9. CASE /\ resumeStep' \in {resumeStep, Nowhere} /\ completedSteps' = D
           /\ Go(Journey[IndexOf(c.step) + 1])
  <2>1. I(c.step) \in 1..N /\ I(c.step) # N
    BY <1>0, <1>1 DEF IndexGood, N
  <2>2. I(c.step) + 1 \in 1..N
    BY <1>1, <2>1
  <2>3. activeStep' = Journey[I(c.step) + 1]
    BY <1>9 DEF Go, I
  <2> QED BY <1>5, <1>7, <1>9, <2>2, <2>3
<1> QED BY <1>6, <1>8, <1>9 DEF Goes

-----------------------------------------------------------------------------
(* Topics, and what was made from them *)

\* No topic step is on the screen with a topic picked and not submitted.
Settled(t, j, m) ==
  /\ \A i \in {1, 2} : t[i].schema = 0 => t[i] = NoTopic
  /\ {j, m} \subseteq {Nowhere, [i \in 1..topicCount |-> t[i]]}
  /\ {j, m} # {Nowhere} => \A i \in 1..topicCount : t[i].schema # 0

LEMMA GoFresh ==
  ASSUME WizardType, NEW step, Go(step), topicCount' = topicCount, topics' \in [{1, 2} -> Topic],
         Settled(topics', joinedFor', mappedFor')
  PROVE  FreshInv'
<1>0. 1..topicCount \subseteq {1, 2}
  BY DEF WizardType
<1>1. NoTopic.schema = 0
  BY DEF NoTopic
<1>2. activeStep' = step
      /\ originalTopic' = IF step \in TopicSteps /\ topics'[TopicIndex(step)].schema # 0
                          THEN topics'[TopicIndex(step)] ELSE NoTopic
  BY DEF Go
<1>3. \A i \in {1, 2} : OnTopic(i)' <=> step \in TopicSteps /\ TopicIndex(step) = i
  BY <1>2 DEF OnTopic
<1>4. \A i \in {1, 2} : OnTopic(i)' /\ originalTopic' # NoTopic =>
        originalTopic' = topics'[i] /\ topics'[i].schema # 0
  BY <1>2, <1>3
<1>5. \A i \in {1, 2} : OnTopic(i)' /\ originalTopic' = NoTopic => topics'[i].schema = 0
  BY <1>1, <1>2, <1>3
<1> DEFINE T == [i \in 1..topicCount |-> topics'[i]]
<1>6. Effective' = T
  BY <1>0, <1>4 DEF Effective
<1>7. \A i \in 1..topicCount : T[i] = topics'[i]
  OBVIOUS
<1>8. {joinedFor', mappedFor'} \subseteq {Nowhere, T}
  BY DEF Settled
<1> HIDE DEF T
<1>9. ASSUME NEW i \in {1, 2}, OnTopic(i)', originalTopic' = NoTopic, i <= topicCount'
      PROVE  joinedFor' = Nowhere /\ mappedFor' = Nowhere
  <2>1. topics'[i].schema = 0 /\ i \in 1..topicCount
    BY <1>5, <1>9 DEF WizardType
  <2> QED BY <2>1 DEF Settled
<1> QED BY <1>4, <1>5, <1>6, <1>7, <1>8, <1>9 DEF FreshInv, Settled

\* A step without an unsubmitted topic.
LEMMA LeavingSettles ==
  ASSUME WizardType, FreshInv, ~abandoned, ~LeavesTopicUnsubmitted
  PROVE  Settled(topics, joinedFor, mappedFor)
<1>0. 1..topicCount \subseteq {1, 2} /\ NoTopic.schema = 0
  BY DEF WizardType, NoTopic
<1>1. \A i \in {1, 2} : OnTopic(i) => topics[i].schema # 0
  BY DEF OnTopic, LeavesTopicUnsubmitted
<1>2. \A i \in {1, 2} : OnTopic(i) => originalTopic # NoTopic /\ topics[i] = originalTopic
  BY <1>1 DEF FreshInv
<1> DEFINE T == [i \in 1..topicCount |-> topics[i]]
<1>3. Effective = T
  BY <1>0, <1>2 DEF Effective
<1>4. \A i \in 1..topicCount : T[i] = topics[i]
  OBVIOUS
<1>5. {joinedFor, mappedFor} \subseteq {Nowhere, T}
  BY <1>3 DEF FreshInv
<1>6. {joinedFor, mappedFor} # {Nowhere} => \A i \in 1..topicCount : topics[i].schema # 0
  BY <1>3, <1>4 DEF FreshInv
<1>7. \A i \in {1, 2} : topics[i].schema = 0 => topics[i] = NoTopic
  BY <1>1 DEF FreshInv
<1> QED BY <1>5, <1>6, <1>7 DEF Settled

LEMMA MarkedIs ==
  ASSUME NEW s \in Status, NEW sections, NEW value \in SectionStatuses
  PROVE  Marked(s, sections, value) \in Status
BY DEF Marked, Status

LEMMA ConfiguredIs ==
  ASSUME NEW s \in Status, NEW step
  PROVE  OnSectionConfigured(s, step) \in Status
<1>1. "valid" \in SectionStatuses /\ "invalidated" \in SectionStatuses
  BY DEF SectionStatuses
<1> QED BY <1>1, MarkedIs DEF OnSectionConfigured

LEMMA ClosureIs ==
  WizardType => /\ Closure \in ClosureType /\ Closure.step = activeStep
                /\ Closure.resume = resumeStep
BY DEF WizardType, Closure, ClosureType

LEMMA HandleNextGoesSomewhere ==
  ASSUME NEW c, HandleNext(c)
  PROVE  \E step : Go(step)
BY DEF HandleNext

LEMMA TypesStay ==
  topicCount' = topicCount => ClosureType' = ClosureType /\ Chosen' = Chosen /\ Steps' = Steps
BY SameJourney DEF ClosureType, Chosen

\* A step that is completed within its click.
LEMMA Completing ==
  ASSUME WizardInv, HandleNext(Closure), activeStep # LastStep,
         UNCHANGED <<topicCount, pending, raced, abandoned>>, sectionStatus' \in Status,
         topics' \in [{1, 2} -> Topic], joinedFor' \in Chosen, mappedFor' \in Chosen,
         ~abandoned => Settled(topics', joinedFor', mappedFor')
  PROVE  WizardInv'
<1>0. WizardType /\ OrderInv /\ Closure \in ClosureType /\ Closure.step = activeStep
      /\ Closure.resume = resumeStep
  BY ClosureIs DEF WizardInv
<1>1. MovesTyped
  BY <1>0, HandleNextTyped
<1>2. WizardType'
  BY <1>0, <1>1, TypesStay DEF WizardType, MovesTyped
<1>3. OrderInv'
  <2>1. CASE raced
    BY <2>1 DEF OrderInv
  <2>2. CASE ~raced
    BY <1>0, <2>2, HandleNextOrdered
  <2> QED BY <2>1, <2>2
<1>4. FreshInv'
  <2>1. CASE abandoned
    BY <2>1 DEF FreshInv
  <2>2. CASE ~abandoned
    BY <1>0, <2>2, HandleNextGoesSomewhere, GoFresh
  <2> QED BY <2>1, <2>2
<1> QED BY <1>2, <1>3, <1>4 DEF WizardInv

LEMMA Staying ==
  ASSUME WizardInv, Stay, UNCHANGED <<topicCount, raced, abandoned>>, sectionStatus' \in Status,
         topics' \in [{1, 2} -> Topic], joinedFor' \in Chosen, mappedFor' \in Chosen,
         \A c \in pending' : c \in ClosureType /\ c.step \in {"kafka", "clickhouse", "transformation"},
         FreshInv'
  PROVE  WizardInv'
<1>1. WizardType'
  BY TypesStay DEF WizardInv, WizardType, Stay
<1>2. OrderInv'
  BY SameJourney DEF WizardInv, OrderInv, AllBefore, Before, Stay
<1> QED BY <1>1, <1>2 DEF WizardInv

-----------------------------------------------------------------------------
(* The actions *)

\* The topic step on the screen writes a topic without an event.
LEMMA TopicDropped ==
  ASSUME WizardInv, NEW i \in {1, 2}, OnTopic(i), topics' \in [{1, 2} -> Topic],
         topics'[i].schema = 0, \A j \in {1, 2} : j # i => topics'[j] = topics[j],
         UNCHANGED <<topicCount, activeStep, originalTopic, joinedFor, mappedFor, abandoned>>
  PROVE  FreshInv'
<1> SUFFICES ASSUME ~abandoned PROVE FreshInv'
  BY DEF FreshInv
<1>0. 1..topicCount \subseteq {1, 2} /\ topicCount \in Nat
  BY DEF WizardInv, WizardType
<1>1. /\ \A j \in {1, 2} : OnTopic(j) <=> j = i
      /\ \A j \in {1, 2} : OnTopic(j)' <=> j = i
  BY DEF OnTopic
<1>2. CASE originalTopic # NoTopic
  <2>1. Effective' = Effective
    BY <1>0, <1>1, <1>2 DEF Effective
  <2> QED BY <1>1, <1>2, <2>1 DEF WizardInv, FreshInv
<1>3. CASE originalTopic = NoTopic
  <2>1. CASE i <= topicCount
    BY <1>1, <1>3, <2>1 DEF WizardInv, FreshInv
  <2>2. CASE ~(i <= topicCount)
    <3>1. Effective' = Effective
      BY <1>0, <1>1, <1>3, <2>2 DEF Effective
    <3> QED BY <1>1, <1>3, <2>2, <3>1 DEF WizardInv, FreshInv
  <2> QED BY <2>1, <2>2
<1> QED BY <1>2, <1>3

LEMMA TopicStepIs ==
  ASSUME activeStep \in TopicSteps
  PROVE  TopicIndex(activeStep) \in {1, 2} /\ OnTopic(TopicIndex(activeStep))
BY DEF TopicIndex, OnTopic

LEMMA StatusWords == {"valid", "invalidated", "not-configured"} \subseteq SectionStatuses
BY DEF SectionStatuses

LEMMA SelectKeeps ==
  ASSUME WizardInv, NEW name \in TopicNames, SelectTopic(name)
  PROVE  WizardInv'
<1> DEFINE i == TopicIndex(activeStep)
           t == [name |-> name, schema |-> 0]
<1>1. i \in {1, 2} /\ OnTopic(i)
  BY TopicStepIs DEF SelectTopic
<1>2. t \in Topic /\ t.schema = 0
  BY WizardAssumption DEF Topic
<1>3. topics' = [topics EXCEPT ![i] = t]
  BY DEF SelectTopic
<1> HIDE DEF i, t
<1>4. /\ topics' \in [{1, 2} -> Topic] /\ topics'[i].schema = 0
      /\ \A j \in {1, 2} : j # i => topics'[j] = topics[j]
  BY <1>1, <1>2, <1>3 DEF WizardInv, WizardType
<1>5. FreshInv'
  BY <1>1, <1>4, TopicDropped DEF SelectTopic
<1>6. sectionStatus' \in Status
  BY MarkedIs, StatusWords DEF SelectTopic, WizardInv, WizardType
<1> QED BY <1>4, <1>5, <1>6, Staying DEF SelectTopic, Stay, WizardInv, WizardType

LEMMA OffsetKeeps ==
  ASSUME WizardInv, HandleOffsetChange
  PROVE  WizardInv'
<1> DEFINE i == TopicIndex(activeStep)
<1>1. i \in {1, 2} /\ OnTopic(i)
  BY TopicStepIs DEF HandleOffsetChange
<1>2. topics' = [topics EXCEPT ![i].schema = 0]
  BY DEF HandleOffsetChange
<1> HIDE DEF i
<1>3. topics[i] \in Topic /\ [topics[i] EXCEPT !.schema = 0] \in Topic
  BY <1>1, WizardAssumption DEF WizardInv, WizardType, Topic
<1>4. /\ topics' \in [{1, 2} -> Topic] /\ topics'[i].schema = 0
      /\ \A j \in {1, 2} : j # i => topics'[j] = topics[j]
  BY <1>1, <1>2, <1>3 DEF WizardInv, WizardType, Topic
<1>5. FreshInv'
  BY <1>1, <1>4, TopicDropped DEF HandleOffsetChange, Stay
<1>6. sectionStatus' \in Status
  BY MarkedIs, StatusWords DEF HandleOffsetChange, WizardInv, WizardType
<1> QED BY <1>4, <1>5, <1>6, Staying DEF HandleOffsetChange, WizardInv, WizardType

\* A submitted topic is the one the step was entered with, or resets what was made from it.
LEMMA SubmitSettles ==
  ASSUME WizardInv, NEW schema \in 1..MaxSchema, SubmitTopic(schema), ~abandoned
  PROVE  Settled(topics', joinedFor', mappedFor')
<1> DEFINE i == TopicIndex(activeStep)
           new == [name |-> topics[i].name, schema |-> schema]
           old == PreviousTopic(new)
<1>0. 1..topicCount \subseteq {1, 2} /\ schema # 0 /\ topics \in [{1, 2} -> Topic]
      /\ topicCount \in Nat /\ NoTopic.schema = 0
  BY WizardAssumption DEF WizardInv, WizardType, NoTopic
<1>1. i \in {1, 2} /\ OnTopic(i) /\ \A j \in {1, 2} : OnTopic(j) <=> j = i
  BY TopicStepIs DEF SubmitTopic, OnTopic
<1>2. topics' = [topics EXCEPT ![i] = new] /\ new.schema = schema
  BY DEF SubmitTopic
<1>3. originalTopic # NoTopic => originalTopic.schema # 0 /\ old = originalTopic
  BY <1>1 DEF WizardInv, FreshInv, PreviousTopic
<1>4. \/ new = old /\ UNCHANGED <<joinedFor, mappedFor>>
      \/ joinedFor' = Nowhere /\ mappedFor' = Nowhere
  BY DEF SubmitTopic
<1> HIDE DEF new, old, i
<1>5. topics'[i] = new /\ \A j \in {1, 2} : j # i => topics'[j] = topics[j]
  BY <1>0, <1>1, <1>2
<1>6. \A j \in {1, 2} : topics'[j].schema = 0 => topics'[j] = NoTopic
  BY <1>0, <1>1, <1>2, <1>5 DEF WizardInv, FreshInv
<1>7. CASE joinedFor' = Nowhere /\ mappedFor' = Nowhere
  BY <1>6, <1>7 DEF Settled
<1>8. CASE new = old /\ UNCHANGED <<joinedFor, mappedFor>>
  <2> DEFINE T == [j \in 1..topicCount |-> topics'[j]]
  <2>1. CASE originalTopic # NoTopic
    <3>1. Effective = T
      BY <1>0, <1>1, <1>3, <1>5, <1>8, <2>1 DEF Effective
    <3>2. \A j \in 1..topicCount : T[j] = topics'[j]
      OBVIOUS
    <3>3. {joinedFor', mappedFor'} \subseteq {Nowhere, T}
      BY <1>8, <3>1 DEF WizardInv, FreshInv
    <3>4. {joinedFor', mappedFor'} # {Nowhere} => \A j \in 1..topicCount : topics'[j].schema # 0
      BY <1>8, <3>1, <3>2 DEF WizardInv, FreshInv
    <3> QED BY <1>6, <3>3, <3>4 DEF Settled
  <2>2. CASE originalTopic = NoTopic
    <3>1. CASE i <= topicCount
      <4>1. joinedFor' = Nowhere /\ mappedFor' = Nowhere
        BY <1>1, <1>8, <2>2, <3>1 DEF WizardInv, FreshInv
      <4> QED BY <1>7, <4>1
    <3>2. CASE ~(i <= topicCount)
      <4>1. Effective = T
        BY <1>0, <1>1, <1>5, <2>2, <3>2 DEF Effective
      <4>2. \A j \in 1..topicCount : T[j] = topics'[j]
        OBVIOUS
      <4>3. {joinedFor', mappedFor'} \subseteq {Nowhere, T}
        BY <1>8, <4>1 DEF WizardInv, FreshInv
      <4>4. {joinedFor', mappedFor'} # {Nowhere} => \A j \in 1..topicCount : topics'[j].schema # 0
        BY <1>8, <4>1, <4>2 DEF WizardInv, FreshInv
      <4> QED BY <1>6, <4>3, <4>4 DEF Settled
    <3> QED BY <3>1, <3>2
  <2> QED BY <2>1, <2>2
<1> QED BY <1>4, <1>7, <1>8

LEMMA NotLast ==
  /\ \A step \in {"topic1", "topic2", "types1", "types2", "dedup1", "dedup2", "kafka", "filter",
                    "transformation", "join", "clickhouse", "mapper"} : step # LastStep
  /\ PreviewModeEnabled => "resources" # LastStep
BY DEF LastStep

LEMMA SubmitKeeps ==
  ASSUME WizardInv, NEW schema \in 1..MaxSchema, SubmitTopic(schema)
  PROVE  WizardInv'
<1> DEFINE i == TopicIndex(activeStep)
           new == [name |-> topics[i].name, schema |-> schema]
<1>0. i \in {1, 2} /\ topics \in [{1, 2} -> Topic]
  BY TopicStepIs DEF SubmitTopic, WizardInv, WizardType
<1>1. new \in Topic
  BY <1>0, WizardAssumption DEF Topic
<1>2. topics' = [topics EXCEPT ![i] = new]
  BY DEF SubmitTopic
<1> HIDE DEF new, i
<1>3. topics' \in [{1, 2} -> Topic]
  BY <1>0, <1>1, <1>2
<1>4. sectionStatus' \in Status
  BY MarkedIs, StatusWords DEF SubmitTopic, WizardInv, WizardType
<1>5. joinedFor' \in Chosen /\ mappedFor' \in Chosen
  BY DEF SubmitTopic, WizardInv, WizardType, Chosen
<1>6. activeStep # LastStep
  BY NotLast DEF SubmitTopic, TopicSteps
<1> QED BY <1>3, <1>4, <1>5, <1>6, SubmitSettles, Completing DEF SubmitTopic

\* A completed step that is no topic step.
LEMMA CompleteKeeps ==
  ASSUME WizardInv, NEW step, step \notin TopicSteps, step # LastStep, NEW s \in Status,
         Complete(step, s), joinedFor' \in Chosen, mappedFor' \in Chosen,
         ~abandoned => Settled(topics, joinedFor', mappedFor')
  PROVE  WizardInv'
BY Completing DEF Complete, WizardInv, WizardType

LEMMA NoTopicStepSettles ==
  ASSUME WizardInv, activeStep \notin TopicSteps, ~abandoned
  PROVE  Settled(topics, joinedFor, mappedFor)
BY LeavingSettles DEF WizardInv, LeavesTopicUnsubmitted

LEMMA UnchangedCompletes ==
  ASSUME WizardInv, NEW step, step \notin TopicSteps, step # LastStep, NEW s \in Status,
         Complete(step, s), UNCHANGED <<joinedFor, mappedFor>>
  PROVE  WizardInv'
<1>1. activeStep \notin TopicSteps
  BY DEF Complete
<1> QED BY <1>1, CompleteKeeps, NoTopicStepSettles DEF WizardInv, WizardType

LEMMA SimpleKeeps ==
  ASSUME WizardInv, ConfigureTopic \/ CompleteFilter \/ SkipTransformation \/ SaveResources
  PROVE  WizardInv'
<1>0. sectionStatus \in Status
  BY DEF WizardInv, WizardType
<1>1. CASE ConfigureTopic
  BY <1>0, <1>1, NotLast, ConfiguredIs, UnchangedCompletes DEF ConfigureTopic, TopicSteps
<1>2. CASE CompleteFilter
  <2>1. PICK s \in {sectionStatus, Marked(sectionStatus, {"filter"}, "valid")} : Complete("filter", s)
    BY <1>2 DEF CompleteFilter
  <2>2. s \in Status
    BY <1>0, MarkedIs, StatusWords
  <2> QED BY <1>2, <2>1, <2>2, NotLast, UnchangedCompletes DEF CompleteFilter, TopicSteps
<1>3. CASE SkipTransformation
  BY <1>0, <1>3, NotLast, ConfiguredIs, UnchangedCompletes DEF SkipTransformation, TopicSteps
<1>4. CASE SaveResources
  BY <1>0, <1>4, NotLast, UnchangedCompletes DEF SaveResources, TopicSteps
<1> QED BY <1>1, <1>2, <1>3, <1>4

LEMMA InUseIs ==
  WizardType => TopicsInUse \in Chosen /\ TopicsInUse = [i \in 1..topicCount |-> topics[i]]
<1> SUFFICES ASSUME WizardType
             PROVE  TopicsInUse \in Chosen /\ TopicsInUse = [i \in 1..topicCount |-> topics[i]]
  OBVIOUS
<1>1. 1..topicCount \subseteq {1, 2}
  BY DEF WizardType
<1> QED BY <1>1 DEF WizardType, TopicsInUse, Chosen

LEMMA JoinKeeps ==
  ASSUME WizardInv, SubmitJoin
  PROVE  WizardInv'
<1>0. activeStep = "join" /\ activeStep \notin TopicSteps /\ 1..topicCount \subseteq {1, 2}
  BY DEF SubmitJoin, Complete, TopicSteps, WizardInv, WizardType
<1>1. OnSectionConfigured(sectionStatus, "join") \in Status
  BY ConfiguredIs DEF WizardInv, WizardType
<1>2. joinedFor' = [i \in 1..topicCount |-> topics[i]] /\ joinedFor' \in Chosen
      /\ mappedFor' = mappedFor /\ mappedFor \in Chosen
  BY InUseIs DEF SubmitJoin, WizardInv, WizardType
<1>3. ASSUME ~abandoned PROVE Settled(topics, joinedFor', mappedFor')
  <2>1. Settled(topics, joinedFor, mappedFor)
    BY <1>0, <1>3, NoTopicStepSettles
  <2>2. \A i \in {1, 2} : topics[i].schema # 0
    BY <2>1 DEF Settled, SubmitJoin, NoTopic
  <2> QED BY <1>0, <1>2, <2>1, <2>2 DEF Settled
<1> QED BY <1>0, <1>1, <1>2, <1>3, NotLast, CompleteKeeps DEF SubmitJoin

\* The mapping as the mapper step has it.
LEMMA MappingIs ==
  ASSUME WizardInv, CanMap, activeStep = "mapper"
  PROVE  Mapping \in Chosen /\ (~abandoned => Settled(topics, joinedFor, Mapping))
<1>0. activeStep \notin TopicSteps /\ WizardType
  BY DEF TopicSteps, WizardInv
<1>1. Mapping \in Chosen
  BY <1>0, InUseIs DEF Mapping, WizardType
<1>2. ASSUME ~abandoned PROVE Settled(topics, joinedFor, Mapping)
  <2>1. Settled(topics, joinedFor, mappedFor)
    BY <1>0, <1>2, NoTopicStepSettles
  <2>2. CASE mappedFor # Nowhere
    BY <2>1, <2>2 DEF Mapping
  <2>3. CASE mappedFor = Nowhere
    <3>1. \A i \in 1..topicCount : topics[i].schema # 0
      BY <2>3 DEF CanMap
    <3>2. Mapping = [i \in 1..topicCount |-> topics[i]]
      BY <1>0, <2>3, InUseIs DEF Mapping
    <3> QED BY <2>1, <3>1, <3>2 DEF Settled
  <2> QED BY <2>2, <2>3
<1> QED BY <1>1, <1>2

LEMMA MapKeeps ==
  ASSUME WizardInv, SaveMapping
  PROVE  WizardInv'
<1>0. activeStep = "mapper" /\ CanMap /\ mappedFor' = Mapping /\ joinedFor' = joinedFor
  BY DEF SaveMapping, Complete
<1>1. Marked(sectionStatus, {"mapper"}, "valid") \in Status /\ joinedFor \in Chosen
  BY MarkedIs, StatusWords DEF WizardInv, WizardType
<1> QED BY <1>0, <1>1, MappingIs, NotLast, CompleteKeeps DEF SaveMapping, TopicSteps

\* What a settled state without a topic step says of what was made.
LEMMA SettledIsFresh ==
  ASSUME WizardType, activeStep \notin TopicSteps,
         UNCHANGED <<topicCount, activeStep, originalTopic, topics, abandoned>>,
         ~abandoned => Settled(topics, joinedFor', mappedFor')
  PROVE  FreshInv'
<1> SUFFICES ASSUME ~abandoned PROVE FreshInv'
  BY DEF FreshInv
<1>1. \A i \in {1, 2} : ~OnTopic(i)'
  BY DEF OnTopic
<1>2. 1..topicCount \subseteq {1, 2}
  BY DEF WizardType
<1> DEFINE T == [i \in 1..topicCount |-> topics[i]]
<1>3. Effective' = T
  BY <1>1, <1>2 DEF Effective
<1>4. \A i \in 1..topicCount : T[i] = topics[i]
  OBVIOUS
<1>5. {joinedFor', mappedFor'} \subseteq {Nowhere, T}
  BY DEF Settled
<1> HIDE DEF T
<1>6. {joinedFor', mappedFor'} # {Nowhere} => \A i \in 1..topicCount : T[i].schema # 0
  BY <1>4 DEF Settled
<1>7. \A i \in {1, 2} : topics[i].schema = 0 => topics[i] = NoTopic
  BY DEF Settled
<1> QED BY <1>1, <1>3, <1>5, <1>6, <1>7 DEF FreshInv

LEMMA EditKeeps ==
  ASSUME WizardInv, EditMapping \/ EditSection
  PROVE  WizardInv'
<1>0. activeStep \notin TopicSteps /\ WizardType
  BY DEF EditMapping, EditSection, TopicSteps, WizardInv
<1>1. sectionStatus' \in Status
  BY MarkedIs, StatusWords DEF EditMapping, EditSection, WizardInv, WizardType
<1>2. /\ joinedFor' \in Chosen /\ mappedFor' \in Chosen
      /\ ~abandoned => Settled(topics, joinedFor', mappedFor')
  <2>1. CASE EditMapping
    <3>1. activeStep = "mapper" /\ CanMap /\ mappedFor' = Mapping /\ joinedFor' = joinedFor
      BY <2>1 DEF EditMapping
    <3> QED BY <1>0, <3>1, MappingIs DEF WizardType
  <2>2. CASE EditSection
    <3>1. mappedFor' = mappedFor /\ joinedFor' = joinedFor
      BY <2>2 DEF EditSection
    <3> QED BY <1>0, <3>1, NoTopicStepSettles DEF WizardType
  <2> QED BY <2>1, <2>2
<1>3. Stay /\ UNCHANGED <<topicCount, topics, pending, raced, abandoned>>
  BY DEF EditMapping, EditSection
<1>4. FreshInv'
  BY <1>0, <1>2, <1>3, SettledIsFresh DEF Stay
<1> QED BY <1>0, <1>1, <1>2, <1>3, <1>4, Staying DEF WizardType

LEMMA WaitKeeps ==
  ASSUME WizardInv, Ask \/ \E c \in pending : AnswerBad(c)
  PROVE  WizardInv'
<1>0. UNCHANGED <<topicCount, activeStep, completedSteps, resumeStep, sectionStatus, topics,
                  originalTopic, joinedFor, mappedFor, raced, abandoned>>
  BY DEF Ask, AnswerBad
<1>1. WizardType /\ FreshInv
  BY DEF WizardInv
<1>2. FreshInv'
  BY <1>0, <1>1 DEF FreshInv, Effective, OnTopic
<1>3. \A c \in pending' :
        c \in ClosureType /\ c.step \in {"kafka", "clickhouse", "transformation"}
  BY <1>1, ClosureIs DEF Ask, AnswerBad, WizardType
<1> QED BY <1>0, <1>1, <1>2, <1>3, Staying DEF Stay, WizardType

LEMMA SidebarKeeps ==
  ASSUME WizardInv, NEW target \in completedSteps, HandleSidebarStepClick(target)
  PROVE  WizardInv'
<1>0. /\ WizardType /\ OrderInv /\ FreshInv /\ IndexGood /\ target \in Steps
      /\ Go(target) /\ UNCHANGED <<topicCount, completedSteps, sectionStatus, topics, joinedFor,
                                  mappedFor, pending, raced>>
      /\ abandoned' = (abandoned \/ LeavesTopicUnsubmitted)
  BY Indexed DEF WizardInv, WizardType, HandleSidebarStepClick
<1>1. activeStep' = target /\ originalTopic' \in Topic
  BY <1>0, GoTyped DEF WizardType
<1>2. resumeStep' \in {activeStep, resumeStep, Nowhere}
  BY DEF HandleSidebarStepClick
<1>3. WizardType'
  BY <1>0, <1>1, <1>2, TypesStay DEF WizardType, LeavesTopicUnsubmitted
<1>4. \A s \in Steps : (AllBefore(s))' <=> AllBefore(s)
  BY <1>0, SameJourney DEF AllBefore, Before
<1>5. OrderInv'
  <2> SUFFICES ASSUME ~raced PROVE OrderInv'
    BY <1>0 DEF OrderInv
  <2>1. AllBefore(target) /\ AllBefore(activeStep) /\ (resumeStep # Nowhere => AllBefore(resumeStep))
        /\ \A d \in completedSteps : AllBefore(d)
    BY <1>0 DEF OrderInv
  <2>2. \A d \in completedSteps' : (AllBefore(d))'
    BY <1>0, <1>4, <2>1 DEF WizardType
  <2>3. (AllBefore(activeStep))' <=> AllBefore(target)
    BY <1>0, <1>1, SameJourney DEF AllBefore, Before
  <2>4. resumeStep' # Nowhere => (AllBefore(resumeStep))'
    BY <1>0, <1>2, <2>1, SameJourney DEF AllBefore, Before
  <2> QED BY <2>1, <2>2, <2>3, <2>4 DEF OrderInv
<1>6. FreshInv'
  <2>1. CASE abandoned'
    BY <2>1 DEF FreshInv
  <2>2. CASE ~abandoned'
    <3>1. Settled(topics, joinedFor, mappedFor)
      BY <1>0, <2>2, LeavingSettles
    <3>2. Settled(topics', joinedFor', mappedFor')
      BY <1>0, <3>1
    <3> QED BY <1>0, <3>2, GoFresh DEF WizardType
  <2> QED BY <2>1, <2>2
<1> QED BY <1>3, <1>5, <1>6 DEF WizardInv

LEMMA AnswerKeeps ==
  ASSUME WizardInv, NEW c \in pending, AnswerGood(c)
  PROVE  WizardInv'
<1>0. /\ WizardType /\ OrderInv /\ FreshInv /\ c \in ClosureType
      /\ c.step \in {"kafka", "clickhouse", "transformation"}
      /\ UNCHANGED <<topicCount, topics, joinedFor, mappedFor>> /\ HandleNext(c)
      /\ raced' = (raced \/ c # Closure)
      /\ abandoned' = (abandoned \/ LeavesTopicUnsubmitted) /\ pending' \subseteq pending
  BY DEF WizardInv, WizardType, AnswerGood
<1>1. c.step # LastStep
  BY <1>0, NotLast
<1>2. MovesTyped
  BY <1>0, <1>1, HandleNextTyped DEF WizardType
<1>3. sectionStatus' \in Status
  BY MarkedIs, StatusWords DEF AnswerGood, WizardInv, WizardType
<1>4. WizardType'
  BY <1>0, <1>2, <1>3, TypesStay DEF WizardType, MovesTyped, LeavesTopicUnsubmitted
<1>5. OrderInv'
  <2>1. CASE raced'
    BY <2>1 DEF OrderInv
  <2>2. CASE ~raced'
    <3>1. ~raced /\ c = Closure
      BY <1>0, <2>2
    <3> QED BY <1>0, <1>1, <3>1, ClosureIs, HandleNextOrdered
  <2> QED BY <2>1, <2>2
<1>6. FreshInv'
  <2>1. CASE abandoned'
    BY <2>1 DEF FreshInv
  <2>2. CASE ~abandoned'
    <3>1. Settled(topics, joinedFor, mappedFor)
      BY <1>0, <2>2, LeavingSettles
    <3>2. Settled(topics', joinedFor', mappedFor')
      BY <1>0, <3>1
    <3> QED BY <1>0, <3>2, HandleNextGoesSomewhere, GoFresh DEF WizardType
  <2> QED BY <2>1, <2>2
<1> QED BY <1>4, <1>5, <1>6 DEF WizardInv

LEMMA WizardStarts == WizardInit => WizardInv
<1> SUFFICES ASSUME WizardInit PROVE WizardInv
  OBVIOUS
<1>0. topicCount \in {1, 2} /\ IndexGood
  BY WizardAssumption, Indexed DEF WizardInit
<1>1. "kafka" \in Steps /\ IndexOf("kafka") = 1
  BY <1>0 DEF IndexGood
<1>2. NoTopic \in Topic /\ NoTopic.schema = 0
  BY WizardAssumption DEF NoTopic, Topic
<1>3. WizardType
  BY <1>0, <1>1, <1>2, StatusWords DEF WizardInit, WizardType, Status, Chosen
<1>4. OrderInv
  <2>1. \A s \in Steps : ~(IndexOf(s) < 1)
    BY <1>0 DEF IndexGood
  <2> QED BY <1>1, <2>1 DEF WizardInit, OrderInv, AllBefore, Before
<1>5. FreshInv
  BY <1>2 DEF WizardInit, FreshInv, OnTopic, TopicSteps
<1> QED BY <1>3, <1>4, <1>5 DEF WizardInv

LEMMA WizardSteps == WizardInv /\ [WizardNext]_wizardVars => WizardInv'
<1> SUFFICES ASSUME WizardInv, [WizardNext]_wizardVars PROVE WizardInv'
  OBVIOUS
<1>1. CASE UNCHANGED wizardVars
  <2>1. UNCHANGED <<topicCount, activeStep, completedSteps, resumeStep, sectionStatus, topics,
                    originalTopic, joinedFor, mappedFor, pending, raced, abandoned>>
    BY <1>1 DEF wizardVars
  <2>2. FreshInv'
    BY <2>1 DEF WizardInv, FreshInv, Effective, OnTopic
  <2> QED BY <2>1, <2>2, Staying DEF WizardInv, WizardType, Stay
<1>2. CASE \/ \E target \in completedSteps : HandleSidebarStepClick(target)
           \/ \E name \in TopicNames : SelectTopic(name)
           \/ \E schema \in 1..MaxSchema : SubmitTopic(schema)
           \/ HandleOffsetChange
  BY <1>2, SidebarKeeps, SelectKeeps, SubmitKeeps, OffsetKeeps
<1>3. CASE \/ ConfigureTopic \/ CompleteFilter \/ SkipTransformation \/ SaveResources
           \/ EditSection \/ EditMapping \/ SubmitJoin \/ SaveMapping
  BY <1>3, SimpleKeeps, EditKeeps, JoinKeeps, MapKeeps
<1>4. CASE \/ Ask \/ (\E c \in pending : AnswerGood(c)) \/ (\E c \in pending : AnswerBad(c))
  BY <1>4, WaitKeeps, AnswerKeeps
<1> QED BY <1>1, <1>2, <1>3, <1>4 DEF WizardNext

\* The invariant of the wizard: the order of its steps and the provenance of its join and mapping.
THEOREM WizardInvariant == WizardSpec => []WizardInv
BY WizardStarts, WizardSteps, PTL DEF WizardSpec

\* The variables of the wizard keep their types: the step on the screen, the completed ones and
\* the resume target are always steps of the journey of its topic count.
THEOREM WizardTypeCorrect == WizardSpec => []WizardTypeOK
<1>1. WizardInv => WizardTypeOK
  BY DEF WizardInv, WizardType, WizardTypeOK, Steps, Status, Chosen, ClosureType
<1> QED BY <1>1, WizardInvariant, PTL

\* For every number of topics, every choice of steps that are shown and any number of moves: the
\* user is never on a step with one before it that is not completed, unless an answer found the
\* wizard changed (handleSmartContinue, removeCompletedStepsAfterId, handleSidebarNavigation).
THEOREM StepsInOrder == WizardSpec => []NoStepSkipped
<1>1. WizardInv => NoStepSkipped
  BY DEF WizardInv, OrderInv, AllBefore, NoStepSkipped, Steps
<1> QED BY <1>1, WizardInvariant, PTL

\* For any topics and any order of changes to them: a join or a mapping outlives neither the
\* topics nor the event shapes it was made from, unless a picked topic was left without Continue
\* (executeTopicSubmitAndInvalidation).
THEOREM JoinAndMappingAreFresh == WizardSpec => []NothingStale
<1>1. WizardInv => NothingStale
  <2> SUFFICES ASSUME WizardInv, ~abandoned, \A i \in 1..topicCount : topics[i].schema # 0
               PROVE  {joinedFor, mappedFor} \subseteq {Nowhere, TopicsInUse}
    BY DEF NothingStale
  <2>1. 1..topicCount \subseteq {1, 2}
    BY DEF WizardInv, WizardType
  <2>2. \A i \in 1..topicCount : OnTopic(i) /\ originalTopic # NoTopic => topics[i] = originalTopic
    BY <2>1 DEF WizardInv, FreshInv
  <2>3. Effective = TopicsInUse
    BY <2>2 DEF Effective, TopicsInUse
  <2> QED BY <2>3 DEF WizardInv, FreshInv
<1> QED BY <1>1, WizardInvariant, PTL

-----------------------------------------------------------------------------
(* Viewing and editing deployed pipelines (EditSession). *)

\* What a resume sends as the user made it, and what a session compares.
Compared == ConfigSections \ Kept

CoreType == [id : SessionPipelines \cup {NoPage}, mode : {"create", "view", "edit"},
             isDirty : BOOLEAN, lastSaved : Configuration, raw : BOOLEAN]

RequestType == [of : SessionPipelines, id : SessionPipelines,
                sent : Configuration, saved : BOOLEAN]

SessionType ==
  /\ deployed \in [SessionPipelines -> Configuration]
  /\ page \in SessionPipelines \cup {NoPage}
  /\ editing \in BOOLEAN /\ (editing => page # NoPage)
  /\ store \in Configuration
  /\ core \in CoreType /\ (core.id = NoPage => core.lastSaved = Empty)
  /\ hydratedKey \in SessionPipelines \cup {NoPage}
  /\ jobs \subseteq Job
  /\ request \in RequestType \cup {NoRequest}
  /\ saves \in 0..MaxSaves /\ visits \in 0..MaxVisits
  /\ intended \in [SessionPipelines -> Configuration]
  /\ disturbed \in BOOLEAN

\* The compared sections that the stages left of a hydration write.
Writes(job) ==
  (IF job.stage = "topics" THEN {"firstTopic"} ELSE {}) \cup
  (IF job.stage = "rest" \/ (job.stage = "topics" /\ job.all)
     THEN {"join", "filter", "destination"} ELSE {})

\* Configuration c holds in section s what the user made of pipeline p.
AsMade(c, s, p) == c[s] = intended[p][s] \/ (p \in RawPipelines /\ c[s] = NotConfigured)

\* A configuration that is of pipeline p.
Of(c, p) == c["firstTopic"] # NotConfigured /\ c["firstTopic"].of = p

Owned ==
  /\ \A p \in SessionPipelines : Of(deployed[p], p) /\ Of(intended[p], p)
  /\ core.id # NoPage => Of(core.lastSaved, core.id)
  /\ core.raw => core.id \in RawPipelines

\* The first state, and none after a page was opened.
Untouched ==
  core.id = NoPage \/ core.mode = "create" =>
    /\ page = NoPage /\ core.id = NoPage /\ core.mode = "create" /\ ~core.isDirty
    /\ hydratedKey = NoPage /\ jobs = {} /\ request = NoRequest /\ ~editing

\* Every hydration writes the configuration that the mode was entered with, and that is what
\* the user made of what it still has to write.
OneSource ==
  \A job \in jobs :
    /\ job.of = core.id /\ job.config = core.lastSaved
    /\ (job.raw => core.id \in RawPipelines) /\ (job.view => job.all)
    /\ \A s \in Writes(job) \cup (IF job.stage = "destination" THEN {"destination"} ELSE {}) :
         job.config[s] = intended[core.id][s]

\* The list of pipelines is shown and the stores were reset: opening a page hydrates.
Emptied ==
  /\ page = NoPage /\ ~core.isDirty /\ core.mode = "view" /\ request = NoRequest
  /\ store["firstTopic"] = NotConfigured
  /\ \A job \in jobs : job.stage # "topics"

\* The stores hold what the user made of the pipeline, or a hydration will write it.
StoreIsMade ==
  core.id # NoPage =>
    \/ \A s \in Compared : AsMade(store, s, core.id) \/ \E job \in jobs : s \in Writes(job)
    \/ Emptied

\* A resume under way.
Resuming ==
  request # NoRequest =>
    IF request.saved
      THEN /\ deployed[request.of] = request.sent
           /\ \A s \in Compared : AsMade(request.sent, s, request.of)
           /\ \A job \in jobs : job.all
           /\ ~core.isDirty
           /\ core.mode = "edit" => core.id = request.of
      ELSE jobs = {} /\ core.isDirty /\ core.id = request.id /\ store = request.sent

\* A clean view is of what is deployed; its form was opened on that.
ViewIsFresh ==
  core.mode = "view" =>
    /\ ~core.isDirty /\ core.id \notin RawPipelines =>
         \A s \in Compared : intended[core.id][s] = deployed[core.id][s]
    /\ editing => ~core.isDirty /\ core.lastSaved = deployed[core.id]
    /\ hydratedKey # NoPage => hydratedKey = core.id \/ \E job \in jobs : job.view

Calm ==
  /\ Owned /\ Untouched /\ OneSource /\ StoreIsMade /\ Resuming /\ ViewIsFresh

SessionInv == SessionType /\ Untouched /\ (~disturbed => Calm)

-----------------------------------------------------------------------------
LEMMA NoRequestIsNone ==
  NoRequest \notin RequestType
BY SessionAssumption DEF NoRequest, RequestType

LEMMA ContentType ==
  /\ \A p \in SessionPipelines, n \in 0..MaxSaves : [of |-> p, edit |-> n] \in Content
  /\ \A p \in SessionPipelines, n \in 0..MaxSaves : [of |-> p, edit |-> n] # NotConfigured
  /\ NotConfigured \in Content /\ Empty \in Configuration
BY SessionAssumption DEF Content, Empty, Configuration

LEMMA InitTyped == SessionInit => SessionType
<1> SUFFICES ASSUME SessionInit PROVE SessionType
  OBVIOUS
<1>1. deployed \in [SessionPipelines -> Configuration]
  BY ContentType, SessionAssumption DEF SessionInit, Configuration
<1>2. core \in CoreType /\ (core.id = NoPage => core.lastSaved = Empty)
  BY ContentType DEF SessionInit, CoreType
<1>3. saves \in 0..MaxSaves /\ visits \in 0..MaxVisits
  BY SessionAssumption DEF SessionInit
<1>4. /\ page \in SessionPipelines \cup {NoPage} /\ hydratedKey \in SessionPipelines \cup {NoPage}
      /\ editing \in BOOLEAN /\ (editing => page # NoPage) /\ disturbed \in BOOLEAN
      /\ jobs \subseteq Job /\ request \in RequestType \cup {NoRequest}
  BY DEF SessionInit
<1>5. store \in Configuration /\ intended \in [SessionPipelines -> Configuration]
  BY <1>1, ContentType DEF SessionInit
<1>6. QED
  BY <1>1, <1>2, <1>3, <1>4, <1>5 DEF SessionType

LEMMA EntersTyped ==
  ASSUME SessionType, NEW p \in SessionPipelines, NEW m \in {"view", "edit"},
         NEW raw \in BOOLEAN
  PROVE  /\ Entered(p, m, raw) \in CoreType
         /\ HydrationOf(p, m, raw) \in Job
         /\ [HydrationOf(p, m, raw) EXCEPT !.view = FALSE] \in Job
<1>1. deployed[p] \in Configuration
  BY DEF SessionType
<1>2. Entered(p, m, raw) \in CoreType
  BY <1>1 DEF Entered, CoreType
<1>3. HydrationOf(p, m, raw) \in Job
  BY <1>1 DEF HydrationOf, Job
<1>4. QED
  BY <1>2, <1>3 DEF Job

\* What the effect of a page leaves of the types.
LEMMA EffectTyped ==
  ASSUME SessionType, NEW p \in SessionPipelines \cup {NoPage}, NEW c \in CoreType,
         NEW k \in SessionPipelines \cup {NoPage}, NEW st, NEW j \in SUBSET Job,
         NEW given \in [SessionPipelines -> Configuration], NEW met \in BOOLEAN,
         EffectRuns(p, c, k, st, j, given, met)
  PROVE  /\ core' \in CoreType /\ (core'.id = NoPage => core' = c) /\ jobs' \subseteq Job
         /\ hydratedKey' \in SessionPipelines \cup {NoPage}
         /\ intended' \in [SessionPipelines -> Configuration]
         /\ disturbed' \in BOOLEAN
<1>1. disturbed' \in BOOLEAN
  BY DEF EffectRuns
<1>2. CASE p # NoPage /\ NeedsHydration(p, c, k, st)
  <2>1. p \in SessionPipelines /\ deployed[p] \in Configuration
    BY <1>2 DEF SessionType
  <2>2. Entered(p, "view", FALSE) \in CoreType /\ HydrationOf(p, "view", FALSE) \in Job
    BY <2>1, EntersTyped
  <2>3. core' \in CoreType /\ core'.id = p
    <3>1. core' = Entered(p, "view", FALSE)
      BY <1>2 DEF EffectRuns
    <3>2. Entered(p, "view", FALSE).id = p
      BY DEF Entered
    <3>3. QED
      BY <2>2, <3>1, <3>2
  <2>4. jobs' \subseteq Job
    BY <1>2, <2>2 DEF EffectRuns
  <2>5. /\ hydratedKey' \in SessionPipelines \cup {NoPage}
        /\ intended' \in [SessionPipelines -> Configuration]
    BY <1>2, <2>1 DEF EffectRuns
  <2>6. QED
    BY <1>1, <1>2, <2>3, <2>4, <2>5
<1>3. CASE ~(p # NoPage /\ NeedsHydration(p, c, k, st))
  BY <1>1, <1>3 DEF EffectRuns
<1>4. QED
  BY <1>2, <1>3

LEMMA HydrationTyped ==
  ASSUME SessionType, NEW job \in jobs, HydrationStep(job)
  PROVE  SessionType'
<1>1. job \in Job /\ job.config \in Configuration /\ store \in Configuration
  BY DEF SessionType, Job
<1>2. jobs' \subseteq Job
  <2>1. \A st \in {"topics", "rest", "destination"} : [job EXCEPT !.stage = st] \in Job
    BY <1>1 DEF Job
  <2>2. QED
    BY <2>1, <1>1 DEF HydrationStep, SessionType
<1>3. Hydrated(store, job) \in Configuration
  <2>1. job.stage \in {"topics", "rest", "destination"}
    BY <1>1 DEF Job
  <2>2. \A f \in Configuration : \A s \in ConfigSections : f[s] \in Content
    BY DEF Configuration
  <2>3. \A f \in Configuration : \A s \in ConfigSections : \A v \in Content :
           [f EXCEPT ![s] = v] \in Configuration
    BY DEF Configuration
  <2>4. {"firstTopic", "secondTopic", "deduplication", "join", "filter", "destination"}
          = ConfigSections /\ NotConfigured \in Content
    BY ContentType DEF ConfigSections
  <2>5. CASE job.stage = "topics"
    BY <2>2, <2>3, <2>4, <2>5, <1>1 DEF Hydrated
  <2>6. CASE job.stage = "rest"
    BY <2>2, <2>3, <2>4, <2>6, <1>1 DEF Hydrated
  <2>7. CASE job.stage = "destination"
    BY <2>2, <2>3, <2>4, <2>7, <1>1 DEF Hydrated
  <2>8. QED
    BY <2>1, <2>5, <2>6, <2>7
<1>4. store' \in Configuration
  BY <1>3, <1>1 DEF HydrationStep
<1>5. hydratedKey' \in SessionPipelines \cup {NoPage}
  BY <1>1 DEF HydrationStep, SessionType, Job
<1>6. QED
  BY <1>2, <1>4, <1>5 DEF HydrationStep, SessionType

LEMMA ChangedTyped ==
  ASSUME SessionType, NEW s \in ConfigSections, Changed(s)
  PROVE  /\ store' \in Configuration /\ saves' \in 0..MaxSaves /\ disturbed' \in BOOLEAN
         /\ page \in SessionPipelines /\ [of |-> page, edit |-> saves + 1] \in Content
<1>1. saves + 1 \in 0..MaxSaves
  BY SessionAssumption DEF SessionType, Changed
<1>2. page \in SessionPipelines
  BY DEF SessionType, Changed
<1>3. [of |-> page, edit |-> saves + 1] \in Content
  BY <1>1, <1>2, ContentType
<1>4. store' \in Configuration
  BY <1>3 DEF SessionType, Changed, Configuration
<1>5. disturbed' \in BOOLEAN
  BY DEF Changed, SessionType
<1>6. QED
  BY <1>1, <1>2, <1>3, <1>4, <1>5 DEF Changed

LEMMA OpenTyped ==
  ASSUME SessionType, NEW p \in SessionPipelines, OpenPage(p)
  PROVE  SessionType'
<1>1. EffectRuns(p, core, hydratedKey, store, jobs, intended, disturbed)
  BY DEF OpenPage
<1>2. /\ core' \in CoreType /\ (core'.id = NoPage => core' = core) /\ jobs' \subseteq Job
      /\ hydratedKey' \in SessionPipelines \cup {NoPage}
      /\ intended' \in [SessionPipelines -> Configuration]
      /\ disturbed' \in BOOLEAN
  BY <1>1, EffectTyped DEF SessionType
<1>3. visits' \in 0..MaxVisits
  BY SessionAssumption DEF OpenPage, SessionType
<1>4. QED
  BY <1>2, <1>3, SessionAssumption DEF OpenPage, SessionType

LEMMA ReloadTyped ==
  ASSUME SessionType, Reload
  PROVE  SessionType'
<1> DEFINE c == [core EXCEPT !.mode = "create", !.isDirty = FALSE, !.id = NoPage]
<1>1. EffectRuns(page, c, hydratedKey, Empty, {}, deployed, disturbed)
  BY DEF Reload
<1>2. c \in CoreType /\ c.mode = "create" /\ c.isDirty = FALSE
  BY DEF SessionType, CoreType
<1>3. page \in SessionPipelines /\ page # NoPage
  BY DEF SessionType, Reload
<1>4. NeedsHydration(page, c, hydratedKey, Empty)
  BY <1>2 DEF NeedsHydration, ValidStoreData, Empty, ConfigSections
<1> HIDE DEF c
<1>5. /\ core' \in CoreType /\ jobs' \subseteq Job
      /\ hydratedKey' \in SessionPipelines \cup {NoPage}
      /\ intended' \in [SessionPipelines -> Configuration]
      /\ disturbed' \in BOOLEAN
  <2>1. /\ hydratedKey \in SessionPipelines \cup {NoPage} /\ {} \in SUBSET Job
        /\ deployed \in [SessionPipelines -> Configuration] /\ disturbed \in BOOLEAN
    BY DEF SessionType
  <2>2. QED
    BY <1>1, <1>2, <1>3, <2>1, EffectTyped
<1>6. core'.id # NoPage
  BY <1>1, <1>3, <1>4 DEF EffectRuns, Entered
<1>7. visits' \in 0..MaxVisits
  BY SessionAssumption DEF Reload, SessionType
<1>8. QED
  BY <1>5, <1>6, <1>7, ContentType DEF Reload, SessionType

LEMMA ToggleTyped ==
  ASSUME SessionType, ToggleEditMode
  PROVE  SessionType'
<1>1. page \in SessionPipelines
  BY DEF SessionType, ToggleEditMode
<1>2. CASE core.mode = "edit"
  BY <1>1, <1>2, SessionAssumption DEF SessionType, ToggleEditMode
<1>3. CASE core.mode # "edit"
  <2>1. /\ Entered(page, "edit", page \in RawPipelines) \in CoreType
        /\ HydrationOf(page, "edit", page \in RawPipelines) \in Job
    <3>1. (page \in RawPipelines) \in BOOLEAN
      OBVIOUS
    <3>2. QED
      BY <1>1, <3>1, EntersTyped
  <2>2. intended' \in [SessionPipelines -> Configuration]
    BY <1>1, <1>3 DEF SessionType, ToggleEditMode
  <2>3. core' \in CoreType /\ core'.id # NoPage
    <3>1. core' = Entered(page, "edit", page \in RawPipelines)
      BY <1>3 DEF ToggleEditMode
    <3>2. Entered(page, "edit", page \in RawPipelines).id = page
      BY DEF Entered
    <3>3. QED
      BY <1>1, <2>1, <3>1, <3>2, SessionAssumption
  <2>7. jobs' \subseteq Job
    BY <1>3, <2>1 DEF SessionType, ToggleEditMode
  <2>4. disturbed' \in BOOLEAN
    BY <1>3 DEF SessionType, ToggleEditMode
  <2>5. editing' \in BOOLEAN /\ page' # NoPage
    BY DEF ToggleEditMode
  <2>6. QED
    BY <2>2, <2>3, <2>4, <2>5, <2>7 DEF SessionType, ToggleEditMode
<1>4. QED
  BY <1>2, <1>3

LEMMA ReturnTyped ==
  ASSUME SessionType, ReturnToActive
  PROVE  SessionType'
<1> DEFINE raw == page \in RawPipelines
           p == IF core.mode = "view" THEN NoPage ELSE page
           j == jobs \cup {[HydrationOf(page, "view", raw) EXCEPT !.view = FALSE]}
           given == [intended EXCEPT ![page] = deployed[page]]
           met == disturbed \/ Overlaps(page) \/ core.isDirty \/ core.id # page
<1>1. EffectRuns(p, Entered(page, "view", raw), hydratedKey, store, j, given, met)
  BY DEF ReturnToActive
<1>2. page \in SessionPipelines /\ p \in SessionPipelines \cup {NoPage} /\ raw \in BOOLEAN
  BY DEF SessionType, ReturnToActive
<1>3. Entered(page, "view", raw) \in CoreType /\ j \in SUBSET Job
  <2>1. /\ Entered(page, "view", raw) \in CoreType
        /\ [HydrationOf(page, "view", raw) EXCEPT !.view = FALSE] \in Job
    BY <1>2, EntersTyped
  <2>2. QED
    BY <2>1 DEF SessionType
<1>4. given \in [SessionPipelines -> Configuration] /\ met \in BOOLEAN
  BY <1>2 DEF SessionType
<1>5. /\ core' \in CoreType /\ core'.id # NoPage /\ jobs' \subseteq Job
      /\ hydratedKey' \in SessionPipelines \cup {NoPage}
      /\ intended' \in [SessionPipelines -> Configuration]
      /\ disturbed' \in BOOLEAN
  <2>1. hydratedKey \in SessionPipelines \cup {NoPage}
    BY DEF SessionType
  <2>2. Entered(page, "view", raw).id # NoPage
    BY <1>2, SessionAssumption DEF Entered
  <2> HIDE DEF p, j, given, met, raw
  <2>3. QED
    BY <1>1, <1>2, <1>3, <1>4, <2>1, <2>2, EffectTyped
<1>6. visits' \in 0..MaxVisits
  BY SessionAssumption DEF ReturnToActive, SessionType
<1>7. QED
  BY <1>5, <1>6 DEF ReturnToActive, SessionType

LEMMA DiscardTyped ==
  ASSUME SessionType, NEW s \in ConfigSections, Discard(s)
  PROVE  SessionType'
<1>1. /\ page \in SessionPipelines /\ core.lastSaved \in Configuration
      /\ core.raw \in BOOLEAN /\ store \in Configuration
  BY DEF SessionType, Discard, CoreType
<1>2. \A f \in Configuration : \A x \in ConfigSections : f[x] \in Content
  BY DEF Configuration
<1>3. CASE s = "join"
  <2>1. store' \in Configuration
    BY <1>1, <1>2, <1>3, ContentType DEF Discard, Configuration
  <2>2. intended' \in [SessionPipelines -> Configuration]
    BY <1>1, <1>2, <1>3 DEF Discard, Configuration, SessionType
  <2>3. disturbed' \in BOOLEAN
    BY DEF Discard, SessionType
  <2>4. QED
    BY <1>3, <2>1, <2>2, <2>3 DEF Discard, SessionType
<1>4. CASE s # "join"
  <2> DEFINE job == [of |-> core.id, config |-> core.lastSaved, raw |-> core.raw,
                     view |-> FALSE, stage |-> DiscardedBy(s), all |-> FALSE]
  <2>1. core.id \in SessionPipelines
    BY DEF Discard, SessionType, CoreType
  <2>2. job \in Job
    <3>1. DiscardedBy(s) \in {"topics", "destination"}
      BY <1>4 DEF Discard, DiscardedBy, ConfigSections
    <3>2. QED
      BY <1>1, <2>1, <3>1 DEF Job
  <2>3. jobs' \subseteq Job
    BY <1>4, <2>2 DEF Discard, SessionType
  <2>4. store' \in Configuration
    BY <1>1, <1>2, <1>4 DEF Discard, Configuration
  <2>5. intended' \in [SessionPipelines -> Configuration]
    <3> DEFINE f == [x \in ConfigSections |-> IF x \in Rewritten(s) THEN core.lastSaved[x]
                                               ELSE intended[page][x]]
    <3>1. intended[page] \in Configuration
      BY <1>1 DEF SessionType
    <3>2. f \in Configuration
      BY <1>1, <1>2, <3>1 DEF Configuration
    <3>3. intended' = [intended EXCEPT ![page] = f]
      BY <1>4 DEF Discard
    <3>4. QED
      BY <1>1, <3>2, <3>3 DEF SessionType
  <2>6. disturbed' \in BOOLEAN
    BY DEF Discard, SessionType
  <2>7. QED
    BY <2>3, <2>4, <2>5, <2>6 DEF Discard, SessionType
<1>5. QED
  BY <1>3, <1>4

LEMMA RefetchTyped ==
  ASSUME SessionType, PipelineRefetched
  PROVE  SessionType'
<1> DEFINE c == [core EXCEPT !.mode = "view"]
<1>1. EffectRuns(page, c, NoPage, store', jobs, intended, disturbed)
  BY DEF PipelineRefetched
<1>2. c \in CoreType /\ c.id = core.id /\ c.lastSaved = core.lastSaved
  BY DEF SessionType, CoreType
<1>3. store' \in Configuration
  BY ContentType DEF PipelineRefetched, SessionType, Configuration
<1> HIDE DEF c
<1>4. /\ core' \in CoreType /\ (core'.id = NoPage => core' = c) /\ jobs' \subseteq Job
      /\ hydratedKey' \in SessionPipelines \cup {NoPage}
      /\ intended' \in [SessionPipelines -> Configuration]
      /\ disturbed' \in BOOLEAN
  <2>1. /\ page \in SessionPipelines \cup {NoPage} /\ NoPage \in SessionPipelines \cup {NoPage}
        /\ jobs \in SUBSET Job /\ disturbed \in BOOLEAN
        /\ intended \in [SessionPipelines -> Configuration]
    BY DEF SessionType
  <2>2. QED
    BY <1>1, <1>2, <2>1, EffectTyped
<1>5. QED
  BY <1>2, <1>3, <1>4 DEF PipelineRefetched, SessionType

\* The steps that read and write few things.
LEMMA OthersTyped ==
  ASSUME SessionType, Untouched,
         \/ LeavePage
         \/ \E s \in ConfigSections : Save(s)
         \/ DraftDeduplication
         \/ CloseForm
         \/ ResumeWithPendingEdit
         \/ EditAccepted
         \/ EditFailed
         \/ RefetchFailed
  PROVE  SessionType'
<1>1. CASE LeavePage \/ CloseForm
  BY <1>1 DEF LeavePage, CloseForm, SessionType
<1>7. CASE EditFailed \/ RefetchFailed
  BY <1>7 DEF EditFailed, RefetchFailed, SessionType
<1>2. ASSUME NEW s \in ConfigSections, Save(s) PROVE SessionType'
  <2>1. /\ store' \in Configuration /\ saves' \in 0..MaxSaves /\ disturbed' \in BOOLEAN
        /\ page \in SessionPipelines /\ [of |-> page, edit |-> saves + 1] \in Content
    BY <1>2, ChangedTyped DEF Save
  <2>2. intended' \in [SessionPipelines -> Configuration]
    BY <1>2, <2>1 DEF Save, SessionType, Configuration
  <2>3. core' \in CoreType /\ core'.id = core.id /\ core'.lastSaved = core.lastSaved
    BY <1>2 DEF Save, SessionType, CoreType
  <2>4. QED
    BY <1>2, <2>1, <2>2, <2>3 DEF Save, SessionType
<1>3. CASE DraftDeduplication
  <2>1. store' \in Configuration /\ saves' \in 0..MaxSaves /\ disturbed' \in BOOLEAN
    BY <1>3, ChangedTyped DEF DraftDeduplication, ConfigSections
  <2>2. QED
    BY <1>3, <2>1 DEF DraftDeduplication, SessionType
<1>4. CASE ResumeWithPendingEdit
  <2>1. request' \in RequestType
    BY <1>4 DEF ResumeWithPendingEdit, SessionType, CoreType, RequestType, Untouched
  <2>2. disturbed' \in BOOLEAN
    BY <1>4 DEF ResumeWithPendingEdit, SessionType
  <2>3. QED
    BY <1>4, <2>1, <2>2 DEF ResumeWithPendingEdit, SessionType
<1>5. CASE EditAccepted
  <2>1. request \in RequestType /\ request.sent \in Configuration
    BY <1>5 DEF EditAccepted, SessionType, RequestType
  <2>2. request' \in RequestType
    BY <1>5, <2>1 DEF EditAccepted, RequestType
  <2>3. core' \in CoreType /\ core'.id = core.id /\ core'.lastSaved = core.lastSaved
    BY <1>5 DEF EditAccepted, SessionType, CoreType
  <2>4. deployed' \in [SessionPipelines -> Configuration]
    BY <1>5, <2>1 DEF EditAccepted, SessionType, RequestType
  <2>5. QED
    BY <1>5, <2>2, <2>3, <2>4 DEF EditAccepted, SessionType
<1>6. QED
  BY <1>1, <1>2, <1>3, <1>4, <1>5, <1>7

LEMMA NextTyped ==
  ASSUME SessionType, Untouched, [SessionNext]_sessionVars
  PROVE  SessionType'
<1>1. CASE UNCHANGED sessionVars
  BY <1>1 DEF sessionVars, SessionType
<1>2. CASE SessionNext
  <2>1. CASE \/ LeavePage \/ (\E s \in ConfigSections : Save(s)) \/ DraftDeduplication \/ CloseForm
             \/ ResumeWithPendingEdit \/ EditAccepted \/ EditFailed \/ RefetchFailed
    BY <2>1, OthersTyped
  <2>2. QED
    BY <1>2, <2>1, OpenTyped, ReloadTyped, HydrationTyped, ToggleTyped, ReturnTyped, DiscardTyped,
       RefetchTyped DEF SessionNext
<1>3. QED
  BY <1>1, <1>2

-----------------------------------------------------------------------------
LEMMA InitCalm == SessionInit => Calm
<1> SUFFICES ASSUME SessionInit PROVE Calm
  OBVIOUS
<1>1. \A p \in SessionPipelines : Of(deployed[p], p) /\ Of(intended[p], p)
  <2>1. \A p \in SessionPipelines : deployed[p]["firstTopic"] = [of |-> p, edit |-> 0]
    BY DEF SessionInit, Configured, ConfigSections
  <2>2. \A p \in SessionPipelines : [of |-> p, edit |-> 0] # NotConfigured
    BY ContentType, SessionAssumption
  <2>3. intended = deployed
    BY DEF SessionInit
  <2>4. \A p \in SessionPipelines : Of(deployed[p], p)
    <3> TAKE p \in SessionPipelines
    <3>1. deployed[p]["firstTopic"] = [of |-> p, edit |-> 0]
      BY <2>1
    <3>2. [of |-> p, edit |-> 0] # NotConfigured
      BY <2>2
    <3>3. QED
      BY <3>1, <3>2 DEF Of
  <2>5. QED
    BY <2>3, <2>4
<1>2. QED
  BY <1>1 DEF SessionInit, Calm, Owned, Untouched, OneSource, StoreIsMade, Resuming, ViewIsFresh

\* Hydrations of what is deployed for p are hydrations of p.
LEMMA OneConfiguration ==
  ASSUME SessionType, Owned, Untouched, OneSource, NEW p \in SessionPipelines,
         NEW job \in jobs, job.config = deployed[p]
  PROVE  job.of = p /\ core.id = p /\ (job.raw => p \in RawPipelines) /\ (job.view => job.all)
<1>1. core.id # NoPage
  BY DEF Untouched
<1>2. Of(deployed[p], core.id) /\ Of(deployed[p], p)
  BY <1>1 DEF OneSource, Owned
<1>3. QED
  BY <1>2 DEF Of, OneSource

\* Whoever enters a mode with the page's deployed configuration starts afresh.
LEMMA EntersAfresh ==
  ASSUME SessionType, SessionType', Owned,
         NEW p \in SessionPipelines, NEW m \in {"view", "edit"}, NEW raw \in BOOLEAN,
         NEW g \in [SessionPipelines -> Configuration], NEW h \in jobs',
         raw => p \in RawPipelines, \A q \in SessionPipelines : Of(g[q], q),
         core' = Entered(p, m, raw), deployed' = deployed, page' = p,
         intended' = [g EXCEPT ![p] = deployed[p]],
         h.stage = "topics", h.all,
         \A job \in jobs' : job.of = p /\ job.config = deployed[p]
                            /\ (job.raw => p \in RawPipelines) /\ (job.view => job.all),
         m = "view" /\ hydratedKey' # NoPage =>
           hydratedKey' = p \/ \E job \in jobs' : job.view,
         Resuming'
  PROVE  Calm'
<1>1. /\ core'.id = p /\ core'.mode = m /\ core'.isDirty = FALSE
      /\ core'.lastSaved = deployed[p] /\ core'.raw = raw
  BY DEF Entered
<1>2. intended'[p] = deployed[p] /\ deployed[p] \in Configuration
  BY DEF SessionType
<1>3. p # NoPage
  BY SessionAssumption
<1>4. Owned'
  <2>1. \A q \in SessionPipelines : Of(intended'[q], q)
    BY <1>2 DEF Owned
  <2>2. QED
    BY <2>1, <1>1 DEF Owned
<1>5. Untouched'
  BY <1>1, <1>3 DEF Untouched
<1>6. OneSource'
  BY <1>1, <1>2 DEF OneSource
<1>7. StoreIsMade'
  <2>1. \A s \in Compared : s \in Writes(h)
    BY DEF Compared, ConfigSections, Kept, Writes
  <2>2. QED
    BY <2>1 DEF StoreIsMade
<1>8. ViewIsFresh'
  BY <1>1, <1>2 DEF ViewIsFresh
<1>9. QED
  BY <1>4, <1>5, <1>6, <1>7, <1>8 DEF Calm

\* The job of a hydration that starts.
LEMMA HydrationStarts ==
  ASSUME NEW p, NEW m, NEW raw, NEW h,
         \/ h = HydrationOf(p, m, raw)
         \/ h = [HydrationOf(p, m, raw) EXCEPT !.view = FALSE]
  PROVE  /\ h.of = p /\ h.config = deployed[p] /\ h.raw = raw
         /\ h.stage = "topics" /\ h.all = TRUE
BY DEF HydrationOf

LEMMA OpenCalm ==
  ASSUME SessionType, SessionType', Calm, NEW p \in SessionPipelines, OpenPage(p), ~disturbed'
  PROVE  Calm'
<1> USE DEF Calm
<1>1. EffectRuns(p, core, hydratedKey, store, jobs, intended, disturbed)
  BY DEF OpenPage
<1>2. p # NoPage /\ page = NoPage
  BY SessionAssumption DEF OpenPage
<1>3. CASE NeedsHydration(p, core, hydratedKey, store)
  <2> DEFINE h == HydrationOf(p, "view", FALSE)
  <2>1. /\ core' = Entered(p, "view", FALSE) /\ jobs' = jobs \cup {h}
        /\ intended' = [intended EXCEPT ![p] = deployed[p]]
        /\ \A job \in jobs : job.config = deployed[p]
    BY <1>1, <1>2, <1>3 DEF EffectRuns
  <2>2. /\ h.of = p /\ h.config = deployed[p] /\ h.raw = FALSE /\ h.view = TRUE
        /\ h.stage = "topics" /\ h.all = TRUE
    BY DEF HydrationOf
  <2> HIDE DEF h
  <2>3. \A job \in jobs' : job.of = p /\ job.config = deployed[p]
                            /\ (job.raw => p \in RawPipelines) /\ (job.view => job.all)
    BY <2>1, <2>2, OneConfiguration
  <2>4. Resuming'
    <3>1. ~core.isDirty
      BY <1>3 DEF NeedsHydration
    <3>2. request' = request /\ deployed' = deployed /\ store' = store
      BY DEF OpenPage
    <3>3. core'.isDirty = FALSE /\ core'.mode = "view"
      BY <2>1 DEF Entered
    <3>4. ASSUME request # NoRequest
          PROVE  /\ request.saved /\ deployed[request.of] = request.sent
                 /\ \A s \in Compared : (AsMade(request.sent, s, request.of))'
                 /\ \A job \in jobs : job.all
      <4>1. request.of \in SessionPipelines
        BY <3>4 DEF SessionType, RequestType
      <4>2. /\ request.saved /\ deployed[request.of] = request.sent
            /\ \A s \in Compared : AsMade(request.sent, s, request.of)
            /\ \A job \in jobs : job.all
        BY <3>1, <3>4 DEF Resuming
      <4>3. CASE request.of = p
        BY <2>1, <3>2, <4>1, <4>2, <4>3 DEF AsMade, SessionType
      <4>4. CASE request.of # p
        BY <2>1, <3>2, <4>1, <4>2, <4>4 DEF AsMade, SessionType
      <4>5. QED
        BY <4>2, <4>3, <4>4
    <3>5. QED
      BY <2>1, <2>2, <3>2, <3>3, <3>4 DEF Resuming
  <2>5. intended \in [SessionPipelines -> Configuration]
        /\ \A q \in SessionPipelines : Of(intended[q], q)
    BY DEF SessionType, Owned
  <2>6. deployed' = deployed /\ page' = p /\ h \in jobs'
    BY <2>1 DEF OpenPage
  <2>7. QED
    BY <2>1, <2>2, <2>3, <2>4, <2>5, <2>6, EntersAfresh
<1>4. CASE ~NeedsHydration(p, core, hydratedKey, store)
  <2>1. UNCHANGED <<core, jobs, hydratedKey, intended, deployed, editing, store, request>>
    BY <1>1, <1>4 DEF EffectRuns, OpenPage
  <2>2. ~Emptied
    BY <1>4 DEF Emptied, NeedsHydration, ValidStoreData
  <2>3. core.id # NoPage /\ core.mode # "create"
    BY <1>2, <1>4 DEF Untouched, NeedsHydration
  <2>4. StoreIsMade'
    BY <2>1, <2>2 DEF StoreIsMade, AsMade
  <2>5. Resuming'
    BY <2>1 DEF Resuming, AsMade
  <2>6. Owned' /\ Untouched' /\ OneSource' /\ ViewIsFresh'
    BY <2>1, <2>3 DEF Owned, Untouched, OneSource, ViewIsFresh
  <2>7. QED
    BY <2>4, <2>5, <2>6
<1>5. QED
  BY <1>3, <1>4

LEMMA ReloadCalm ==
  ASSUME SessionType, SessionType', Calm, Reload, ~disturbed'
  PROVE  Calm'
<1> USE DEF Calm
<1> DEFINE c == [core EXCEPT !.mode = "create", !.isDirty = FALSE, !.id = NoPage]
           h == HydrationOf(page, "view", FALSE)
<1>1. page \in SessionPipelines /\ page # NoPage
  BY DEF Reload, SessionType
<1>2. NeedsHydration(page, c, hydratedKey, Empty)
  BY DEF NeedsHydration, ValidStoreData, Empty, ConfigSections, SessionType, CoreType
<1>3. EffectRuns(page, c, hydratedKey, Empty, {}, deployed, disturbed)
  BY DEF Reload
<1> HIDE DEF c
<1>4. /\ core' = Entered(page, "view", FALSE) /\ jobs' = {h}
      /\ intended' = [deployed EXCEPT ![page] = deployed[page]]
  BY <1>1, <1>2, <1>3 DEF EffectRuns
<1>5. /\ h.of = page /\ h.config = deployed[page] /\ h.raw = FALSE /\ h.view = TRUE
      /\ h.stage = "topics" /\ h.all = TRUE
  BY DEF HydrationOf
<1> HIDE DEF h
<1>6. /\ h \in jobs' /\ deployed' = deployed /\ page' = page
      /\ deployed \in [SessionPipelines -> Configuration]
      /\ \A q \in SessionPipelines : Of(deployed[q], q)
  BY <1>4 DEF Reload, SessionType, Owned
<1>7. \A job \in jobs' : job = h
  BY <1>4
<1>8. Resuming'
  BY DEF Resuming, Reload
<1>9. QED
  BY <1>1, <1>4, <1>5, <1>6, <1>7, <1>8, EntersAfresh

LEMMA LeaveCalm ==
  ASSUME SessionType, Calm, LeavePage
  PROVE  Calm'
<1> USE DEF Calm
<1>1. /\ UNCHANGED <<deployed, store, core, hydratedKey, jobs, request, intended>>
      /\ page # NoPage /\ page' = NoPage /\ editing' = FALSE
  BY DEF LeavePage
<1>2. Owned' /\ Untouched' /\ OneSource'
  BY <1>1 DEF Owned, Untouched, OneSource
<1>3. StoreIsMade'
  BY <1>1 DEF StoreIsMade, Emptied, AsMade
<1>4. Resuming' /\ ViewIsFresh'
  BY <1>1 DEF Resuming, AsMade, ViewIsFresh
<1>5. QED
  BY <1>2, <1>3, <1>4

LEMMA ToggleCalm ==
  ASSUME SessionType, SessionType', Calm, ToggleEditMode, ~disturbed'
  PROVE  Calm'
<1> USE DEF Calm
<1>1. page \in SessionPipelines /\ page # NoPage /\ request = NoRequest
  BY DEF ToggleEditMode, SessionType
<1>2. CASE core.mode = "edit"
  <2>1. UNCHANGED <<deployed, page, store, core, hydratedKey, jobs, request, intended>>
    BY <1>2 DEF ToggleEditMode
  <2>2. Owned' /\ Untouched' /\ OneSource'
    BY <1>1, <2>1 DEF Owned, Untouched, OneSource
  <2>3. StoreIsMade' /\ Resuming'
    BY <2>1 DEF StoreIsMade, Emptied, AsMade, Resuming
  <2>4. ViewIsFresh'
    BY <1>2, <2>1 DEF ViewIsFresh
  <2>5. QED
    BY <2>2, <2>3, <2>4
<1>3. CASE core.mode # "edit"
  <2> DEFINE raw == page \in RawPipelines
             h == HydrationOf(page, "edit", raw)
  <2>1. /\ core' = Entered(page, "edit", raw) /\ jobs' = jobs \cup {h}
        /\ intended' = [intended EXCEPT ![page] = deployed[page]]
        /\ ~Overlaps(page)
    BY <1>3 DEF ToggleEditMode
  <2>2. /\ h.of = page /\ h.config = deployed[page] /\ h.raw = raw
        /\ h.stage = "topics" /\ h.all = TRUE
    BY DEF HydrationOf
  <2>3. raw \in BOOLEAN /\ (raw => page \in RawPipelines)
    OBVIOUS
  <2> HIDE DEF h, raw
  <2>4. \A job \in jobs' : job.of = page /\ job.config = deployed[page]
                            /\ (job.raw => page \in RawPipelines) /\ (job.view => job.all)
    BY <1>1, <2>1, <2>2, <2>3, OneConfiguration DEF Overlaps
  <2>5. Resuming'
    BY <1>1 DEF Resuming, ToggleEditMode
  <2>6. intended \in [SessionPipelines -> Configuration]
        /\ \A q \in SessionPipelines : Of(intended[q], q)
    BY DEF SessionType, Owned
  <2>7. deployed' = deployed /\ page' = page /\ h \in jobs'
    BY <2>1 DEF ToggleEditMode
  <2>8. QED
    BY <1>1, <2>1, <2>2, <2>3, <2>4, <2>5, <2>6, <2>7, EntersAfresh
<1>4. QED
  BY <1>2, <1>3

LEMMA ReturnCalm ==
  ASSUME SessionType, SessionType', Calm, ReturnToActive, ~disturbed'
  PROVE  Calm'
<1> USE DEF Calm
<1> DEFINE raw == page \in RawPipelines
           p == IF core.mode = "view" THEN NoPage ELSE page
           back == [HydrationOf(page, "view", raw) EXCEPT !.view = FALSE]
           hook == HydrationOf(page, "view", FALSE)
           j == jobs \cup {back}
           given == [intended EXCEPT ![page] = deployed[page]]
           c == Entered(page, "view", raw)
           met == disturbed \/ Overlaps(page) \/ core.isDirty \/ core.id # page
<1>1. EffectRuns(p, c, hydratedKey, store, j, given, met)
  BY DEF ReturnToActive
<1>2. /\ page \in SessionPipelines /\ page # NoPage /\ request = NoRequest
      /\ ~editing
  BY DEF ReturnToActive, SessionType
<1>3. /\ back.of = page /\ back.config = deployed[page] /\ back.raw = raw
      /\ back.stage = "topics" /\ back.all = TRUE
  BY DEF HydrationOf
<1>4. /\ hook.of = page /\ hook.config = deployed[page] /\ hook.raw = FALSE
      /\ hook.view = TRUE /\ hook.all = TRUE
  BY DEF HydrationOf
<1>5. raw \in BOOLEAN /\ (raw => page \in RawPipelines) /\ FALSE \in BOOLEAN
  OBVIOUS
<1>6. /\ given \in [SessionPipelines -> Configuration]
      /\ \A q \in SessionPipelines : Of(given[q], q)
      /\ given = [given EXCEPT ![page] = deployed[page]]
      /\ given = [intended EXCEPT ![page] = deployed[page]]
  BY <1>2 DEF SessionType, Owned
<1>7. ~Overlaps(page) /\ core.id = page /\ ~met
  BY <1>1 DEF EffectRuns
<1>8. c.mode = "view" /\ c.isDirty = FALSE
  BY DEF Entered
<1>9. \A job \in j : job.of = page /\ job.config = deployed[page]
                      /\ (job.raw => page \in RawPipelines) /\ (job.view => job.all)
  <2> HIDE DEF back, raw
  <2>1. QED
    BY <1>2, <1>3, <1>5, <1>7, OneConfiguration DEF Overlaps
<1>10. Resuming' /\ deployed' = deployed /\ page' = page
  BY <1>2 DEF Resuming, ReturnToActive
<1>11. core.mode = "view" /\ hydratedKey # NoPage =>
         hydratedKey = page \/ \E job \in jobs : job.view
  BY <1>7 DEF ViewIsFresh
<1>12. p = (IF core.mode = "view" THEN NoPage ELSE page) /\ back \in j /\ jobs \subseteq j
       /\ c = Entered(page, "view", raw)
  OBVIOUS
<1>13. j \cup {hook} = jobs \cup {back, hook}
  OBVIOUS
<1> HIDE DEF raw, p, back, j, given, c, met
<1>14. CASE p # NoPage /\ NeedsHydration(p, c, hydratedKey, store)
  <2>1. /\ p = page /\ core' = Entered(page, "view", FALSE) /\ jobs' = j \cup {hook}
        /\ intended' = [given EXCEPT ![page] = deployed[page]]
    BY <1>1, <1>12, <1>14 DEF EffectRuns
  <2> HIDE DEF hook
  <2>2. back \in jobs' /\ hook \in jobs'
    BY <1>12, <2>1
  <2>3. \A job \in jobs' : job.of = page /\ job.config = deployed[page]
                            /\ (job.raw => page \in RawPipelines) /\ (job.view => job.all)
    BY <1>4, <1>9, <2>1
  <2>4. \E job \in jobs' : job.view
    BY <1>4, <2>2
  <2>5. /\ given \in [SessionPipelines -> Configuration]
        /\ \A q \in SessionPipelines : Of(given[q], q)
    BY <1>6
  <2>6. back.stage = "topics" /\ back.all
    BY <1>3
  <2>7. QED
    BY <1>2, <1>5, <1>10, <2>1, <2>2, <2>3, <2>4, <2>5, <2>6, EntersAfresh
<1>15. CASE ~(p # NoPage /\ NeedsHydration(p, c, hydratedKey, store))
  <2>1. /\ core' = Entered(page, "view", raw) /\ jobs' = j /\ hydratedKey' = hydratedKey
        /\ intended' = given
    BY <1>1, <1>12, <1>15 DEF EffectRuns
  <2>2. hydratedKey' # NoPage => hydratedKey' = page \/ \E job \in jobs' : job.view
    <3>1. CASE core.mode = "view"
      BY <1>11, <1>12, <2>1, <3>1
    <3>2. CASE core.mode # "view"
      BY <1>2, <1>8, <1>12, <1>15, <2>1, <3>2 DEF NeedsHydration
    <3>3. QED
      BY <3>1, <3>2
  <2>3. intended' = [given EXCEPT ![page] = deployed[page]]
    BY <1>6, <2>1
  <2>4. back \in jobs'
    BY <1>12, <2>1
  <2>5. \A job \in jobs' : job.of = page /\ job.config = deployed[page]
                            /\ (job.raw => page \in RawPipelines) /\ (job.view => job.all)
    BY <1>9, <2>1
  <2>6. /\ given \in [SessionPipelines -> Configuration]
        /\ \A q \in SessionPipelines : Of(given[q], q)
    BY <1>6
  <2>7. core' = Entered(page, "view", raw)
    BY <2>1
  <2>8. back.stage = "topics" /\ back.all
    BY <1>3
  <2>9. QED
    BY <1>2, <1>5, <1>10, <2>2, <2>3, <2>4, <2>5, <2>6, <2>7, <2>8, EntersAfresh
<1>16. QED
  BY <1>14, <1>15

LEMMA HydrationCalm ==
  ASSUME SessionType, SessionType', Calm, NEW job \in jobs, HydrationStep(job)
  PROVE  Calm'
<1> USE DEF Calm
<1> DEFINE next == [job EXCEPT !.stage = IF @ = "topics" THEN "rest" ELSE "destination"]
<1>1. UNCHANGED <<deployed, page, editing, core, request, intended>>
  BY DEF HydrationStep
<1>2. /\ job \in Job /\ job.of = core.id /\ job.config = core.lastSaved
      /\ job.stage \in {"topics", "rest", "destination"}
      /\ (job.raw => core.id \in RawPipelines) /\ (job.view => job.all)
      /\ \A s \in Writes(job) \cup (IF job.stage = "destination" THEN {"destination"} ELSE {}) :
           job.config[s] = intended[core.id][s]
  BY DEF OneSource, SessionType, Job
<1>3. /\ next.of = job.of /\ next.config = job.config /\ next.raw = job.raw
      /\ next.view = job.view /\ next.all = job.all
      /\ next.stage = IF job.stage = "topics" THEN "rest" ELSE "destination"
  BY <1>2 DEF Job
<1>4. jobs' = (jobs \ {job}) \cup (IF ~job.all \/ job.stage = "destination" THEN {} ELSE {next})
  BY DEF HydrationStep
<1>5. core.id # NoPage /\ jobs # {}
  BY DEF Untouched
<1> HIDE DEF next
<1>6. Owned' /\ Untouched'
  BY <1>1, <1>5 DEF Owned, Untouched
<1>7. OneSource'
  <2>1. job.all /\ job.stage # "destination" =>
          \A s \in Writes(next) \cup (IF next.stage = "destination" THEN {"destination"} ELSE {}) :
            s \in Writes(job)
    BY <1>2, <1>3 DEF Writes
  <2>2. QED
    BY <1>1, <1>2, <1>3, <1>4, <2>1 DEF OneSource
<1>8. StoreIsMade'
  <2>1. CASE Emptied
    <3>1. job.stage \in {"rest", "destination"}
      BY <1>2, <2>1 DEF Emptied
    <3>2. store'["firstTopic"] = store["firstTopic"]
      BY <3>1 DEF HydrationStep, Hydrated, SessionType, Configuration, ConfigSections
    <3>3. \A other \in jobs' : other.stage # "topics"
      BY <1>3, <1>4, <2>1 DEF Emptied
    <3>4. Emptied'
      BY <1>1, <2>1, <3>2, <3>3 DEF Emptied
    <3>5. QED
      BY <3>4 DEF StoreIsMade
  <2>2. ASSUME ~Emptied, NEW s \in Compared
        PROVE  AsMade(store, s, core.id)' \/ \E other \in jobs' : s \in Writes(other)
    <3> DEFINE ends == CASE job.stage = "topics" -> {"firstTopic"}
                         [] job.stage = "rest" -> {"join", "filter", "destination"}
                         [] job.stage = "destination" -> {"destination"}
    <3>1. s \in {"firstTopic", "join", "filter", "destination"}
      BY DEF Compared, ConfigSections, Kept
    <3>2. s \notin ends => store'[s] = store[s]
      BY <1>2, <3>1 DEF HydrationStep, Hydrated, SessionType, Configuration, ConfigSections
    <3>3. s \in ends => \/ store'[s] = job.config[s]
                        \/ job.raw /\ store'[s] = NotConfigured
                        \/ job.stage = "destination" /\ store'[s] = store[s]
      BY <1>2, <3>1 DEF HydrationStep, Hydrated, SessionType, Configuration, ConfigSections
    <3>4. s \in ends => s \in Writes(job) \/ (job.stage = "destination" /\ s = "destination")
      BY <1>2 DEF Writes
    <3>5. s \in Writes(job) /\ s \notin ends =>
            job.all /\ job.stage = "topics" /\ s \in Writes(next)
      BY <1>2, <1>3, <3>1 DEF Writes
    <3>6. job.stage = "destination" => Writes(job) = {}
      BY DEF Writes
    <3>7. AsMade(store, s, core.id) \/ \E other \in jobs : s \in Writes(other)
      BY <1>5, <2>2 DEF StoreIsMade
    <3> HIDE DEF ends
    <3>8. CASE s \in ends /\ store'[s] # store[s]
      BY <1>1, <1>2, <3>3, <3>4, <3>8 DEF AsMade
    <3>9. CASE s \notin ends \/ store'[s] = store[s]
      <4>1. store'[s] = store[s]
        BY <3>2, <3>9
      <4>2. CASE AsMade(store, s, core.id)
        BY <1>1, <4>1, <4>2 DEF AsMade
      <4>3. ASSUME NEW other \in jobs, s \in Writes(other), other # job
            PROVE  \E o \in jobs' : s \in Writes(o)
        BY <1>4, <4>3
      <4>4. CASE s \in Writes(job) /\ s \in ends
        BY <1>1, <1>2, <3>3, <3>6, <4>4 DEF AsMade
      <4>5. CASE s \in Writes(job) /\ s \notin ends
        BY <1>4, <3>5, <4>5
      <4>6. QED
        BY <3>7, <4>2, <4>3, <4>4, <4>5
    <3>10. QED
      BY <3>8, <3>9
  <2>3. QED
    BY <1>1, <2>1, <2>2 DEF StoreIsMade
<1>9. Resuming'
  <2>1. request # NoRequest => request.saved
    BY <1>5 DEF Resuming
  <2>2. request # NoRequest => \A other \in jobs' : other.all
    BY <1>3, <1>4, <2>1 DEF Resuming
  <2>3. QED
    BY <1>1, <2>1, <2>2 DEF Resuming, AsMade
<1>10. ViewIsFresh'
  <2>1. core.mode = "view" /\ hydratedKey' # NoPage =>
          hydratedKey' = core.id \/ \E other \in jobs' : other.view
    <3>1. CASE job.view /\ job.stage = "destination"
      BY <1>2, <3>1 DEF HydrationStep
    <3>2. CASE job.view /\ job.stage # "destination"
      BY <1>2, <1>3, <1>4, <3>2
    <3>3. CASE ~job.view
      BY <1>4, <3>3 DEF HydrationStep, ViewIsFresh
    <3>4. QED
      BY <3>1, <3>2, <3>3
  <2>2. QED
    BY <1>1, <2>1 DEF ViewIsFresh
<1>11. QED
  BY <1>6, <1>7, <1>8, <1>9, <1>10

\* Nothing is under way, and the stores are the page's: all of them as the user made them.
LEMMA QuietStore ==
  ASSUME SessionType, Calm, page # NoPage, core.id = page, jobs = {}
  PROVE  \A s \in Compared : AsMade(store, s, page)
BY DEF Calm, StoreIsMade, Emptied

LEMMA SaveCalm ==
  ASSUME SessionType, SessionType', Calm, NEW s \in ConfigSections, Save(s), ~disturbed'
  PROVE  Calm'
<1> USE DEF Calm
<1> DEFINE new == [of |-> page, edit |-> saves + 1]
<1>1. page \in SessionPipelines /\ page # NoPage
  BY DEF Save, Changed, SessionType
<1>2. /\ jobs = {} /\ request = NoRequest /\ core.id = page /\ saves + 1 \in 0..MaxSaves
  BY SessionAssumption DEF Save, Changed, SessionType
<1>3. /\ UNCHANGED <<deployed, page, hydratedKey, jobs, request>> /\ editing' = FALSE
      /\ core' = [core EXCEPT !.isDirty = TRUE] /\ store' = [store EXCEPT ![s] = new]
      /\ intended' = [intended EXCEPT ![page][s] = new]
  BY DEF Save, Changed
<1>4. /\ core'.id = core.id /\ core'.mode = core.mode /\ core'.isDirty = TRUE
      /\ core'.lastSaved = core.lastSaved /\ core'.raw = core.raw
  BY <1>3 DEF SessionType, CoreType
<1>5. new # NotConfigured /\ new.of = page
  BY <1>1, <1>2, ContentType
<1> HIDE DEF new
<1>6. /\ \A q \in SessionPipelines : q # page => intended'[q] = intended[q]
      /\ \A x \in ConfigSections : x # s => intended'[page][x] = intended[page][x]
      /\ \A x \in ConfigSections : x # s => store'[x] = store[x]
      /\ intended'[page][s] = new /\ store'[s] = new
  BY <1>1, <1>3 DEF SessionType, Configuration
<1>7. Owned'
  <2>1. "firstTopic" \in ConfigSections
    BY DEF ConfigSections
  <2>2. Of(intended'[page], page)
    BY <1>1, <1>5, <1>6, <2>1 DEF Owned, Of
  <2>3. \A q \in SessionPipelines : Of(intended'[q], q)
    BY <1>6, <2>2 DEF Owned
  <2>4. QED
    BY <1>3, <1>4, <2>3 DEF Owned
<1>8. Untouched'
  BY <1>1, <1>2, <1>4 DEF Untouched
<1>9. OneSource' /\ Resuming'
  BY <1>2, <1>3 DEF OneSource, Resuming
<1>10. StoreIsMade'
  <2>1. \A x \in Compared : AsMade(store, x, page)
    BY <1>1, <1>2, QuietStore
  <2>2. \A x \in Compared : AsMade(store, x, page)'
    BY <1>3, <1>6, <2>1 DEF AsMade, Compared
  <2>3. QED
    BY <1>2, <1>3, <1>4, <2>2 DEF StoreIsMade
<1>11. ViewIsFresh'
  BY <1>2, <1>3, <1>4 DEF ViewIsFresh
<1>12. QED
  BY <1>7, <1>8, <1>9, <1>10, <1>11

LEMMA DraftCalm ==
  ASSUME SessionType, Calm, DraftDeduplication, ~disturbed'
  PROVE  Calm'
<1> USE DEF Calm
<1>1. UNCHANGED <<deployed, page, editing, core, hydratedKey, jobs, request, intended>>
  BY DEF DraftDeduplication
<1>2. jobs = {} /\ request = NoRequest /\ page # NoPage /\ core.id = page
  BY DEF DraftDeduplication, Changed, SessionType
<1>3. Owned' /\ Untouched' /\ OneSource' /\ Resuming' /\ ViewIsFresh'
  BY <1>1, <1>2 DEF Owned, Untouched, OneSource, Resuming, ViewIsFresh
<1>4. StoreIsMade'
  <2>1. \A s \in Compared : AsMade(store, s, page)
    BY <1>2, QuietStore
  <2>2. \A s \in Compared : store'[s] = store[s]
    BY DEF DraftDeduplication, Changed, Compared, Kept, SessionType, Configuration
  <2>3. QED
    BY <1>1, <1>2, <2>1, <2>2 DEF StoreIsMade, AsMade
<1>5. QED
  BY <1>3, <1>4

LEMMA CloseCalm ==
  ASSUME SessionType, Calm, CloseForm
  PROVE  Calm'
<1>1. /\ UNCHANGED <<deployed, page, store, core, hydratedKey, jobs, request, intended>>
      /\ editing' = FALSE
  BY DEF CloseForm
<1>2. QED
  BY <1>1 DEF Calm, Owned, Untouched, OneSource, StoreIsMade, Emptied, AsMade, Resuming, ViewIsFresh

LEMMA ResumeCalm ==
  ASSUME SessionType, Calm, ResumeWithPendingEdit, ~disturbed'
  PROVE  Calm'
<1> USE DEF Calm
<1>1. /\ UNCHANGED <<deployed, page, editing, store, core, hydratedKey, jobs, intended>>
      /\ page # NoPage /\ core.isDirty /\ jobs = {}
      /\ request' = [of |-> page, id |-> core.id, sent |-> store, saved |-> FALSE]
  BY DEF ResumeWithPendingEdit
<1>2. Owned' /\ Untouched' /\ OneSource' /\ ViewIsFresh'
  BY <1>1 DEF Owned, Untouched, OneSource, ViewIsFresh
<1>3. StoreIsMade'
  BY <1>1 DEF StoreIsMade, Emptied, AsMade
<1>4. Resuming'
  BY <1>1 DEF Resuming
<1>5. QED
  BY <1>2, <1>3, <1>4

LEMMA AcceptedCalm ==
  ASSUME SessionType, SessionType', Calm, EditAccepted
  PROVE  Calm'
<1> USE DEF Calm
<1>1. /\ UNCHANGED <<page, editing, store, hydratedKey, jobs, intended>>
      /\ deployed' = [deployed EXCEPT ![request.of] = request.sent]
      /\ request' = [request EXCEPT !.saved = TRUE]
      /\ core' = [core EXCEPT !.isDirty = FALSE]
      /\ request # NoRequest /\ ~request.saved
      /\ request.id = request.of /\ request.sent["firstTopic"] # NotConfigured
  BY DEF EditAccepted, Accepts
<1>2. /\ jobs = {} /\ core.isDirty /\ core.id = request.of /\ store = request.sent
      /\ request.of \in SessionPipelines /\ request \in RequestType
  BY <1>1 DEF Resuming, SessionType, RequestType
<1>3. /\ core'.id = core.id /\ core'.mode = core.mode /\ core'.isDirty = FALSE
      /\ core'.lastSaved = core.lastSaved /\ core'.raw = core.raw
  BY <1>1 DEF SessionType, CoreType
<1>4. /\ request'.of = request.of /\ request'.sent = request.sent /\ request'.saved = TRUE
  BY <1>1, <1>2 DEF RequestType
<1>5. \A s \in Compared : AsMade(request.sent, s, request.of)
  BY <1>2, SessionAssumption DEF StoreIsMade, Emptied
<1>6. /\ deployed'[request.of] = request.sent
      /\ \A q \in SessionPipelines : q # request.of => deployed'[q] = deployed[q]
  BY <1>1, <1>2 DEF SessionType
<1>7. Owned'
  <2>1. "firstTopic" \in Compared
    BY DEF Compared, ConfigSections, Kept
  <2>2. Of(request.sent, request.of)
    BY <1>1, <1>2, <1>5, <2>1 DEF Of, AsMade, Owned
  <2>3. \A q \in SessionPipelines : Of(deployed'[q], q)
    BY <1>6, <2>2 DEF Owned
  <2>4. QED
    BY <1>1, <1>3, <2>3 DEF Owned
<1>8. Untouched' /\ OneSource'
  BY <1>1, <1>2, <1>3 DEF Untouched, OneSource
<1>9. StoreIsMade'
  BY <1>1, <1>2, <1>3, <1>5 DEF StoreIsMade, AsMade
<1>10. Resuming'
  BY <1>1, <1>2, <1>3, <1>4, <1>5, <1>6 DEF Resuming, AsMade
<1>11. ViewIsFresh'
  BY <1>1, <1>2, <1>3, <1>5, <1>6 DEF ViewIsFresh, AsMade
<1>12. QED
  BY <1>7, <1>8, <1>9, <1>10, <1>11

LEMMA FailedCalm ==
  ASSUME SessionType, Calm, EditFailed \/ RefetchFailed
  PROVE  Calm'
<1>1. /\ UNCHANGED <<deployed, page, editing, store, core, hydratedKey, jobs, intended>>
      /\ request # NoRequest /\ request' = NoRequest
  BY DEF EditFailed, RefetchFailed
<1>2. StoreIsMade'
  BY <1>1 DEF Calm, StoreIsMade, Emptied, AsMade
<1>3. QED
  BY <1>1, <1>2 DEF Calm, Owned, Untouched, OneSource, Resuming, ViewIsFresh

LEMMA DiscardCalm ==
  ASSUME SessionType, SessionType', Calm, NEW s \in ConfigSections, Discard(s), ~disturbed'
  PROVE  Calm'
<1> USE DEF Calm
<1> DEFINE redone == IF s = "join" THEN {"join"} ELSE Rewritten(s)
           job == [of |-> core.id, config |-> core.lastSaved, raw |-> core.raw,
                   view |-> FALSE, stage |-> DiscardedBy(s), all |-> FALSE]
<1>1. /\ page \in SessionPipelines /\ page # NoPage /\ core.id = page
      /\ jobs = {} /\ request = NoRequest
      /\ UNCHANGED <<deployed, page, core, hydratedKey, request>>
      /\ editing /\ editing' = FALSE
  BY DEF Discard, SessionType
<1>2. /\ \A q \in SessionPipelines : q # page => intended'[q] = intended[q]
      /\ \A x \in ConfigSections : intended'[page][x] =
           IF x \in redone THEN core.lastSaved[x] ELSE intended[page][x]
  <2>1. CASE s = "join"
    BY <1>1, <2>1 DEF Discard, SessionType, Configuration
  <2>2. CASE s # "join"
    <3> DEFINE f == [x \in ConfigSections |-> IF x \in Rewritten(s) THEN core.lastSaved[x]
                                               ELSE intended[page][x]]
    <3>1. intended' = [intended EXCEPT ![page] = f]
      BY <2>2 DEF Discard
    <3>2. QED
      BY <1>1, <2>2, <3>1 DEF SessionType
  <2>3. QED
    BY <2>1, <2>2
<1>3. \/ s = "join" /\ jobs' = {}
      \/ s = "destination" /\ jobs' = {job} /\ DiscardedBy(s) = "destination"
      \/ /\ s \in {"firstTopic", "secondTopic", "deduplication"} /\ jobs' = {job}
         /\ DiscardedBy(s) = "topics"
  BY <1>1 DEF Discard, ConfigSections, DiscardedBy
<1>4. /\ job.of = page /\ job.config = core.lastSaved /\ job.view = FALSE /\ job.all = FALSE
      /\ job.stage = DiscardedBy(s) /\ (job.raw => page \in RawPipelines)
  BY <1>1 DEF Owned
<1>5. \A x \in Compared : AsMade(store, x, page)
  BY <1>1, QuietStore
<1>6. "firstTopic" \in ConfigSections /\ Compared = {"firstTopic", "join", "filter", "destination"}
  BY DEF Compared, ConfigSections, Kept
<1>7. \A x \in Compared : \/ AsMade(store, x, page)'
                          \/ x = "firstTopic" /\ jobs' = {job} /\ job.stage = "topics"
  <2>1. CASE s = "join"
    <3>1. redone = {"join"}
      BY <2>1
    <3>2. store'["join"] = core.lastSaved["join"] \/ (page \in RawPipelines
                                                   /\ store'["join"] = NotConfigured)
      BY <1>1, <2>1 DEF Discard, Owned, SessionType, Configuration, ConfigSections
    <3>3. \A x \in Compared : x # "join" => store'[x] = store[x]
      BY <2>1, <1>6 DEF Discard, SessionType, Configuration, ConfigSections
    <3>4. QED
      BY <1>1, <1>2, <1>5, <1>6, <3>1, <3>2, <3>3 DEF AsMade, Compared
  <2>2. CASE s = "destination"
    <3>1. redone = {"destination"}
      BY <2>2 DEF Rewritten
    <3>2. store'["destination"] = core.lastSaved["destination"]
      BY <2>2 DEF Discard, SessionType, Configuration, ConfigSections
    <3>3. \A x \in Compared : x # "destination" => store'[x] = store[x]
      BY <2>2, <1>6 DEF Discard, SessionType, Configuration, ConfigSections
    <3>4. QED
      BY <1>1, <1>2, <1>5, <1>6, <3>1, <3>2, <3>3 DEF AsMade, Compared
  <2>3. CASE s \in {"firstTopic", "secondTopic", "deduplication"}
    <3>1. redone = {"firstTopic", "secondTopic", "deduplication"}
      BY <2>3 DEF Rewritten
    <3>2. store' = store
      BY <2>3 DEF Discard
    <3>3. jobs' = {job} /\ job.stage = "topics"
      BY <1>3, <1>4, <2>3
    <3> HIDE DEF redone, job
    <3>4. QED
      BY <1>1, <1>2, <1>5, <1>6, <3>1, <3>2, <3>3 DEF AsMade, Compared
  <2>4. QED
    BY <1>3, <2>1, <2>2, <2>3
<1>8. Owned'
  <2>1. Of(core.lastSaved, page) /\ Of(intended[page], page)
    BY <1>1 DEF Owned
  <2>2. Of(intended'[page], page)
    BY <1>2, <1>6, <2>1 DEF Of
  <2>3. QED
    BY <1>1, <1>2, <2>2 DEF Owned
<1>9. redone = IF s = "join" THEN {"join"} ELSE IF s = "destination" THEN {"destination"}
               ELSE {"firstTopic", "secondTopic", "deduplication"}
  BY DEF Rewritten
<1> HIDE DEF redone, job
<1>10. Untouched' /\ Resuming'
  BY <1>1 DEF Untouched, Resuming
<1>11. OneSource'
  <2>1. Writes(job) \subseteq (IF job.stage = "topics" THEN {"firstTopic"} ELSE
                               IF job.stage = "rest" THEN {"join", "filter", "destination"}
                               ELSE {})
    BY <1>4 DEF Writes
  <2>2. \A x \in Writes(job) \cup (IF job.stage = "destination" THEN {"destination"} ELSE {}) :
          jobs' = {job} => x \in redone /\ x \in ConfigSections
    BY <1>3, <1>4, <1>9, <2>1 DEF ConfigSections
  <2>3. QED
    BY <1>1, <1>2, <1>3, <1>4, <2>2 DEF OneSource
<1>12. StoreIsMade'
  BY <1>1, <1>7 DEF StoreIsMade, Writes
<1>13. ViewIsFresh'
  BY <1>1, <1>2, <1>6 DEF ViewIsFresh, Compared
<1>14. QED
  BY <1>8, <1>10, <1>11, <1>12, <1>13

LEMMA RefetchCalm ==
  ASSUME SessionType, SessionType', Calm, PipelineRefetched, ~disturbed'
  PROVE  Calm'
<1> USE DEF Calm
<1> DEFINE c == [core EXCEPT !.mode = "view"]
           h == HydrationOf(page, "view", FALSE)
<1>1. /\ request # NoRequest /\ request.saved /\ request' = NoRequest
      /\ UNCHANGED <<deployed, page, editing>> /\ store'["firstTopic"] = NotConfigured
  BY DEF PipelineRefetched, ConfigSections
<1>2. EffectRuns(page, c, NoPage, store', jobs, intended, disturbed)
  BY DEF PipelineRefetched
<1>3. /\ c.id = core.id /\ c.mode = "view" /\ c.isDirty = core.isDirty
      /\ c.lastSaved = core.lastSaved /\ c.raw = core.raw
  BY DEF SessionType, CoreType
<1>4. /\ request.of \in SessionPipelines /\ deployed[request.of] = request.sent
      /\ \A s \in Compared : AsMade(request.sent, s, request.of)
      /\ \A job \in jobs : job.all
      /\ ~core.isDirty
      /\ core.mode = "edit" => core.id = request.of
  BY <1>1 DEF Resuming, SessionType, RequestType
<1>5. Resuming'
  BY <1>1 DEF Resuming
<1> HIDE DEF c
<1>6. CASE page # NoPage
  <2>1. page \in SessionPipelines /\ NeedsHydration(page, c, NoPage, store')
    BY <1>3, <1>4, <1>6 DEF SessionType, NeedsHydration
  <2>2. /\ core' = Entered(page, "view", FALSE) /\ jobs' = jobs \cup {h}
        /\ intended' = [intended EXCEPT ![page] = deployed[page]] /\ hydratedKey' = NoPage
        /\ \A job \in jobs : job.config = deployed[page]
    BY <1>2, <1>6, <2>1 DEF EffectRuns
  <2>3. /\ h.of = page /\ h.config = deployed[page] /\ h.raw = FALSE /\ h.view = TRUE
        /\ h.stage = "topics" /\ h.all = TRUE
    BY DEF HydrationOf
  <2> HIDE DEF h
  <2>4. \A job \in jobs' : job.of = page /\ job.config = deployed[page]
                            /\ (job.raw => page \in RawPipelines) /\ (job.view => job.all)
    BY <2>1, <2>2, <2>3, OneConfiguration DEF OneSource
  <2>5. intended \in [SessionPipelines -> Configuration]
        /\ \A q \in SessionPipelines : Of(intended[q], q)
    BY DEF SessionType, Owned
  <2>6. h \in jobs'
    BY <2>2
  <2>7. QED
    BY <1>1, <1>5, <2>1, <2>2, <2>3, <2>4, <2>5, <2>6, EntersAfresh
<1>7. CASE page = NoPage
  <2>1. core' = c /\ jobs' = jobs /\ hydratedKey' = NoPage /\ intended' = intended
    BY <1>2, <1>7 DEF EffectRuns
  <2>2. ~editing /\ core.id \in SessionPipelines /\ core.mode # "create"
    BY <1>1, <1>7 DEF SessionType, CoreType, Untouched
  <2>3. Owned' /\ OneSource'
    BY <1>1, <1>3, <2>1 DEF Owned, OneSource
  <2>4. Untouched'
    BY <1>3, <2>1, <2>2, SessionAssumption DEF Untouched
  <2>5. StoreIsMade'
    <3>1. CASE \E job \in jobs : job.stage = "topics"
      <4>1. PICK job \in jobs : job.stage = "topics"
        BY <3>1
      <4>2. job \in jobs' /\ Compared \subseteq Writes(job)
        BY <1>4, <2>1, <4>1 DEF Compared, ConfigSections, Kept, Writes
      <4>3. QED
        BY <4>2 DEF StoreIsMade
    <3>2. CASE \A job \in jobs : job.stage # "topics"
      <4>1. Emptied'
        BY <1>1, <1>3, <1>4, <1>7, <2>1, <3>2 DEF Emptied
      <4>2. QED
        BY <4>1 DEF StoreIsMade
    <3>3. QED
      BY <3>1, <3>2
  <2>6. ViewIsFresh'
    <3>1. core.id \notin RawPipelines =>
            \A s \in Compared : intended[core.id][s] = deployed[core.id][s]
      <4>1. CASE core.mode = "edit"
        BY <1>4, <4>1 DEF AsMade
      <4>2. CASE core.mode = "view"
        BY <1>4, <4>2 DEF ViewIsFresh
      <4>3. QED
        BY <2>2, <4>1, <4>2 DEF SessionType, CoreType
    <3>2. QED
      BY <1>1, <1>3, <2>1, <2>2, <3>1 DEF ViewIsFresh
  <2>7. QED
    BY <1>5, <2>3, <2>4, <2>5, <2>6
<1>8. QED
  BY <1>6, <1>7

\* Only the first state is untouched: the page that is opened first is hydrated.
LEMMA NextUntouched ==
  ASSUME SessionType, SessionType', Untouched, [SessionNext]_sessionVars
  PROVE  Untouched'
<1>1. CASE \/ UNCHANGED sessionVars \/ LeavePage \/ CloseForm \/ DraftDeduplication
           \/ (\E s \in ConfigSections : Discard(s)) \/ (\E job \in jobs : HydrationStep(job))
           \/ EditFailed \/ RefetchFailed \/ ResumeWithPendingEdit
  BY <1>1 DEF sessionVars, LeavePage, CloseForm, DraftDeduplication, Discard, HydrationStep,
     EditFailed, RefetchFailed, ResumeWithPendingEdit, Changed, Untouched
<1>2. CASE (\E s \in ConfigSections : Save(s)) \/ EditAccepted
  <2>1. core.id # NoPage /\ core.mode # "create"
    BY <1>2 DEF Save, Changed, EditAccepted, Untouched
  <2>2. core'.id = core.id /\ core'.mode = core.mode
    BY <1>2 DEF Save, EditAccepted, SessionType, CoreType
  <2>3. QED
    BY <2>1, <2>2 DEF Untouched
<1>3. ASSUME NEW p \in SessionPipelines, OpenPage(p)
      PROVE  Untouched'
  <2>1. p # NoPage /\ EffectRuns(p, core, hydratedKey, store, jobs, intended, disturbed)
    BY <1>3, SessionAssumption DEF OpenPage
  <2>2. CASE NeedsHydration(p, core, hydratedKey, store)
    BY <2>1, <2>2 DEF EffectRuns, Entered, Untouched
  <2>3. CASE ~NeedsHydration(p, core, hydratedKey, store)
    <3>1. core.id # NoPage /\ core.mode # "create"
      BY <2>1, <2>3 DEF Untouched, NeedsHydration
    <3>2. core' = core
      BY <2>1, <2>3 DEF EffectRuns
    <3>3. QED
      BY <3>1, <3>2 DEF Untouched
  <2>4. QED
    BY <2>2, <2>3
<1>4. CASE Reload
  <2> DEFINE c == [core EXCEPT !.mode = "create", !.isDirty = FALSE, !.id = NoPage]
  <2>1. page # NoPage /\ EffectRuns(page, c, hydratedKey, Empty, {}, deployed, disturbed)
    BY <1>4 DEF Reload
  <2>2. NeedsHydration(page, c, hydratedKey, Empty)
    BY DEF NeedsHydration, ValidStoreData, Empty, ConfigSections, SessionType, CoreType
  <2> HIDE DEF c
  <2>3. QED
    BY <2>1, <2>2 DEF EffectRuns, Entered, Untouched
<1>5. CASE ToggleEditMode
  BY <1>5 DEF ToggleEditMode, Entered, Untouched
<1>6. CASE ReturnToActive
  <2>1. page \in SessionPipelines /\ page # NoPage
    BY <1>6 DEF ReturnToActive, SessionType
  <2>2. \E raw : core' = Entered(page, "view", raw)
    BY <1>6 DEF ReturnToActive, EffectRuns
  <2>3. core'.id = page /\ core'.mode = "view"
    BY <2>2 DEF Entered
  <2>4. QED
    BY <2>1, <2>3 DEF Untouched
<1>7. CASE PipelineRefetched
  <2> DEFINE c == [core EXCEPT !.mode = "view"]
  <2>1. EffectRuns(page, c, NoPage, store', jobs, intended, disturbed)
    BY <1>7 DEF PipelineRefetched
  <2>2. core.id # NoPage /\ c.id = core.id /\ c.mode = "view"
    BY <1>7 DEF PipelineRefetched, Untouched, SessionType, CoreType
  <2> HIDE DEF c
  <2>3. core' = c \/ (page # NoPage /\ core' = Entered(page, "view", FALSE))
    BY <2>1 DEF EffectRuns
  <2>4. core'.id # NoPage /\ core'.mode = "view"
    BY <2>2, <2>3 DEF Entered
  <2>5. QED
    BY <2>4 DEF Untouched
<1>8. QED
  BY <1>1, <1>2, <1>3, <1>4, <1>5, <1>6, <1>7 DEF SessionNext

LEMMA NextCalm ==
  ASSUME SessionInv, [SessionNext]_sessionVars
  PROVE  SessionInv'
<1>1. SessionType' /\ Untouched'
  BY NextTyped, NextUntouched DEF SessionInv
<1>2. ASSUME ~disturbed' PROVE Calm'
  <2>1. CASE UNCHANGED sessionVars
    BY <1>2, <2>1 DEF sessionVars, SessionInv, Calm, Owned, Untouched, OneSource, StoreIsMade,
                      Emptied, AsMade, Resuming, ViewIsFresh
  <2>2. CASE SessionNext
    <3>1. ~disturbed
      BY <1>2, <2>2 DEF SessionNext, OpenPage, LeavePage, Reload, HydrationStep, ToggleEditMode,
         ReturnToActive, Save, DraftDeduplication, CloseForm, Discard, ResumeWithPendingEdit,
         EditAccepted, EditFailed, PipelineRefetched, RefetchFailed, Changed, EffectRuns
    <3>2. SessionType /\ Calm
      BY <3>1 DEF SessionInv
    <3>3. QED
      BY <1>1, <1>2, <2>2, <3>2, OpenCalm, LeaveCalm, ReloadCalm, HydrationCalm, ToggleCalm,
         ReturnCalm, SaveCalm, DraftCalm, CloseCalm, DiscardCalm, ResumeCalm, AcceptedCalm,
         FailedCalm, RefetchCalm DEF SessionNext
  <2>3. QED
    BY <2>1, <2>2
<1>3. QED
  BY <1>1, <1>2 DEF SessionInv

-----------------------------------------------------------------------------
\* Viewing and editing deployed pipelines: the types, and what holds of the stores, the
\* hydrations and the resume while nothing disturbed (the inductive invariant).
THEOREM SessionInvariant == SessionSpec => []SessionInv
<1>1. SessionInit => SessionInv
  BY InitTyped, InitCalm DEF SessionInv, Calm
<1>2. SessionInv /\ [SessionNext]_sessionVars => SessionInv'
  BY NextCalm
<1>3. QED
  BY <1>1, <1>2, PTL DEF SessionSpec

\* Every variable of the session keeps its type.
THEOREM SessionTypeCorrect == SessionSpec => []SessionTypeOK
<1>1. SessionInv => SessionTypeOK
  <2> SUFFICES ASSUME SessionType PROVE SessionTypeOK
    BY DEF SessionInv
  <2>1. /\ core.id \in SessionPipelines \cup {NoPage} /\ core.mode \in {"create", "view", "edit"}
        /\ core.isDirty \in BOOLEAN /\ core.raw \in BOOLEAN /\ core.lastSaved \in Configuration
    BY DEF SessionType, CoreType
  <2>2. request = NoRequest \/ (request.id \in SessionPipelines /\ request.sent \in Configuration)
    BY NoRequestIsNone DEF SessionType, RequestType
  <2>3. QED
    BY <2>1, <2>2 DEF SessionType, SessionTypeOK
<1>2. QED
  BY <1>1, SessionInvariant, PTL

\* "Resume" with pending edits deploys what the user made of every section and leaves the others
\* as they were, whatever pages were opened, reloaded, viewed and edited before, unless a change
\* met a hydration or another pipeline's stores (resumeWithPendingEdit, enterEditMode,
\* usePipelineHydration).
THEOREM EditsAreSent == SessionSpec => []ResumeSendsEdits
<1>1. SessionInv => ResumeSendsEdits
  BY DEF SessionInv, Calm, Resuming, AsMade, Compared, ResumeSendsEdits
<1>2. QED
  BY <1>1, SessionInvariant, PTL

\* A details page that the key in sessionStorage calls hydrated shows the pipeline that is
\* deployed, across reloads, navigation and resumes (usePipelineHydration).
THEOREM PagesAreCurrent == SessionSpec => []ShownIsDeployed
<1>1. SessionInv => ShownIsDeployed
  <2> SUFFICES ASSUME SessionInv, page # NoPage, page \notin RawPipelines, hydratedKey = page,
                      core.mode # "edit", ~core.isDirty, jobs = {}, request = NoRequest,
                      ~disturbed
               PROVE  core.id = page /\ \A s \in ConfigSections \ Kept :
                                          store[s] = deployed[page][s]
    BY DEF ShownIsDeployed
  <2>1. core.mode = "view" /\ core.id # NoPage
    BY DEF SessionInv, SessionType, CoreType, Calm, Untouched
  <2>2. core.id = page
    BY <2>1 DEF SessionInv, Calm, ViewIsFresh
  <2>3. \A s \in Compared : AsMade(store, s, page)
    BY <2>2, QuietStore DEF SessionInv
  <2>4. \A s \in Compared : intended[page][s] = deployed[page][s]
    BY <2>1, <2>2 DEF SessionInv, Calm, ViewIsFresh
  <2>5. QED
    BY <2>2, <2>3, <2>4 DEF AsMade, Compared
<1>2. QED
  BY <1>1, SessionInvariant, PTL

-----------------------------------------------------------------------------
(* The filter editor (FilterEditor). *)

USE FilterAssumption

-----------------------------------------------------------------------------
(* The tree of a filter *)

\* A is the set of groups around item i of tree p.
Closed(p, i, S) == p[i] \in S /\ \A g \in S \ {Root} : p[g] \in S
Around(p, i, A) ==
  /\ A \in SUBSET AllGroups /\ Closed(p, i, A)
  /\ \A T \in SUBSET AllGroups : Closed(p, i, T) => A \subseteq T

\* The groups around an item are well defined, finitely many, and end at the root.
Hangs(p, i) ==
  LET A == AncestorsIn(p, i)
  IN  Around(p, i, A) /\ Root \in A /\ IsFiniteSet(A)
        /\ (i \in Groups => Cardinality(A) < MaxGroupDepth)

TreeInv ==
  /\ \A i \in Items : parent[i] # Absent => Hangs(parent, i)
  /\ Present # {} => enabled

Tree == [Items -> AllGroups \union {Absent}]

LEMMA AncestorsAre ==
  ASSUME NEW p, NEW i \in Items, p[i] # Absent, NEW A, Around(p, i, A)
  PROVE  AncestorsIn(p, i) = A
<1> DEFINE Least(S) == Closed(p, i, S) /\ \A T \in SUBSET AllGroups : Closed(p, i, T) => S \subseteq T
<1>1. i # Root
  BY DEF Items
<1>2. AncestorsIn(p, i) = CHOOSE S \in SUBSET AllGroups : Least(S)
  BY <1>1 DEF AncestorsIn, Closed
<1>3. A \in SUBSET AllGroups /\ Least(A)
  BY DEF Around
<1>4. \A S \in SUBSET AllGroups : Least(S) => S = A
  BY <1>3
<1> HIDE DEF Least
<1>5. (CHOOSE S \in SUBSET AllGroups : Least(S)) = A
  BY <1>3, <1>4
<1> QED BY <1>2, <1>5

\* A change elsewhere leaves the groups around an item.
LEMMA AroundStays ==
  ASSUME NEW p, NEW q, NEW i \in Items, NEW A, Around(p, i, A), q[i] = p[i],
         \A g \in A \ {Root} : q[g] = p[g]
  PROVE  Around(q, i, A)
<1>1. Closed(q, i, A)
  BY DEF Around, Closed
<1>2. ASSUME NEW T \in SUBSET AllGroups, Closed(q, i, T) PROVE A \subseteq T
  <2>1. Closed(p, i, T \cap A)
    BY <1>2 DEF Around, Closed
  <2> QED BY <2>1 DEF Around
<1> QED BY <1>1, <1>2 DEF Around

\* The groups around a group are around what is in it, and with it they are all.
LEMMA AroundGroup ==
  ASSUME NEW p, NEW i \in Items, NEW A, Around(p, i, A), NEW g \in A \ {Root}, NEW B, Around(p, g, B)
  PROVE  B \subseteq A
BY DEF Around, Closed

LEMMA AroundNew ==
  ASSUME NEW p, NEW n \in Items, NEW g \in Groups, p[n] = g, NEW B, Around(p, g, B)
  PROVE  Around(p, n, B \union {g})
<1>1. g # Root
  OBVIOUS
<1> QED BY <1>1 DEF Around, Closed, AllGroups

LEMMA AroundRoot ==
  ASSUME NEW p, NEW n \in Items, p[n] = Root
  PROVE  Around(p, n, {Root})
BY DEF Around, Closed, AllGroups

LEMMA HangsIn ==
  ASSUME NEW p, NEW i \in Items, p[i] # Absent, NEW A, Around(p, i, A), Root \in A, IsFiniteSet(A),
         i \in Groups => Cardinality(A) < MaxGroupDepth
  PROVE  Hangs(p, i)
BY AncestorsAre DEF Hangs

\* The groups around an item are in the tree.
LEMMA GroupsHang ==
  ASSUME parent \in Tree, TreeInv, NEW i \in Items, parent[i] # Absent,
         NEW g \in AncestorsIn(parent, i) \ {Root}
  PROVE  /\ g \in Groups /\ g \in Items /\ parent[g] # Absent
         /\ Hangs(parent, g) /\ AncestorsIn(parent, g) \subseteq AncestorsIn(parent, i)
<1>1. Hangs(parent, i)
  BY DEF TreeInv
<1>2. Around(parent, i, AncestorsIn(parent, i))
  BY <1>1 DEF Hangs
<1>3. g \in AllGroups /\ parent[g] \in AllGroups
  BY <1>2 DEF Around, Closed
<1>4. g \in Groups /\ g \in Items /\ parent[g] # Absent
  BY <1>3 DEF AllGroups, Items
<1>5. Hangs(parent, g)
  BY <1>4 DEF TreeInv
<1>6. Around(parent, g, AncestorsIn(parent, g))
  BY <1>5 DEF Hangs
<1>7. AncestorsIn(parent, g) \subseteq AncestorsIn(parent, i)
  BY <1>2, <1>6, AroundGroup
<1> QED BY <1>4, <1>5, <1>7

\* A new item, in a group of the tree; a group only where the limit allows it.
LEMMA AddHangs ==
  ASSUME parent \in Tree, TreeInv, NEW n \in Items, NEW g \in InTree, parent[n] = Absent,
         parent' = [parent EXCEPT ![n] = g],
         n \in Groups => Depth(g) < MaxGroupDepth - 1
  PROVE  \A i \in Items : parent'[i] # Absent => Hangs(parent', i)
<1>1. /\ \A i \in Items : parent'[i] = IF i = n THEN g ELSE parent[i]
      /\ parent' \in Tree
  BY DEF Tree, InTree, AllGroups
<1>2. ASSUME NEW i \in Items, parent[i] # Absent PROVE Hangs(parent', i)
  <2> DEFINE A == AncestorsIn(parent, i)
  <2>1. Hangs(parent, i) /\ i # n
    BY <1>2 DEF TreeInv
  <2>2. \A h \in A \ {Root} : parent'[h] = parent[h]
    BY <1>1, <1>2, GroupsHang
  <2>3. Around(parent', i, A)
    BY <1>1, <2>1, <2>2, AroundStays DEF Hangs
  <2>4. parent'[i] # Absent
    BY <1>1, <1>2, <2>1
  <2> QED BY <2>1, <2>3, <2>4, HangsIn DEF Hangs
<1>3. Hangs(parent', n)
  <2>1. parent'[n] = g /\ g # Absent /\ g \in AllGroups
    BY <1>1 DEF InTree, AllGroups
  <2>2. CASE g = Root
    <3>1. Around(parent', n, {Root})
      BY <2>1, <2>2, AroundRoot
    <3>2. IsFiniteSet({Root}) /\ Cardinality({Root}) = 1
      BY FS_Singleton
    <3>3. Depth(g) = 0
      BY <2>2, FS_EmptySet DEF Depth, AncestorsIn
    <3>4. n \in Groups => Cardinality({Root}) < MaxGroupDepth
      BY <3>2, <3>3
    <3> QED BY <2>1, <3>1, <3>2, <3>4, HangsIn
  <2>3. CASE g # Root
    <3> DEFINE B == AncestorsIn(parent', g)
               C == B \union {g}
    <3>1. g \in Groups /\ g \in Items /\ parent[g] # Absent /\ g # n
      BY <2>1, <2>3 DEF InTree, AllGroups, Items
    <3>2. Hangs(parent', g) /\ parent'[g] # Absent
      BY <1>1, <1>2, <3>1
    <3>3. AncestorsIn(parent', g) = AncestorsIn(parent, g)
      <4>1. Hangs(parent, g)
        BY <3>1 DEF TreeInv
      <4>2. \A h \in AncestorsIn(parent, g) \ {Root} : parent'[h] = parent[h]
        BY <1>1, <3>1, GroupsHang
      <4>3. Around(parent', g, AncestorsIn(parent, g))
        BY <1>1, <3>1, <4>1, <4>2, AroundStays DEF Hangs
      <4> QED BY <3>1, <3>2, <4>3, AncestorsAre
    <3>4. Around(parent', n, C)
      BY <2>1, <3>1, <3>2, AroundNew DEF Hangs
    <3>5. Root \in C /\ IsFiniteSet(C) /\ Cardinality(C) \in {Cardinality(B), Cardinality(B) + 1}
      BY <3>2, FS_AddElement DEF Hangs
    <3>6. Cardinality(B) \in Nat
      BY <3>2, FS_CardinalityType DEF Hangs
    <3>7. n \in Groups => Cardinality(B) < MaxGroupDepth - 1
      BY <3>3 DEF Depth
    <3> HIDE DEF B, C
    <3>8. n \in Groups => Cardinality(C) < MaxGroupDepth
      BY <3>5, <3>6, <3>7
    <3> QED BY <2>1, <3>4, <3>5, <3>8, HangsIn
  <2> QED BY <2>2, <2>3
<1> QED BY <1>1, <1>2, <1>3

\* What is left when an item is removed with everything in it.
LEMMA RemoveHangs ==
  ASSUME parent \in Tree, TreeInv, NEW n \in Items,
         parent' = [j \in Items |->
                      IF j = n \/ n \in AncestorsIn(parent, j) THEN Absent ELSE parent[j]]
  PROVE  \A i \in Items : parent'[i] # Absent => Hangs(parent', i)
<1> SUFFICES ASSUME NEW i \in Items, parent'[i] # Absent PROVE Hangs(parent', i)
  OBVIOUS
<1> DEFINE A == AncestorsIn(parent, i)
<1>1. parent'[i] = parent[i] /\ n \notin A /\ parent[i] # Absent
  OBVIOUS
<1>2. Hangs(parent, i)
  BY <1>1 DEF TreeInv
<1>3. \A h \in A \ {Root} : parent'[h] = parent[h]
  <2> SUFFICES ASSUME NEW h \in A \ {Root} PROVE parent'[h] = parent[h]
    OBVIOUS
  <2>1. h \in Items /\ AncestorsIn(parent, h) \subseteq A
    BY <1>1, GroupsHang
  <2> QED BY <1>1, <2>1
<1>4. Around(parent', i, A)
  BY <1>1, <1>2, <1>3, AroundStays DEF Hangs
<1> HIDE DEF A
<1> QED BY <1>1, <1>2, <1>4, HangsIn DEF Hangs, A

-----------------------------------------------------------------------------
(* Verdicts *)

\* A text without incomplete rules, like every text that is sent to the backend.
CompleteText(e) == \A r \in DOMAIN e : e[r][1] # "empty"

\* The open step has seen the filter that is on screen, and what waits for the backend
\* was a valid filter when it was printed.
VerdictInv ==
  /\ VerdictIsCurrent
  /\ open => prevKey = Key
  /\ timer # NoText => CompleteText(timer)
  /\ \A i \in 1 .. Len(inflight) : CompleteText(inflight[i])

FilterInv == TypeOK /\ TreeInv /\ VerdictInv

LEMMA NoTextType == NoText \in Texts
<1>1. NoText \in [{} -> Contents \X SUBSET (AllGroups \X BOOLEAN)]
  BY DEF NoText
<1> QED BY <1>1 DEF Texts

\* The parts of TypeOK about the tree, and about the other variables of the store.
TreeType == /\ parent \in Tree /\ content \in [Rules -> Contents]
            /\ negated \in [AllGroups -> BOOLEAN] /\ enabled \in BOOLEAN
VerdictType == /\ expr \in Texts /\ timer \in Texts /\ judged \in Texts
               /\ status \in {"idle", "validating", "valid", "invalid"}
               /\ late \in BOOLEAN /\ dropped \in BOOLEAN
SentType == inflight \in Seq(Texts) /\ Len(inflight) <= MaxInFlight

LEMMA TypeParts ==
  TypeOK <=> TreeType /\ VerdictType /\ SentType /\ open \in BOOLEAN /\ edits \in 0..MaxEdits
BY DEF TypeOK, TreeType, VerdictType, SentType, Tree

\* The text on screen is a text, complete just if the filter is locally valid.
TextOK ==
  /\ Text \in Texts /\ (Text # NoText => enabled)
  /\ enabled => (LocallyValid <=> CompleteText(Text))

LEMMA TextType == TreeType /\ TreeInv => TextOK
<1> SUFFICES ASSUME TreeType, TreeInv PROVE TextOK
  OBVIOUS
<1> DEFINE Printed(r) == <<content[r], {<<g, negated[g]>> : g \in AncestorsIn(parent, r)}>>
           T == [r \in Present |-> Printed(r)]
<1>1. Text = IF ~enabled THEN NoText ELSE T
  BY DEF Text
<1>2. \A r \in Present : Printed(r) \in Contents \X SUBSET (AllGroups \X BOOLEAN)
  <2> SUFFICES ASSUME NEW r \in Present
               PROVE  Printed(r) \in Contents \X SUBSET (AllGroups \X BOOLEAN)
    OBVIOUS
  <2>1. r \in Rules /\ r \in Items /\ parent[r] # Absent
    BY DEF Present, Items
  <2>2. AncestorsIn(parent, r) \subseteq AllGroups
    BY <2>1 DEF TreeInv, Hangs, Around
  <2>3. {<<g, negated[g]>> : g \in AncestorsIn(parent, r)} \in SUBSET (AllGroups \X BOOLEAN)
    BY <2>2 DEF TreeType
  <2> QED BY <2>1, <2>3 DEF TreeType
<1>3. \A r \in Present : Printed(r)[1] = content[r]
  OBVIOUS
<1> HIDE DEF Printed
<1>4. T \in [Present -> Contents \X SUBSET (AllGroups \X BOOLEAN)]
  BY <1>2
<1>5. Present \in SUBSET Rules
  BY DEF Present
<1>6. T \in Texts
  BY <1>4, <1>5 DEF Texts
<1>7. CompleteText(T) <=> LocallyValid
  BY <1>3 DEF CompleteText, LocallyValid
<1> QED BY <1>1, <1>6, <1>7, NoTextType DEF TextOK

LEMMA SameText ==
  ASSUME UNCHANGED <<tree, enabled>>
  PROVE  /\ Text' = Text /\ (LocallyValid <=> LocallyValid') /\ Key' = Key
         /\ (TreeInv => TreeInv') /\ (TreeType => TreeType')
BY DEF Text, LocallyValid, Key, tree, TreeInv, Present, TreeType

\* A render of the open step that validates.
LEMMA ValidateVerdict ==
  ASSUME TypeOK, VerdictInv, TreeType', TreeInv', Validate, open', UNCHANGED inflight
  PROVE  VerdictInv' /\ VerdictType'
<1>1. prevKey' = Key' /\ VerdictType
  BY TypeParts DEF Validate
<1>2. /\ Text' \in Texts /\ (enabled' /\ LocallyValid' => CompleteText(Text'))
      /\ (Text' # NoText => enabled')
  <2>1. TextOK'
    BY TextType, PTL
  <2> QED BY <2>1 DEF TextOK, CompleteText
<1>3. \A i \in 1 .. Len(inflight') : CompleteText(inflight'[i])
  BY DEF VerdictInv
<1>4. CASE Text' = NoText
  <2>1. timer' = NoText /\ UNCHANGED <<expr, status, history>>
    BY <1>4 DEF Validate, CancelTimer
  <2>2. VerdictIsCurrent'
    BY <1>4, <2>1 DEF VerdictIsCurrent, PendingIsCurrent
  <2>3. VerdictType'
    BY <1>1, <2>1, NoTextType DEF VerdictType, history
  <2> QED BY <1>1, <1>3, <2>1, <2>2, <2>3 DEF VerdictInv
<1>5. CASE Text' # NoText /\ ~LocallyValid'
  <2>1. /\ timer' = NoText /\ status' = "idle" /\ late' = FALSE
        /\ UNCHANGED <<expr, judged, dropped>>
    BY <1>5 DEF Validate, CancelTimer
  <2>2. VerdictIsCurrent'
    BY <2>1 DEF VerdictIsCurrent, PendingIsCurrent
  <2>3. VerdictType'
    BY <1>1, <2>1, NoTextType DEF VerdictType
  <2> QED BY <1>1, <1>3, <2>1, <2>2, <2>3 DEF VerdictInv
<1>6. CASE Text' # NoText /\ LocallyValid'
  <2>1. /\ timer' = Text' /\ expr' = Text' /\ status' = "validating" /\ late' = FALSE
        /\ dropped' = FALSE /\ UNCHANGED judged
    BY <1>6 DEF Validate
  <2>2. VerdictIsCurrent'
    BY <1>6, <2>1 DEF VerdictIsCurrent, PendingIsCurrent
  <2>3. VerdictType'
    BY <1>1, <1>2, <2>1 DEF VerdictType
  <2>4. CompleteText(timer')
    BY <1>2, <1>6, <2>1
  <2> QED BY <1>1, <1>3, <2>1, <2>2, <2>3, <2>4 DEF VerdictInv
<1> QED BY <1>4, <1>5, <1>6

\* A render after an edit.
LEMMA EffectVerdict ==
  ASSUME TypeOK, VerdictInv, TreeType', TreeInv', NEW touched \in BOOLEAN, Effect(touched), Edit
  PROVE  VerdictInv' /\ VerdictType'
<1>1. open /\ open' /\ UNCHANGED inflight
  BY DEF Edit
<1>2. CASE Key' # prevKey
  BY <1>1, <1>2, ValidateVerdict DEF Effect
<1>3. CASE Key' = prevKey
  <2>1. Key' = Key
    BY <1>1, <1>3 DEF VerdictInv
  <2>2. Text' = Text /\ (LocallyValid <=> LocallyValid')
    BY <2>1, SameText DEF Key
  <2>3. /\ timer' \in {timer, NoText} /\ dropped' \in BOOLEAN
        /\ UNCHANGED <<expr, status, prevKey, judged, late>>
    BY <1>3, TypeParts DEF Effect, CancelTimer, VerdictType
  <2>4. VerdictIsCurrent'
    BY <1>1, <2>2, <2>3 DEF VerdictInv, VerdictIsCurrent, PendingIsCurrent
  <2>5. VerdictType'
    BY <2>3, TypeParts, NoTextType DEF VerdictType
  <2> QED BY <1>1, <1>3, <2>1, <2>3, <2>4, <2>5 DEF VerdictInv
<1> QED BY <1>2, <1>3

LEMMA EditFilter ==
  ASSUME FilterInv, Edit, NEW touched \in BOOLEAN, Effect(touched), TreeType', TreeInv'
  PROVE  FilterInv'
<1>1. VerdictInv' /\ VerdictType'
  BY EffectVerdict DEF FilterInv
<1>2. open' \in BOOLEAN /\ edits' \in 0..MaxEdits /\ SentType'
  BY TypeParts DEF FilterInv, Edit, SentType
<1> QED BY <1>1, <1>2 DEF FilterInv, TypeOK, TreeType, VerdictType, SentType, Tree

LEMMA AddFilter ==
  ASSUME FilterInv,
         \/ \E r \in Rules, g \in AllGroups : AddRule(r, g)
         \/ \E n \in Groups, g \in AllGroups : AddGroup(n, g)
  PROVE  FilterInv'
<1>1. TreeType /\ TreeInv /\ parent \in Tree
  BY TypeParts DEF FilterInv, TreeType
<1>2. CASE \E r \in Rules, g \in AllGroups : AddRule(r, g)
  <2>1. PICK r \in Rules, g \in AllGroups : AddRule(r, g)
    BY <1>2
  <2>2. /\ Edit /\ Effect(FALSE) /\ parent[r] = Absent /\ g \in InTree /\ r \in Items
        /\ parent' = [parent EXCEPT ![r] = g] /\ r \notin Groups /\ enabled' = TRUE
    BY <2>1 DEF AddRule, Items
  <2>3. TreeInv'
    BY <1>1, <2>2, AddHangs DEF TreeInv
  <2>4. TreeType'
    BY <1>1, <2>1 DEF AddRule, TreeType, Tree, Contents
  <2> QED BY <2>2, <2>3, <2>4, EditFilter
<1>3. CASE \E n \in Groups, g \in AllGroups : AddGroup(n, g)
  <2>1. PICK n \in Groups, g \in AllGroups : AddGroup(n, g)
    BY <1>3
  <2>2. /\ Edit /\ Effect(FALSE) /\ parent[n] = Absent /\ g \in InTree /\ n \in Items
        /\ parent' = [parent EXCEPT ![n] = g] /\ Depth(g) < MaxGroupDepth - 1 /\ enabled' = TRUE
    BY <2>1 DEF AddGroup, Items
  <2>3. TreeInv'
    BY <1>1, <2>2, AddHangs DEF TreeInv
  <2>4. TreeType'
    BY <1>1, <2>1 DEF AddGroup, TreeType, Tree
  <2> QED BY <2>2, <2>3, <2>4, EditFilter
<1> QED BY <1>2, <1>3

LEMMA UpdateFilter ==
  ASSUME FilterInv,
         \/ \E r \in Rules, c \in Contents : UpdateRule(r, c)
         \/ \E g \in AllGroups : UpdateGroup(g)
  PROVE  FilterInv'
<1>1. TreeType /\ TreeInv /\ UNCHANGED <<parent, enabled>>
  BY TypeParts DEF FilterInv, UpdateRule, UpdateGroup
<1>2. TreeInv'
  BY <1>1 DEF TreeInv, Present
<1>3. TreeType'
  BY <1>1 DEF TreeType, UpdateRule, UpdateGroup
<1>4. Edit /\ \E touched \in BOOLEAN : Effect(touched)
  BY DEF UpdateRule, UpdateGroup
<1> QED BY <1>2, <1>3, <1>4, EditFilter

LEMMA RemoveFilter ==
  ASSUME FilterInv, NEW i \in Items, RemoveItem(i)
  PROVE  FilterInv'
<1>1. TreeType /\ TreeInv /\ parent \in Tree
  BY TypeParts DEF FilterInv, TreeType
<1>2. /\ Edit /\ Effect(FALSE) /\ (enabled' <=> Present' # {})
      /\ UNCHANGED <<content, negated>>
      /\ parent' = [j \in Items |->
                      IF j = i \/ i \in AncestorsIn(parent, j) THEN Absent ELSE parent[j]]
  BY DEF RemoveItem
<1>3. TreeInv'
  BY <1>1, <1>2, RemoveHangs DEF TreeInv
<1>4. parent' \in Tree
  BY <1>1, <1>2 DEF Tree
<1>5. enabled' \in BOOLEAN
  BY DEF RemoveItem
<1>6. TreeType'
  BY <1>1, <1>2, <1>4, <1>5 DEF TreeType
<1> QED BY <1>2, <1>3, <1>6, EditFilter

\* A closed step says nothing.
LEMMA ClosedVerdict ==
  ASSUME VerdictInv, ~open', timer' = NoText, UNCHANGED inflight
  PROVE  VerdictInv'
BY DEF VerdictInv, VerdictIsCurrent, PendingIsCurrent

\* The tree of a new store.
LEMMA EmptyTyped ==
  /\ [i \in Items |-> Absent] \in Tree
  /\ [r \in Rules |-> "empty"] \in [Rules -> Contents]
  /\ [g \in AllGroups |-> FALSE] \in [AllGroups -> BOOLEAN]
<1>1. [i \in Items |-> Absent] \in Tree
  BY DEF Tree
<1>2. "empty" \in Contents
  BY DEF Contents
<1>3. [r \in Rules |-> "empty"] \in [Rules -> Contents]
  BY <1>2
<1> QED BY <1>1, <1>3

LEMMA EmptyIsTree ==
  ASSUME EmptyTree, enabled' = FALSE
  PROVE  TreeInv' /\ TreeType'
<1>1. \A i \in Items : parent'[i] = Absent
  BY DEF EmptyTree
<1>2. Present' = {}
  BY <1>1 DEF Present, Items
<1>3. TreeInv'
  BY <1>1, <1>2 DEF TreeInv
<1>4. TreeType'
  BY EmptyTyped DEF EmptyTree, TreeType
<1> QED BY <1>3, <1>4

LEMMA MountFilter ==
  ASSUME FilterInv, Mount
  PROVE  FilterInv'
<1>1. TreeInv' /\ TreeType' /\ open' /\ open' \in BOOLEAN /\ UNCHANGED inflight /\ Validate
  BY SameText, TypeParts DEF FilterInv, Mount
<1>2. VerdictInv' /\ VerdictType'
  BY <1>1, ValidateVerdict DEF FilterInv
<1>3. SentType' /\ edits' \in 0..MaxEdits
  BY <1>1, TypeParts DEF FilterInv, SentType, Mount
<1> QED BY <1>1, <1>2, <1>3 DEF FilterInv, TypeOK, TreeType, VerdictType, SentType, Tree

LEMMA LeaveFilter ==
  ASSUME FilterInv, Leave \/ HandleSave \/ SkipFilter
  PROVE  FilterInv'
<1>1. /\ open' = FALSE /\ timer' = NoText /\ UNCHANGED <<inflight, edits, history>>
      /\ expr' \in {expr, Text, NoText} /\ status' \in {status, "idle"}
  BY DEF Leave, HandleSave, SkipFilter, Unmount, CancelTimer
<1>2. TreeType /\ TreeInv /\ VerdictType /\ Text \in Texts
  BY TypeParts, TextType DEF FilterInv, TextOK
<1>3. TreeInv' /\ TreeType'
  BY <1>2, SameText, EmptyIsTree DEF Leave, HandleSave, SkipFilter
<1>4. VerdictType'
  BY <1>1, <1>2, NoTextType DEF VerdictType, history
<1>5. VerdictInv'
  BY <1>1, ClosedVerdict DEF FilterInv
<1>6. SentType' /\ edits' \in 0..MaxEdits
  BY <1>1, TypeParts DEF FilterInv, SentType
<1> QED BY <1>1, <1>3, <1>4, <1>5, <1>6
        DEF FilterInv, TypeOK, TreeType, VerdictType, SentType, Tree

LEMMA DiscardFilter ==
  ASSUME FilterInv, ResetFilterStore
  PROVE  FilterInv'
<1>1. TreeInv' /\ TreeType'
  BY EmptyIsTree DEF ResetFilterStore
<1>2. VerdictType' /\ VerdictIsCurrent'
  BY TypeParts, NoTextType
     DEF FilterInv, ResetFilterStore, CancelTimer, history, VerdictType, VerdictIsCurrent, PendingIsCurrent
<1>3. VerdictInv'
  BY <1>2 DEF FilterInv, VerdictInv, ResetFilterStore, CancelTimer, Edit
<1>4. open' \in BOOLEAN /\ SentType' /\ edits' \in 0..MaxEdits
  BY TypeParts DEF FilterInv, ResetFilterStore, Edit, SentType
<1> QED BY <1>1, <1>2, <1>3, <1>4 DEF FilterInv, TypeOK, TreeType, VerdictType, SentType, Tree

LEMMA HydratedKeeps ==
  ASSUME FilterInv, NEW r \in Rules, NEW parsed \in BOOLEAN, HydrateFilter(r, parsed)
  PROVE  FilterInv'
<1>1. /\ ~open /\ ~open' /\ UNCHANGED <<inflight, timer, prevKey, open, dropped>>
      /\ enabled' = TRUE /\ status' = "valid" /\ late' = FALSE /\ judged' = expr'
      /\ edits' \in 0..MaxEdits
  BY DEF HydrateFilter, FilterInv, TypeOK
<1>2. TreeType /\ TreeInv /\ VerdictType /\ timer = NoText
  BY <1>1, TypeParts DEF FilterInv, VerdictInv, VerdictIsCurrent, PendingIsCurrent
<1>3. expr' \in Texts
  <2>1. expr' = [x \in {r} |-> <<"good", {<<Root, FALSE>>}>>]
    BY DEF HydrateFilter
  <2>2. <<"good", {<<Root, FALSE>>}>> \in Contents \X SUBSET (AllGroups \X BOOLEAN)
    <3>1. "good" \in Contents
      BY DEF Contents
    <3>2. <<Root, FALSE>> \in AllGroups \X BOOLEAN
      BY DEF AllGroups
    <3>3. {<<Root, FALSE>>} \in SUBSET (AllGroups \X BOOLEAN)
      BY <3>2
    <3> QED BY <3>1, <3>3
  <2>3. expr' \in [{r} -> Contents \X SUBSET (AllGroups \X BOOLEAN)]
    BY <2>1, <2>2
  <2> QED BY <2>3 DEF Texts
<1>4. TreeInv' /\ TreeType'
  <2>1. CASE parsed
    <3>1. /\ parent' = [i \in Items |-> IF i = r THEN Root ELSE Absent]
          /\ content' = [x \in Rules |-> IF x = r THEN "good" ELSE "empty"]
          /\ negated' = [g \in AllGroups |-> FALSE]
      BY <2>1 DEF HydrateFilter
    <3>2. TreeType'
      BY <1>1, <3>1 DEF TreeType, Tree, AllGroups, Contents
    <3>3. r \in Items /\ r \notin Groups /\ parent'[r] = Root /\ Root # Absent
      BY <3>1 DEF Items, AllGroups
    <3>4. Hangs(parent', r)
      BY <3>3, AroundRoot, FS_Singleton, HangsIn
    <3>5. \A i \in Items : parent'[i] # Absent => i = r
      BY <3>1
    <3> QED BY <1>1, <3>2, <3>4, <3>5 DEF TreeInv
  <2>2. CASE ~parsed
    BY <1>1, <1>2, <2>2 DEF HydrateFilter, tree, TreeInv, TreeType, Present
  <2> QED BY <2>1, <2>2
<1>5. VerdictType'
  BY <1>1, <1>2, <1>3 DEF VerdictType
<1>6. VerdictInv'
  BY <1>1, <1>2, ClosedVerdict DEF FilterInv
<1>7. SentType' /\ open' \in BOOLEAN
  BY <1>1, TypeParts DEF FilterInv, SentType
<1> QED BY <1>1, <1>4, <1>5, <1>6, <1>7
        DEF FilterInv, TypeOK, TreeType, VerdictType, SentType, Tree

LEMMA TimerFilter ==
  ASSUME FilterInv, TimerFires
  PROVE  FilterInv'
<1>1. /\ UNCHANGED <<tree, enabled, expr, status, open, prevKey, edits, history>>
      /\ timer # NoText /\ timer' = NoText /\ inflight' = Append(inflight, timer)
      /\ Len(inflight) < MaxInFlight
  BY DEF TimerFires
<1>2. /\ TreeType' /\ TreeInv' /\ Text' = Text /\ (LocallyValid <=> LocallyValid')
      /\ Key' = Key /\ VerdictType
  BY <1>1, SameText, TypeParts DEF FilterInv
<1>3. inflight \in Seq(Texts) /\ timer \in Texts
  BY TypeParts DEF FilterInv, SentType, VerdictType
<1>4. SentType'
  BY <1>1, <1>3 DEF SentType
<1>5. VerdictType'
  BY <1>1, <1>2, NoTextType DEF VerdictType, history
<1>6. VerdictIsCurrent'
  BY <1>1, <1>2 DEF FilterInv, VerdictInv, VerdictIsCurrent, PendingIsCurrent, history
<1>7. \A i \in 1 .. Len(inflight') : CompleteText(inflight'[i])
  <2>1. CompleteText(timer) /\ \A i \in 1 .. Len(inflight) : CompleteText(inflight[i])
    BY <1>1 DEF FilterInv, VerdictInv
  <2>2. \A i \in 1 .. Len(inflight') :
           \/ inflight'[i] = timer
           \/ i \in 1 .. Len(inflight) /\ inflight'[i] = inflight[i]
    BY <1>1, <1>3
  <2> QED BY <2>1, <2>2
<1>8. VerdictInv'
  BY <1>1, <1>2, <1>6, <1>7 DEF FilterInv, VerdictInv
<1>9. open' \in BOOLEAN /\ edits' \in 0..MaxEdits
  BY <1>1 DEF FilterInv, TypeOK
<1> QED BY <1>2, <1>4, <1>5, <1>8, <1>9
        DEF FilterInv, TypeOK, TreeType, VerdictType, SentType, Tree

LEMMA RemovedAt ==
  ASSUME NEW S, NEW s \in Seq(S), NEW i \in 1 .. Len(s)
  PROVE  /\ RemoveAt(s, i) \in Seq(S) /\ Len(RemoveAt(s, i)) = Len(s) - 1
         /\ \A k \in 1 .. Len(RemoveAt(s, i)) : \E j \in 1 .. Len(s) : RemoveAt(s, i)[k] = s[j]
<1> DEFINE a == SubSeq(s, 1, i - 1)
           b == SubSeq(s, i + 1, Len(s))
<1>1. a \in Seq(S) /\ Len(a) = i - 1 /\ \A k \in 1 .. i - 1 : a[k] = s[k]
  OBVIOUS
<1>2. b \in Seq(S) /\ Len(b) = Len(s) - i /\ \A k \in 1 .. Len(s) - i : b[k] = s[k + i]
  OBVIOUS
<1>3. RemoveAt(s, i) = a \o b
  BY DEF RemoveAt
<1> HIDE DEF a, b
<1>4. a \o b \in Seq(S) /\ Len(a \o b) = Len(s) - 1
  <2>1. a \o b \in Seq(S) /\ Len(a \o b) = Len(a) + Len(b)
    BY <1>1, <1>2, ConcatProperties
  <2> QED BY <1>1, <1>2, <2>1
<1>5. \A k \in 1 .. Len(s) - 1 : (a \o b)[k] = IF k <= i - 1 THEN a[k] ELSE b[k - (i - 1)]
  <2>1. \A k \in 1 .. Len(a) + Len(b) :
           (a \o b)[k] = IF k <= Len(a) THEN a[k] ELSE b[k - Len(a)]
    BY <1>1, <1>2, ConcatProperties
  <2> QED BY <1>1, <1>2, <2>1
<1>6. ASSUME NEW k \in 1 .. Len(s) - 1 PROVE \E j \in 1 .. Len(s) : (a \o b)[k] = s[j]
  <2>1. CASE k <= i - 1
    <3>1. k \in 1 .. i - 1 /\ k \in 1 .. Len(s)
      BY <2>1
    <3>2. (a \o b)[k] = s[k]
      BY <1>1, <1>5, <2>1, <3>1
    <3> QED BY <3>1, <3>2
  <2>2. CASE k > i - 1
    <3>1. k - (i - 1) \in 1 .. Len(s) - i /\ k + 1 \in 1 .. Len(s)
      BY <2>2
    <3>2. b[k - (i - 1)] = s[k + 1]
      BY <1>2, <3>1
    <3>3. ~(k <= i - 1)
      BY <2>2
    <3>4. (a \o b)[k] = s[k + 1]
      BY <1>5, <3>2, <3>3
    <3> QED BY <3>1, <3>4
  <2>3. k <= i - 1 \/ k > i - 1
    OBVIOUS
  <2> QED BY <2>1, <2>2, <2>3
<1> QED BY <1>3, <1>4, <1>6

LEMMA AnswerFilter ==
  ASSUME FilterInv, NEW i \in DOMAIN inflight, Answer(i)
  PROVE  FilterInv'
<1> DEFINE e == inflight[i]
<1>1. /\ UNCHANGED <<tree, enabled, expr, open, prevKey, timer, edits, dropped>>
      /\ status' \in {"valid", "invalid"} /\ judged' = e /\ (late' <=> e # Text)
      /\ late' \in BOOLEAN /\ inflight' = RemoveAt(inflight, i)
  BY DEF Answer
<1>2. /\ TreeType' /\ TreeInv' /\ Text' = Text /\ (LocallyValid <=> LocallyValid')
      /\ Key' = Key /\ VerdictType /\ TextOK
  BY <1>1, SameText, TypeParts, TextType DEF FilterInv
<1>3. inflight \in Seq(Texts) /\ i \in 1 .. Len(inflight) /\ e \in Texts
  BY TypeParts DEF FilterInv, SentType
<1>4. /\ inflight' \in Seq(Texts) /\ Len(inflight') = Len(inflight) - 1
      /\ \A k \in 1 .. Len(inflight') : \E j \in 1 .. Len(inflight) : inflight'[k] = inflight[j]
  BY <1>1, <1>3, RemovedAt
<1>5. SentType'
  BY <1>3, <1>4, TypeParts DEF FilterInv, SentType
<1>6. VerdictType'
  BY <1>1, <1>2, <1>3 DEF VerdictType
<1>7. \A k \in 1 .. Len(inflight) : CompleteText(inflight[k])
  BY DEF FilterInv, VerdictInv
<1>8. VerdictIsCurrent'
  <2>1. PendingIsCurrent'
    BY <1>1, <1>2 DEF FilterInv, VerdictInv, VerdictIsCurrent, PendingIsCurrent
  <2>2. Text' # NoText /\ ~late' => LocallyValid' /\ judged' = Text'
    BY <1>1, <1>2, <1>3, <1>7 DEF TextOK
  <2> QED BY <2>1, <2>2 DEF VerdictIsCurrent
<1>9. VerdictInv'
  BY <1>1, <1>2, <1>4, <1>7, <1>8 DEF FilterInv, VerdictInv
<1>10. open' \in BOOLEAN /\ edits' \in 0..MaxEdits
  BY <1>1 DEF FilterInv, TypeOK
<1> QED BY <1>2, <1>5, <1>6, <1>9, <1>10
        DEF FilterInv, TypeOK, TreeType, VerdictType, SentType, Tree

LEMMA StutterFilter == FilterInv /\ UNCHANGED vars => FilterInv'
<1> SUFFICES ASSUME FilterInv, UNCHANGED vars PROVE FilterInv'
  OBVIOUS
<1>1. /\ TreeType' /\ TreeInv' /\ Text' = Text /\ (LocallyValid <=> LocallyValid')
      /\ Key' = Key
  BY SameText, TypeParts DEF FilterInv, vars, tree
<1>2. TypeOK'
  BY DEF FilterInv, TypeOK, vars
<1>3. VerdictInv'
  BY <1>1 DEF FilterInv, VerdictInv, VerdictIsCurrent, PendingIsCurrent, vars
<1> QED BY <1>1, <1>2, <1>3 DEF FilterInv

LEMMA FilterInit == Init => FilterInv
<1> SUFFICES ASSUME Init PROVE FilterInv
  OBVIOUS
<1>1. TypeOK
  <2>1. TreeType
    BY EmptyTyped DEF Init, TreeType
  <2>2. VerdictType
    BY NoTextType DEF Init, VerdictType
  <2>3. << >> \in Seq(Texts) /\ Len(<< >>) = 0
    OBVIOUS
  <2>4. SentType
    BY <2>3 DEF Init, SentType
  <2>5. open \in BOOLEAN /\ edits = 0
    BY DEF Init
  <2>6. 0 \in 0..MaxEdits
    BY FilterAssumption
  <2> QED BY <2>1, <2>2, <2>4, <2>5, <2>6, TypeParts
<1>2. TreeInv
  BY DEF Init, TreeInv, Present, Items
<1>3. VerdictInv
  BY DEF Init, VerdictInv, VerdictIsCurrent, PendingIsCurrent
<1> QED BY <1>1, <1>2, <1>3 DEF FilterInv

LEMMA FilterNext == FilterInv /\ [Next]_vars => FilterInv'
<1> SUFFICES ASSUME FilterInv, [Next]_vars PROVE FilterInv'
  OBVIOUS
<1>1. CASE \/ \E r \in Rules, g \in AllGroups : AddRule(r, g)
           \/ \E n \in Groups, g \in AllGroups : AddGroup(n, g)
  BY <1>1, AddFilter
<1>2. CASE \/ \E r \in Rules, c \in Contents : UpdateRule(r, c)
           \/ \E g \in AllGroups : UpdateGroup(g)
  BY <1>2, UpdateFilter
<1>3. CASE \E i \in Items : RemoveItem(i)
  BY <1>3, RemoveFilter
<1>4. CASE Mount \/ Leave \/ HandleSave \/ SkipFilter \/ ResetFilterStore
  BY <1>4, MountFilter, LeaveFilter, DiscardFilter
<1>5. CASE \E r \in Rules, parsed \in BOOLEAN : HydrateFilter(r, parsed)
  BY <1>5, HydratedKeeps
<1>6. CASE TimerFires \/ \E i \in DOMAIN inflight : Answer(i)
  BY <1>6, TimerFilter, AnswerFilter
<1>7. CASE UNCHANGED vars
  BY <1>7, StutterFilter
<1> QED BY <1>1, <1>2, <1>3, <1>4, <1>5, <1>6, <1>7 DEF Next

\* In every reachable state of the filter step the groups form a tree, and the open step has
\* seen the filter on screen.
THEOREM FilterInvariant == Spec => []FilterInv
  BY FilterInit, FilterNext, PTL DEF Spec

\* Types of the filter store's variables (FilterStoreProps, the refs of FilterConfigurator).
THEOREM FilterTypeCorrect == Spec => []TypeOK
<1>1. FilterInv => TypeOK
  BY DEF FilterInv
<1> QED BY <1>1, FilterInvariant, PTL

\* However items are added, moved into groups, removed and hydrated, the filter is a tree of
\* bounded depth, and enabled as long as it has a rule (addGroup, removeItem, addRule).
THEOREM FilterStaysATree == Spec => []TreeSound
<1>1. FilterInv => TreeSound
  BY DEF FilterInv, TreeInv, Hangs, TreeSound, NestingBounded, Depth
<1> QED BY <1>1, FilterInvariant, PTL

\* What the open step says of a filter is about that filter, or the verdict came late,
\* whichever answers arrive in whichever order (the effect of FilterConfigurator).
THEOREM VerdictsAreCurrent == Spec => []VerdictIsCurrent
<1>1. FilterInv => VerdictIsCurrent
  BY DEF FilterInv, VerdictInv
<1> QED BY <1>1, FilterInvariant, PTL
=============================================================================
