-------------------------------- MODULE Wizard --------------------------------
(* The wizard that creates a pipeline: its journey of steps, the completed ones, the    *)
(* validation sectionStatus of the sections of the store, and what the steps do to each other. *)
(* Handlers run in the closure of the last render: what they decide from the statuses   *)
(* they decide from the statuses of that render, and a handler that awaits the backend  *)
(* goes on after the answer with the closure it was called in.                          *)
EXTENDS Naturals, FiniteSets, Sequences, SequencesExt

CONSTANTS
  TopicNames,             \* the topics of the cluster
  MaxSchema,              \* bound: shapes of the events of a topic
  FiltersEnabled, TransformationsEnabled, PreviewModeEnabled,
  MaxPending,             \* bound: requests of the wizard under way
  MaxMoves,               \* bound: clicks in the sidebar
  TopicCounts,            \* the numbers of topics to choose from, 1 and 2
  Nowhere                 \* no step, no topic, no mapping

ASSUME WizardAssumption ==
  /\ TopicCounts \subseteq {1, 2} /\ MaxSchema \in Nat
  /\ {FiltersEnabled, TransformationsEnabled, PreviewModeEnabled} \subseteq BOOLEAN

VARIABLES
  topicCount,      \* coreStore.topicCount
  activeStep,      \* stepsStore.activeStepId
  completedSteps,  \* stepsStore.completedStepIds
  resumeStep,      \* stepsStore.resumeStepId
  sectionStatus,          \* section -> the status of its store's validation
  topics,          \* topicsStore.topics: name and shape of the selected event, 0 without one
  originalTopic,   \* originalTopicRef of the topic step on the screen
  joinedFor,       \* the topics whose fields the join was made from, Nowhere without a join
  mappedFor,       \* the topics whose fields the mapping was made from, Nowhere when it is empty
  moves,           \* clicks in the sidebar so far
  pending,         \* the closures that wait for an answer
  raced,           \* history: an answer found the wizard changed since it was asked for
  abandoned        \* history: a topic was picked and its step left without Continue

wizardVars == <<topicCount, activeStep, completedSteps, resumeStep, sectionStatus, topics,
                originalTopic, joinedFor, mappedFor, moves, pending, raced, abandoned>>

TopicSteps == {"topic1", "topic2"}
When(enabled, step) == IF enabled THEN <<step>> ELSE <<>>

SingleTopicJourney ==
  <<"kafka", "topic1", "types1", "dedup1">>
  \o When(FiltersEnabled, "filter") \o When(TransformationsEnabled, "transformation")
  \o <<"clickhouse", "mapper", "resources">> \o When(PreviewModeEnabled, "review")

TwoTopicJourney ==
  <<"kafka", "topic1", "types1", "dedup1", "topic2", "types2", "dedup2", "join",
    "clickhouse", "mapper", "resources">> \o When(PreviewModeEnabled, "review")

Journey == IF topicCount = 1 THEN SingleTopicJourney ELSE TwoTopicJourney
IndexOf(step) == CHOOSE i \in 1..Len(Journey) : Journey[i] = step
Before(a, b) == IndexOf(a) < IndexOf(b)

\* The section whose status a step shows; the last steps have none.
SectionOf(step) ==
  CASE step \in {"topic1", "types1", "topic2", "types2"} -> "topics"
    [] step \in {"dedup1", "dedup2"} -> "dedup"
    [] OTHER -> step
Sections == {"kafka", "topics", "dedup", "filter", "transformation", "join", "clickhouse", "mapper"}
SectionStatuses == {"not-configured", "valid", "invalidated"}

ValidationStatus(s, step) == IF SectionOf(step) \in Sections THEN s[SectionOf(step)] ELSE "valid"

\* Every store gives its section the same four ways to a status.
Marked(s, sections, value) == [x \in Sections |-> IF x \in sections THEN value ELSE s[x]]

\* The dependents of a step's node in the dependency graph; steps without a node have none.
Dependents(step) ==
  CASE step = "kafka" -> {"topics", "dedup", "join", "mapper"}
    [] step \in TopicSteps -> {"join", "mapper"}
    [] step \in {"join", "clickhouse"} -> {"mapper"}
    [] OTHER -> {}
OnSectionConfigured(s, step) ==
  Marked(Marked(s, {SectionOf(step)}, "valid"), Dependents(step), "invalidated")

TopicIndex(step) == IF step \in {"topic2", "types2", "dedup2"} THEN 2 ELSE 1
Topic == [name : TopicNames \union {Nowhere}, schema : 0..MaxSchema]
NoTopic == [name |-> Nowhere, schema |-> 0]
TopicsInUse == [i \in 1..topicCount |-> topics[i]]

-----------------------------------------------------------------------------
(* Navigation *)

\* The topic step remembers what it showed when it came on the screen.
Go(step) ==
  /\ activeStep' = step
  /\ originalTopic' =
       IF step \in TopicSteps /\ topics'[TopicIndex(step)].schema # 0
       THEN topics'[TopicIndex(step)] ELSE NoTopic

\* What a handler knows: the render it was created in.
Closure == [step |-> activeStep, resume |-> resumeStep, status |-> sectionStatus]

\* The first step after `from`, up to the resume target, that is not valid in that render.
BlockingSteps(c) ==
  {i \in (IndexOf(c.step) + 1)..IndexOf(c.resume) :
     ValidationStatus(c.status, Journey[i]) # "valid"}
FirstBlocking(c) == CHOOSE i \in BlockingSteps(c) : \A j \in BlockingSteps(c) : i <= j

\* Mutants: the step kept is dropped as well; a topic step compares with the store alone.
RemoveCompletedStepsFrom(done, i) == {s \in done : IndexOf(s) < i}

RemoveCompletedStepsAfter(done, i) == {s \in done : IndexOf(s) <= i}

\* handleNext: completes the step of the closure and moves on from it.
HandleNext(c) ==
  LET done == completedSteps \union {c.step}
  IN IF c.resume # Nowhere /\ Before(c.step, c.resume)
     THEN /\ resumeStep' = Nowhere
          /\ \/ /\ BlockingSteps(c) = {}
                /\ completedSteps' = done
                /\ Go(c.resume)
             \/ /\ BlockingSteps(c) # {}
                /\ completedSteps' = RemoveCompletedStepsAfter(done, FirstBlocking(c) - 1)
                /\ Go(Journey[FirstBlocking(c)])
     ELSE /\ resumeStep' = IF c.resume # Nowhere THEN Nowhere ELSE resumeStep
          /\ completedSteps' = done
          /\ Go(Journey[IndexOf(c.step) + 1])

LeavesTopicUnsubmitted == activeStep \in TopicSteps /\ topics[TopicIndex(activeStep)].schema = 0

HandleSidebarStepClick(target) ==
  /\ target \in completedSteps
  /\ target # activeStep
  /\ moves < MaxMoves
  /\ moves' = moves + 1
  /\ resumeStep' =
       IF Before(target, activeStep)
       THEN IF resumeStep = Nowhere THEN activeStep ELSE resumeStep
       ELSE Nowhere
  /\ abandoned' = (abandoned \/ LeavesTopicUnsubmitted)
  /\ UNCHANGED <<topicCount, completedSteps, sectionStatus, topics, joinedFor, mappedFor,
                 pending, raced>>
  /\ Go(target)

-----------------------------------------------------------------------------
(* The topic step *)

\* selectTopic writes the store at once: the old event is gone, nothing is invalidated.
SelectTopic(name) ==
  LET i == TopicIndex(activeStep)
  IN /\ activeStep \in TopicSteps
     /\ topics[i].name # name
     /\ topics' = [topics EXCEPT ![i] = [name |-> name, schema |-> 0]]
     /\ sectionStatus' =
          Marked(sectionStatus,
                 {"topics"} \union (IF joinedFor = Nowhere THEN {} ELSE {"join"}), "valid")
     /\ UNCHANGED <<topicCount, activeStep, completedSteps, resumeStep, originalTopic,
                    joinedFor, mappedFor, moves, pending, raced, abandoned>>

StoredTopic(submitted) ==
  LET previous == topics[TopicIndex(activeStep)]
  IN IF previous.schema = 0 /\ previous.name = submitted.name THEN submitted ELSE previous

\* The topic the step compares the submitted one with; without an event it had, the submitted one.
PreviousTopic(submitted) ==
  LET previous == IF originalTopic # NoTopic THEN originalTopic ELSE topics[TopicIndex(activeStep)]
  IN IF previous.schema = 0 /\ previous.name = submitted.name THEN submitted ELSE previous

\* A changed topic or event shape resets the join, empties the mapping and invalidates
\* what depends on it; the deduplication is written again, and is valid, in any case.
SubmitTopic(schema) ==
  LET i == TopicIndex(activeStep)
      submitted == [name |-> topics[i].name, schema |-> schema]
      previous == PreviousTopic(submitted)
      written == Marked(sectionStatus, {"topics", "dedup"}, "valid")
  IN /\ activeStep \in TopicSteps
     /\ topics[i].name # Nowhere
     /\ topics' = [topics EXCEPT ![i] = submitted]
     /\ \/ submitted = previous /\ sectionStatus' = written /\ UNCHANGED <<joinedFor, mappedFor>>
        \/ /\ submitted # previous
           /\ joinedFor' = Nowhere
           /\ mappedFor' = Nowhere
           /\ sectionStatus' = Marked(written,
                               {"join", "mapper"} \union
                               (IF i = 1 \/ submitted.name # previous.name THEN {"dedup"} ELSE {}),
                               "invalidated")
     /\ HandleNext(Closure)
     /\ UNCHANGED <<topicCount, moves, pending, raced, abandoned>>

-----------------------------------------------------------------------------
(* The other steps *)

Stay == UNCHANGED <<activeStep, completedSteps, resumeStep, originalTopic>>

\* A step that completes within its click.
Complete(step, s) ==
  /\ activeStep = step
  /\ sectionStatus' = s
  /\ UNCHANGED <<topicCount, topics, moves, pending, raced, abandoned>>
  /\ HandleNext(Closure)

\* Picking another offset drops the event of the topic.
HandleOffsetChange ==
  LET i == TopicIndex(activeStep)
  IN /\ activeStep \in TopicSteps
     /\ topics[i].schema # 0
     /\ topics' = [topics EXCEPT ![i].schema = 0]
     /\ sectionStatus' = Marked(sectionStatus, {"topics"}, "valid")
     /\ UNCHANGED <<topicCount, joinedFor, mappedFor, moves, pending, raced, abandoned>>
     /\ Stay

\* Type verification, and deduplication saved or skipped.
ConfigureTopic ==
  \E step \in {"types1", "types2", "dedup1", "dedup2"} :
    /\ topics[TopicIndex(step)].name # Nowhere
    /\ Complete(step, OnSectionConfigured(sectionStatus, step))
    /\ UNCHANGED <<joinedFor, mappedFor>>

\* The stores of these steps take a section for valid as soon as it is edited.
EditSection ==
  /\ activeStep \in {"dedup1", "dedup2", "filter", "transformation"}
  /\ sectionStatus[SectionOf(activeStep)] # "valid"
  /\ sectionStatus' = Marked(sectionStatus, {SectionOf(activeStep)}, "valid")
  /\ UNCHANGED <<topicCount, topics, joinedFor, mappedFor, moves, pending, raced, abandoned>>
  /\ Stay

\* Saving a filter leaves its section as it is, skipping it makes it valid.
CompleteFilter ==
  /\ \E s \in {sectionStatus, Marked(sectionStatus, {"filter"}, "valid")} : Complete("filter", s)
  /\ UNCHANGED <<joinedFor, mappedFor>>

\* A transformation without fields, or a skipped one, is not sent to the backend.
SkipTransformation ==
  /\ Complete("transformation", OnSectionConfigured(sectionStatus, "transformation"))
  /\ UNCHANGED <<joinedFor, mappedFor>>

SubmitJoin ==
  /\ \A i \in {1, 2} : topics[i].name # Nowhere
  /\ Complete("join", OnSectionConfigured(sectionStatus, "join"))
  /\ joinedFor' = TopicsInUse
  /\ UNCHANGED mappedFor

\* An empty mapping is made from the events of the topics; a mapping that is there stays.
Mapping == IF mappedFor = Nowhere THEN TopicsInUse ELSE mappedFor
CanMap == mappedFor # Nowhere \/ \A i \in 1..topicCount : topics[i].schema # 0

EditMapping ==
  /\ activeStep = "mapper"
  /\ CanMap
  /\ mappedFor' = Mapping
  /\ sectionStatus' = Marked(sectionStatus, {"mapper"}, "valid")
  /\ UNCHANGED <<topicCount, topics, joinedFor, moves, pending, raced, abandoned>>
  /\ Stay

SaveMapping ==
  /\ CanMap
  /\ Complete("mapper", Marked(sectionStatus, {"mapper"}, "valid"))
  /\ mappedFor' = Mapping
  /\ UNCHANGED joinedFor

\* Without the preview this step deploys and leaves the wizard.
SaveResources ==
  /\ PreviewModeEnabled
  /\ Complete("resources", sectionStatus)
  /\ UNCHANGED <<joinedFor, mappedFor>>

-----------------------------------------------------------------------------
(* Steps that wait for the backend; the sidebar works meanwhile *)

Ask ==
  /\ activeStep \in {"kafka", "clickhouse", "transformation"}
  /\ Closure \notin pending
  /\ Cardinality(pending) < MaxPending
  /\ pending' = pending \union {Closure}
  /\ UNCHANGED <<topicCount, activeStep, completedSteps, resumeStep, sectionStatus, topics,
                 originalTopic, joinedFor, mappedFor, moves, raced, abandoned>>

\* A good answer makes the section valid and completes the step of the closure.  In the
\* wizard a new Kafka or ClickHouse connection invalidates nothing.
AnswerGood(c) ==
  /\ pending' = pending \ {c}
  /\ sectionStatus' = Marked(sectionStatus, {SectionOf(c.step)}, "valid")
  /\ raced' = (raced \/ c # Closure)
  /\ abandoned' = (abandoned \/ LeavesTopicUnsubmitted)
  /\ UNCHANGED <<topicCount, topics, joinedFor, mappedFor, moves>>
  /\ HandleNext(c)

AnswerBad(c) ==
  /\ pending' = pending \ {c}
  /\ UNCHANGED <<topicCount, activeStep, completedSteps, resumeStep, sectionStatus, topics,
                 originalTopic, joinedFor, mappedFor, moves, raced, abandoned>>

-----------------------------------------------------------------------------
WizardInit ==
  /\ topicCount \in TopicCounts
  /\ activeStep = "kafka"
  /\ completedSteps = {}
  /\ resumeStep = Nowhere
  /\ sectionStatus = [x \in Sections |-> "not-configured"]
  /\ topics = [i \in {1, 2} |-> NoTopic]
  /\ originalTopic = NoTopic
  /\ joinedFor = Nowhere
  /\ mappedFor = Nowhere
  /\ moves = 0
  /\ pending = {}
  /\ raced = FALSE
  /\ abandoned = FALSE

WizardNext ==
  \/ \E target \in completedSteps : HandleSidebarStepClick(target)
  \/ \E name \in TopicNames : SelectTopic(name)
  \/ HandleOffsetChange
  \/ \E schema \in 1..MaxSchema : SubmitTopic(schema)
  \/ ConfigureTopic
  \/ EditSection
  \/ CompleteFilter
  \/ SkipTransformation
  \/ SubmitJoin
  \/ EditMapping
  \/ SaveMapping
  \/ SaveResources
  \/ Ask
  \/ \E c \in pending : AnswerGood(c)
  \/ \E c \in pending : AnswerBad(c)

WizardSpec == WizardInit /\ [][WizardNext]_wizardVars

-----------------------------------------------------------------------------
(* Properties *)

\* The types of the variables.
WizardTypeOK ==
  /\ topicCount \in TopicCounts
  /\ activeStep \in Range(Journey)
  /\ completedSteps \subseteq Range(Journey)
  /\ resumeStep \in Range(Journey) \union {Nowhere}
  /\ sectionStatus \in [Sections -> SectionStatuses]
  /\ topics \in [{1, 2} -> Topic]
  /\ originalTopic \in Topic
  /\ {joinedFor, mappedFor} \subseteq [1..topicCount -> Topic] \union {Nowhere}
  /\ \A c \in pending : c.step \in Range(Journey) /\ c.status \in [Sections -> SectionStatuses]

\* Unless an answer found the wizard changed, every step before the one on the screen has
\* been completed, however the user moved back, edited and resumed (handleSmartContinue,
\* removeCompletedStepsAfterId, handleSidebarNavigation).
NoStepSkipped ==
  ~raced => \A s \in Range(Journey) : Before(s, activeStep) => s \in completedSteps

\* Unless a picked topic was left without Continue, a join or a mapping made from topics or
\* event shapes that are no longer those of the store is gone once every topic has an event
\* again (executeTopicSubmitAndInvalidation).
NothingStale ==
  ~abandoned /\ (\A i \in 1..topicCount : topics[i].schema # 0)
  => {joinedFor, mappedFor} \subseteq {Nowhere, TopicsInUse}

\* Continue resumes to the step the user had left only when no step on the way to it is
\* invalid (useWizardSmartNavigation: "unless downstream steps are invalidated").  It does
\* not hold, even when no answer comes late: the closure of the click does not see what the
\* same click invalidated.
ResumeStopsAtInvalidated ==
  [][resumeStep # Nowhere /\ activeStep' = resumeStep /\ moves' = moves /\ ~raced'
     => \A s \in Range(Journey) :
          Before(activeStep, s) /\ Before(s, resumeStep)
            => ValidationStatus(sectionStatus', s) = "valid"]_wizardVars
=============================================================================
