----------------------------- MODULE EditSession -----------------------------
(* Viewing and editing deployed pipelines in one browser tab.  The sections of a   *)
(* configuration live in global stores that every details page shares: opening a   *)
(* page hydrates them (usePipelineHydration), "Edit" hydrates them again without   *)
(* waiting (enterEditMode), each form saves into them, "Discard" re-hydrates one   *)
(* section, and "Resume" sends whatever they hold.  Hydration waits for Kafka and  *)
(* for ClickHouse between its writes, and nothing cancels it.                      *)
EXTENDS Naturals, FiniteSets

CONSTANTS
  SessionPipelines,   \* ids of the pipelines the user works on
  RawPipelines,       \* of these, those the API returns in its own (v3) format
  JoinPipelines,      \* of these, those with two topics, a join and deduplication; others have none
  NotConfigured,             \* a section that is not configured
  NoPage,             \* the list of pipelines is shown; no pipeline
  MaxSaves,           \* bound: changes made in forms
  MaxVisits,          \* bound: pages opened and reloads
  MaxJobs             \* bound: hydrations in flight

ASSUME SessionAssumption ==
  /\ NoPage \notin SessionPipelines
  /\ NotConfigured \notin [of : SessionPipelines, edit : Nat]
  /\ MaxSaves \in Nat /\ MaxVisits \in Nat

\* "filter" stands for the transformation as well: both are written in one go.
ConfigSections == {"firstTopic", "secondTopic", "deduplication", "join", "filter", "destination"}

\* What a hydration keeps although another pipeline left it there.
Kept == {"secondTopic", "deduplication"}

\* The sections of a deployed configuration.
Configured(p) ==
  IF p \in JoinPipelines THEN ConfigSections ELSE {"firstTopic", "filter", "destination"}

Content == [of : SessionPipelines, edit : 0..MaxSaves] \cup {NotConfigured}
Configuration == [ConfigSections -> Content]
Empty == [s \in ConfigSections |-> NotConfigured]

VARIABLES
  deployed,      \* the API's configuration of each pipeline; a page fetches it when it opens
                 \* and after every action
  page,          \* the details page shown
  editing,       \* a form of the page is open and editable
  store,         \* the stores' sections
  core,          \* coreStore: pipelineId, mode, isDirty, lastSavedConfig
  hydratedKey,   \* the key in sessionStorage
  jobs,          \* hydrations in flight
  request,       \* the resume with pending edits under way
  saves, visits,
  intended,      \* history: what the user made of each pipeline's configuration
  disturbed      \* history: a change or a resume met a hydration or a request under way, the
                 \* stores of another page, or a view that forgets it; or a page was opened
                 \* while another configuration was hydrated

sessionVars == <<deployed, page, editing, store, core, hydratedKey, jobs, request, saves, visits,
                 intended, disturbed>>

\* Two stages of enterViewMode and enterEditMode that wait: Kafka's topics and samples, and
\* ClickHouse's tables.  A section's hydration runs one stage.
Job == [of : SessionPipelines, config : Configuration, raw : BOOLEAN, view : BOOLEAN,
        stage : {"topics", "rest", "destination"}, all : BOOLEAN]

NoRequest == [of |-> NoPage]

SessionTypeOK ==
  /\ deployed \in [SessionPipelines -> Configuration]
  /\ page \in SessionPipelines \cup {NoPage}
  /\ editing \in BOOLEAN
  /\ store \in Configuration
  /\ core.id \in SessionPipelines \cup {NoPage}
  /\ core.mode \in {"create", "view", "edit"}
  /\ core.isDirty \in BOOLEAN /\ core.raw \in BOOLEAN
  /\ core.lastSaved \in Configuration
  /\ hydratedKey \in SessionPipelines \cup {NoPage}
  /\ jobs \subseteq Job
  /\ request = NoRequest \/ (request.id \in SessionPipelines /\ request.sent \in Configuration)
  /\ saves \in 0..MaxSaves /\ visits \in 0..MaxVisits
  /\ intended \in [SessionPipelines -> Configuration]
  /\ disturbed \in BOOLEAN

SessionInit ==
  /\ deployed = [p \in SessionPipelines |->
                  [s \in ConfigSections |->
                    IF s \in Configured(p) THEN [of |-> p, edit |-> 0] ELSE NotConfigured]]
  /\ page = NoPage /\ editing = FALSE
  /\ store = Empty
  /\ core = [id |-> NoPage, mode |-> "create", isDirty |-> FALSE,
             lastSaved |-> Empty, raw |-> FALSE]
  /\ hydratedKey = NoPage
  /\ jobs = {} /\ request = NoRequest
  /\ saves = 0 /\ visits = 0
  /\ intended = deployed /\ disturbed = FALSE

-----------------------------------------------------------------------------
(* Hydration.                                                                       *)

\* The stores' sections after one stage.  Topics are written by index, none is removed;
\* a deduplication key in the store stays; the raw format has no join, filter or
\* transformation where their hydration looks for them.
Hydrated(st, job) ==
  LET config == job.config IN
  CASE job.stage = "topics" ->
         [st EXCEPT !["firstTopic"] = config["firstTopic"],
                    !["secondTopic"] =
                      IF config["secondTopic"] = NotConfigured THEN @ ELSE config["secondTopic"],
                    !["deduplication"] = IF @ = NotConfigured THEN config["deduplication"] ELSE @]
    [] job.stage = "rest" ->
         [st EXCEPT !["join"] = IF job.raw THEN NotConfigured ELSE config["join"],
                    !["filter"] = IF job.raw THEN NotConfigured ELSE config["filter"],
                    !["destination"] = config["destination"]]
    [] job.stage = "destination" -> [st EXCEPT !["destination"] = config["destination"]]

\* enterViewMode and enterEditMode: the core store at once, the sections in stages.
Entered(p, mode, raw) ==
  [id |-> p, mode |-> mode, isDirty |-> FALSE, lastSaved |-> deployed[p], raw |-> raw]

HydrationOf(p, mode, raw) ==
  [of |-> p, config |-> deployed[p], raw |-> raw, view |-> mode = "view",
   stage |-> "topics", all |-> TRUE]

\* Another configuration is still being written.
Overlaps(p) == \E job \in jobs : job.config # deployed[p]

\* Mutant: the key in sessionStorage alone would count.
KeyIsEnough(st) == TRUE

\* The stores hold topics: nothing says whose.
ValidStoreData(st) == st["firstTopic"] # NotConfigured

\* usePipelineHydration on the page of p, with the core store c, the key k and the store st.
NeedsHydration(p, c, k, st) ==
  /\ ~c.isDirty /\ c.mode # "edit"
  /\ k = p => ~ValidStoreData(st)

\* The effect of page p runs: it opens, its pipeline is fetched again, or the mode changed (a
\* second hydration by the mode that the first one entered writes the same).  j are the
\* hydrations in flight, given is what the user made, met what disturbed.  Whoever starts from
\* what is deployed gives up what was not sent.
EffectRuns(p, c, k, st, j, given, met) ==
  /\ IF p # NoPage /\ NeedsHydration(p, c, k, st)
       THEN /\ Cardinality(j) < MaxJobs
            /\ core' = Entered(p, "view", FALSE)
            /\ jobs' = j \cup {HydrationOf(p, "view", FALSE)}
            /\ hydratedKey' = IF k = p THEN NoPage ELSE k
            /\ intended' = [given EXCEPT ![p] = deployed[p]]
       ELSE core' = c /\ jobs' = j /\ hydratedKey' = k /\ intended' = given
  /\ disturbed' = (met \/ (p # NoPage /\ \E job \in j : job.config # deployed[p]))

OpenPage(p) ==
  /\ page = NoPage /\ visits < MaxVisits
  /\ page' = p /\ visits' = visits + 1
  /\ EffectRuns(p, core, hydratedKey, store, jobs, intended, disturbed)
  /\ UNCHANGED <<deployed, editing, store, request, saves>>

\* The stores, the mode and what runs stay as they are.
LeavePage ==
  /\ page # NoPage
  /\ page' = NoPage /\ editing' = FALSE
  /\ UNCHANGED <<deployed, store, core, hydratedKey, jobs, request, saves, visits, intended,
                 disturbed>>

\* A reload empties the stores and keeps sessionStorage; what was not sent is given up.
Reload ==
  /\ page # NoPage /\ visits < MaxVisits
  /\ visits' = visits + 1
  /\ store' = Empty /\ request' = NoRequest /\ editing' = FALSE
  /\ EffectRuns(page, [core EXCEPT !.mode = "create", !.isDirty = FALSE, !.id = NoPage],
                hydratedKey, Empty, {}, deployed, disturbed)
  /\ UNCHANGED <<deployed, page, saves>>

\* One stage ends its wait and writes; ClickHouse's answer may be missing.
HydrationStep(job) ==
  /\ jobs' = (jobs \ {job}) \cup
       IF ~job.all \/ job.stage = "destination" THEN {}
       ELSE {[job EXCEPT !.stage = IF @ = "topics" THEN "rest" ELSE "destination"]}
  /\ \/ store' = Hydrated(store, job)
     \/ job.stage = "destination" /\ store' = store
  /\ hydratedKey' = IF job.view /\ job.stage = "destination" THEN job.of ELSE hydratedKey
  /\ UNCHANGED <<deployed, page, editing, core, request, saves, visits, intended, disturbed>>

-----------------------------------------------------------------------------
(* The forms of the details page.                                                   *)

\* "Edit": the mode is global, so it is entered once per session; the configuration of the
\* page is hydrated in the API's format and nobody waits for it.
ToggleEditMode ==
  /\ page # NoPage /\ ~editing /\ request = NoRequest
  /\ editing' = TRUE
  /\ IF core.mode = "edit" THEN UNCHANGED <<core, jobs, intended, disturbed>>
     ELSE /\ Cardinality(jobs) < MaxJobs
          /\ core' = Entered(page, "edit", page \in RawPipelines)
          /\ jobs' = jobs \cup {HydrationOf(page, "edit", page \in RawPipelines)}
          /\ disturbed' = (disturbed \/ Overlaps(page) \/ core.isDirty)
          /\ intended' = [intended EXCEPT ![page] = deployed[page]]
  /\ UNCHANGED <<deployed, page, store, hydratedKey, request, saves, visits>>

\* "Return to active" after a look at another schema binding: the view mode, entered with
\* the API's format; leaving the edit mode runs the page's effect, which may hydrate as well.
ReturnToActive ==
  LET raw == page \in RawPipelines IN
  /\ page # NoPage /\ ~editing /\ request = NoRequest /\ visits < MaxVisits
  /\ Cardinality(jobs) < MaxJobs
  /\ EffectRuns(IF core.mode = "view" THEN NoPage ELSE page, Entered(page, "view", raw),
                hydratedKey, store,
                jobs \cup {[HydrationOf(page, "view", raw) EXCEPT !.view = FALSE]},
                [intended EXCEPT ![page] = deployed[page]],
                disturbed \/ Overlaps(page) \/ core.isDirty \/ core.id # page)
  /\ visits' = visits + 1
  /\ UNCHANGED <<deployed, page, editing, store, request, saves>>

Editable(p) == Configured(p) \cup {"deduplication", "filter"}

\* A form's change of section s: into the store.
Changed(s) ==
  /\ editing /\ saves < MaxSaves /\ s \in Editable(page)
  /\ saves' = saves + 1
  /\ store' = [store EXCEPT ![s] = [of |-> page, edit |-> saves + 1]]
  /\ disturbed' = (disturbed \/ jobs # {} \/ request # NoRequest \/ core.id # page)

\* "Save changes": marks the configuration dirty and closes the form.
Save(s) ==
  /\ Changed(s)
  /\ core' = [core EXCEPT !.isDirty = TRUE]
  /\ editing' = FALSE
  /\ intended' = [intended EXCEPT ![page][s] = [of |-> page, edit |-> saves + 1]]
  /\ UNCHANGED <<deployed, page, hydratedKey, jobs, request, visits>>

\* The deduplication form writes every change at once, before it is saved.
DraftDeduplication ==
  /\ Changed("deduplication")
  /\ UNCHANGED <<deployed, page, editing, core, hydratedKey, jobs, request, visits, intended>>

CloseForm ==
  /\ editing
  /\ editing' = FALSE
  /\ UNCHANGED <<deployed, page, store, core, hydratedKey, jobs, request, saves, visits, intended,
                 disturbed>>

\* The stage that re-hydrates a section, and the sections it is for.
DiscardedBy(s) ==
  CASE s \in {"firstTopic", "secondTopic", "deduplication"} -> "topics"
    [] s = "destination" -> "destination"

Rewritten(s) ==
  IF s = "destination" THEN {"destination"} ELSE {"firstTopic", "secondTopic", "deduplication"}

\* "Discard": the section again from the configuration edit mode was entered with; the
\* topics' and the destination's answers are waited for in the background.
Discard(s) ==
  /\ editing /\ s \in Editable(page) /\ core.lastSaved # Empty
  /\ editing' = FALSE
  /\ IF s = "join"
       THEN /\ store' = [store EXCEPT !["join"] =
                          IF core.raw THEN NotConfigured ELSE core.lastSaved["join"]]
            /\ intended' = [intended EXCEPT ![page]["join"] = core.lastSaved["join"]]
            /\ UNCHANGED jobs
       ELSE /\ s # "filter" /\ Cardinality(jobs) < MaxJobs
            /\ jobs' = jobs \cup {[of |-> core.id, config |-> core.lastSaved, raw |-> core.raw,
                                   view |-> FALSE, stage |-> DiscardedBy(s), all |-> FALSE]}
            /\ store' = IF s = "destination"
                          THEN [store EXCEPT !["destination"] = core.lastSaved["destination"]]
                          ELSE store
            /\ intended' = [intended EXCEPT ![page] =
                 [x \in ConfigSections |-> IF x \in Rewritten(s) THEN core.lastSaved[x] ELSE @[x]]]
  /\ disturbed' = (disturbed \/ jobs # {} \/ request # NoRequest \/ core.id # page)
  /\ UNCHANGED <<deployed, page, core, hydratedKey, request, saves, visits>>

-----------------------------------------------------------------------------
(* Resume with pending edits.                                                       *)

\* What the stores hold when the button is pressed.
ResumeWithPendingEdit ==
  /\ page # NoPage /\ request = NoRequest /\ core.isDirty
  /\ request' = [of |-> page, id |-> core.id, sent |-> store, saved |-> FALSE]
  /\ disturbed' = (disturbed \/ jobs # {})
  /\ UNCHANGED <<deployed, page, editing, store, core, hydratedKey, jobs, saves, visits, intended>>

\* Mutant: the API would take any pipeline's configuration.
AnyIdAccepted(r) == r.sent["firstTopic"] # NotConfigured

\* The API takes a configuration under its own id only.
Accepts(r) == r.id = r.of /\ r.sent["firstTopic"] # NotConfigured

\* The edit is accepted: the store counts as clean.
EditAccepted ==
  /\ request # NoRequest /\ ~request.saved /\ Accepts(request)
  /\ deployed' = [deployed EXCEPT ![request.of] = request.sent]
  /\ request' = [request EXCEPT !.saved = TRUE]
  /\ core' = [core EXCEPT !.isDirty = FALSE]
  /\ UNCHANGED <<page, editing, store, hydratedKey, jobs, saves, visits, intended, disturbed>>

\* Refused, or it did not arrive: everything stays as it is.
EditFailed ==
  /\ request # NoRequest /\ ~request.saved
  /\ request' = NoRequest
  /\ UNCHANGED <<deployed, page, editing, store, core, hydratedKey, jobs, saves, visits, intended,
                 disturbed>>

\* The pipeline as deployed is fetched: three stores are reset, the view mode is back, and
\* the page shown hydrates again, whichever it is now.
PipelineRefetched ==
  /\ request # NoRequest /\ request.saved
  /\ request' = NoRequest
  /\ store' = [s \in ConfigSections |->
                 IF s \in {"filter", "destination"} THEN store[s] ELSE NotConfigured]
  /\ EffectRuns(page, [core EXCEPT !.mode = "view"], NoPage, store', jobs, intended, disturbed)
  /\ UNCHANGED <<deployed, page, editing, saves, visits>>

\* The fetch fails: clean, and still in edit mode.
RefetchFailed ==
  /\ request # NoRequest /\ request.saved
  /\ request' = NoRequest
  /\ UNCHANGED <<deployed, page, editing, store, core, hydratedKey, jobs, saves, visits, intended,
                 disturbed>>

SessionNext ==
  \/ \E p \in SessionPipelines : OpenPage(p)
  \/ LeavePage
  \/ Reload
  \/ \E job \in jobs : HydrationStep(job)
  \/ ToggleEditMode
  \/ ReturnToActive
  \/ \E s \in ConfigSections : Save(s)
  \/ DraftDeduplication
  \/ CloseForm
  \/ \E s \in ConfigSections : Discard(s)
  \/ ResumeWithPendingEdit
  \/ EditAccepted
  \/ EditFailed
  \/ PipelineRefetched
  \/ RefetchFailed

Undisturbed == ~disturbed
SessionSpec == SessionInit /\ [][SessionNext]_sessionVars

-----------------------------------------------------------------------------
\* An accepted edit deploys for each section what the user made of it and leaves the others
\* as they were, unless a change met a hydration in flight or another pipeline's stores; the
\* API's own format may lose a section (resumeWithPendingEdit, enterEditMode,
\* usePipelineHydration).
ResumeSendsEdits ==
  request # NoRequest /\ request.saved /\ ~disturbed =>
    \A s \in ConfigSections \ Kept :
      \/ request.sent[s] = intended[request.of][s]
      \/ request.of \in RawPipelines /\ request.sent[s] = NotConfigured

\* The key in sessionStorage is right: a page it calls hydrated shows, unless it is edited,
\* what is deployed (usePipelineHydration; reloads, navigation, resume).
ShownIsDeployed ==
  /\ page # NoPage /\ page \notin RawPipelines /\ hydratedKey = page
  /\ core.mode # "edit" /\ ~core.isDirty /\ jobs = {} /\ request = NoRequest /\ ~disturbed
  => core.id = page /\ \A s \in ConfigSections \ Kept : store[s] = deployed[page][s]

\* "The data comes from the API and needs to be transformed via adapter.hydrate() before
\* use": no section that is deployed is lost because another one was edited.
NothingDropped ==
  request # NoRequest /\ ~request.saved /\ request.id = request.of =>
    \A s \in ConfigSections :
      deployed[request.of][s] # NotConfigured => request.sent[s] # NotConfigured

\* A pipeline is deployed with its own deduplication (hydrateKafkaTopics).
OwnDeduplication ==
  request # NoRequest /\ request.saved /\ request.sent["deduplication"] # NotConfigured =>
    request.sent["deduplication"].of = request.of

\* A change of a form that was not saved is not deployed (handleDiscardChanges).
OnlySavedIsSent ==
  request # NoRequest /\ request.saved /\ ~disturbed /\ Cardinality(SessionPipelines) = 1 =>
    request.sent["deduplication"] = intended[request.of]["deduplication"]

\* What was saved in a form is what is sent, also when a hydration ended late (enterEditMode).
SavedIsSent ==
  request # NoRequest /\ request.id = request.of =>
    \A s \in ConfigSections \ Kept :
      intended[request.of][s] # deployed[request.of][s] => request.sent[s] = intended[request.of][s]
=============================================================================
