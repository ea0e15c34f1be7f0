---------------------------- MODULE FilterEditor ----------------------------
(***************************************************************************)
(* The filter step of the web UI: the tree of rules and groups kept by the  *)
(* store (store/filter.store.ts), edited in modules/filter/                 *)
(* FilterConfigurator.tsx, validated locally at every change and by the     *)
(* backend 500 ms after the last one; the expression string kept beside the *)
(* tree is what the generated pipeline configuration contains.              *)
(*                                                                         *)
(* Answers of the backend are not cancelled: they are applied to the store  *)
(* whatever it holds when they arrive, the step closed included.            *)
(***************************************************************************)
EXTENDS Integers, FiniteSets, Sequences, SequencesExt

CONSTANTS
  Rules, Groups, Root,  \* identities of rules and of nested groups; the root group
  Absent,               \* not in the tree
  MaxGroupDepth,        \* MAX_GROUP_DEPTH, 3 in the code
  MaxEdits,             \* bound: edits of the user
  MaxInFlight           \* bound: validations the backend has not answered

ASSUME FilterAssumption ==
  /\ Root \notin Groups /\ Absent \notin Groups \union {Root}
  /\ Rules \intersect (Groups \union {Root, Absent}) = {}
  /\ MaxGroupDepth \in Nat \ {0} /\ MaxEdits \in Nat /\ MaxInFlight \in Nat

VARIABLES
  parent,     \* the group an item is in, or Absent
  content,    \* what a rule says: "empty" (incomplete), "good", "other", or "bad" (refused by
              \* the backend)
  negated,    \* group.not
  enabled,    \* filterConfig.enabled
  expr,       \* expressionString; NoText when empty
  status,     \* backendValidation.status
  open,       \* the step is mounted
  prevKey,    \* prevConfigKeyRef; NoKey at mount
  timer,      \* the debounced validation: its expression, or NoText
  inflight,   \* the expressions sent to the backend
  edits,
  judged,     \* history: the expression the last verdict was about
  late,       \* history: the last verdict was about another expression than the tree's
  dropped     \* history: a debounced validation was cancelled and not scheduled again

vars == <<parent, content, negated, enabled, expr, status, open, prevKey, timer, inflight,
          edits, judged, late, dropped>>
tree == <<parent, content, negated>>
history == <<judged, late, dropped>>

Items == Rules \union Groups
AllGroups == Groups \union {Root}
Contents == {"empty", "good", "other", "bad"}
NoText == << >>      \* a text is a function of the rules it has
NoKey == << >>

-----------------------------------------------------------------------------
(* The tree *)

Present == {r \in Rules : parent[r] # Absent}
InTree == {g \in AllGroups : g = Root \/ parent[g] # Absent}

\* The groups around an item of tree p: the smallest set with its parent and theirs.
AncestorsIn(p, i) ==
  LET closed(S) == p[i] \in S /\ \A g \in S \ {Root} : p[g] \in S
  IN  IF i = Root \/ p[i] = Absent THEN {}
      ELSE CHOOSE S \in SUBSET AllGroups :
             closed(S) /\ \A T \in SUBSET AllGroups : closed(T) => S \subseteq T
Depth(g) == Cardinality(AncestorsIn(parent, g))

LocallyValid == \A r \in Present : content[r] # "empty"

\* toExprString: the complete rules, each inside its groups; groups without rules print nothing.
Text ==
  IF ~enabled THEN NoText
  ELSE [r \in Present |-> <<content[r], {<<g, negated[g]>> : g \in AncestorsIn(parent, r)}>>]
Key == <<tree, enabled>>

\* The filter of the generated configuration.
Generated == IF enabled THEN expr ELSE NoText

-----------------------------------------------------------------------------
(* The validation effect, run after a render: it is re-run when the key or the set of *)
(* touched rules is new, and the clean-up of its last run cancels the timer first.    *)

CancelTimer == timer' = NoText

\* Mutant: the status of the last filter stays until the backend answers.
ValidateKeepsStatus ==
  /\ prevKey' = Key'
  /\ IF Text' = NoText \/ ~LocallyValid'
       THEN CancelTimer /\ UNCHANGED <<expr, status, history>>
       ELSE /\ timer' = Text'
            /\ expr' = Text'
            /\ UNCHANGED <<status, history>>

Validate ==
  /\ prevKey' = Key'
  /\ IF Text' = NoText
       THEN CancelTimer /\ UNCHANGED <<expr, status, history>>
       ELSE IF ~LocallyValid'
         THEN /\ CancelTimer
              /\ status' = "idle" /\ late' = FALSE
              /\ UNCHANGED <<expr, judged, dropped>>
         ELSE /\ timer' = Text'
              /\ expr' = Text'
              /\ status' = "validating" /\ late' = FALSE /\ dropped' = FALSE
              /\ UNCHANGED judged

Effect(touched) ==
  IF Key' # prevKey THEN Validate
  ELSE /\ IF touched THEN CancelTimer /\ dropped' = (dropped \/ timer # NoText)
                     ELSE UNCHANGED <<timer, dropped>>
       /\ UNCHANGED <<expr, status, prevKey, judged, late>>

-----------------------------------------------------------------------------
(* The user's edits *)

Edit == open /\ edits < MaxEdits /\ edits' = edits + 1 /\ UNCHANGED <<open, inflight>>

\* Mutant: a rule added after the last one was removed leaves the filter disabled.
AddRuleKeepsEnabled(r, g) ==
  /\ Edit
  /\ parent[r] = Absent /\ g \in InTree
  /\ parent' = [parent EXCEPT ![r] = g]
  /\ content' = [content EXCEPT ![r] = "empty"]
  /\ UNCHANGED <<negated, enabled>>
  /\ Effect(FALSE)

AddRule(r, g) ==
  /\ Edit
  /\ parent[r] = Absent /\ g \in InTree
  /\ parent' = [parent EXCEPT ![r] = g]
  /\ content' = [content EXCEPT ![r] = "empty"]
  /\ enabled' = TRUE
  /\ UNCHANGED negated
  /\ Effect(FALSE)

AddGroup(n, g) ==
  /\ Edit
  /\ parent[n] = Absent /\ g \in InTree
  /\ Depth(g) < MaxGroupDepth - 1
  /\ parent' = [parent EXCEPT ![n] = g]
  /\ negated' = [negated EXCEPT ![n] = FALSE]
  /\ enabled' = TRUE
  /\ UNCHANGED content
  /\ Effect(FALSE)

\* A handler of the rule's row: what is typed may leave the rule as it was, and the rule
\* is touched all the same.
UpdateRule(r, c) ==
  /\ Edit
  /\ r \in Present
  /\ content' = [content EXCEPT ![r] = c]
  /\ UNCHANGED <<parent, negated, enabled>>
  /\ Effect(TRUE)

UpdateGroup(g) ==
  /\ Edit
  /\ g \in InTree
  /\ negated' = [negated EXCEPT ![g] = ~@]
  /\ UNCHANGED <<parent, content, enabled>>
  /\ Effect(FALSE)

\* An item leaves with everything in it; the filter stays enabled if a rule is left.
RemoveItem(i) ==
  /\ Edit
  /\ parent[i] # Absent
  /\ parent' = [j \in Items |-> IF j = i \/ i \in AncestorsIn(parent, j) THEN Absent ELSE parent[j]]
  /\ enabled' = (Present' # {})
  /\ UNCHANGED <<content, negated>>
  /\ Effect(FALSE)

-----------------------------------------------------------------------------
(* Opening, leaving, saving *)

EmptyTree ==
  /\ parent' = [i \in Items |-> Absent]
  /\ content' = [r \in Rules |-> "empty"]
  /\ negated' = [g \in AllGroups |-> FALSE]

Mount ==
  /\ ~open /\ edits < MaxEdits /\ edits' = edits + 1
  /\ open' = TRUE
  /\ UNCHANGED <<tree, enabled, inflight>>
  /\ Validate

Unmount == open' = FALSE /\ CancelTimer /\ prevKey' = NoKey

\* The wizard's sidebar, or closing the standalone step: the store keeps what was edited.
Leave ==
  /\ open
  /\ Unmount
  /\ UNCHANGED <<tree, enabled, expr, status, inflight, edits, history>>

CanContinue == \/ ~enabled \/ Present = {}
               \/ LocallyValid /\ status = "valid"

\* An enabled filter without rules is refused ("At least one filter rule is required").
HandleSave ==
  /\ open /\ CanContinue
  /\ enabled => Present # {}
  /\ expr' = Text
  /\ Unmount
  /\ UNCHANGED <<tree, enabled, status, inflight, edits, history>>

SkipFilter ==
  /\ open
  /\ EmptyTree /\ enabled' = FALSE
  /\ expr' = NoText /\ status' = "idle"
  /\ Unmount
  /\ UNCHANGED <<inflight, edits, history>>

\* resetFilterStore, the standalone step's Discard: the step stays open.
ResetFilterStore ==
  /\ Edit
  /\ EmptyTree /\ enabled' = FALSE
  /\ expr' = NoText /\ status' = "idle"
  /\ prevKey' = Key' /\ CancelTimer
  /\ UNCHANGED history

\* hydrateFilter with a saved filter of one good rule; if its expression cannot be parsed
\* the tree is left as it was.
HydrateFilter(r, parsed) ==
  /\ ~open /\ edits < MaxEdits /\ edits' = edits + 1
  /\ enabled' = TRUE /\ status' = "valid"
  /\ expr' = [x \in {r} |-> <<"good", {<<Root, FALSE>>}>>]
  /\ IF parsed
       THEN /\ parent' = [i \in Items |-> IF i = r THEN Root ELSE Absent]
            /\ content' = [x \in Rules |-> IF x = r THEN "good" ELSE "empty"]
            /\ negated' = [g \in AllGroups |-> FALSE]
       ELSE UNCHANGED tree
  /\ judged' = expr' /\ late' = FALSE
  /\ UNCHANGED <<open, prevKey, timer, inflight, dropped>>

-----------------------------------------------------------------------------
(* The backend *)

TimerFires ==
  /\ timer # NoText /\ Len(inflight) < MaxInFlight
  /\ inflight' = Append(inflight, timer)
  /\ timer' = NoText
  /\ UNCHANGED <<tree, enabled, expr, status, open, prevKey, edits, history>>

BackendAccepts(e) == \A r \in DOMAIN e : e[r][1] # "bad"

\* Mutant: only an acceptance is applied.
AnswerOnlyValid(i) ==
  LET e == inflight[i]
  IN  /\ inflight' = RemoveAt(inflight, i)
      /\ IF BackendAccepts(e) THEN status' = "valid" /\ judged' = e /\ late' = (e # Text)
                       ELSE UNCHANGED <<status, judged, late>>
      /\ UNCHANGED <<tree, enabled, expr, open, prevKey, timer, edits, dropped>>

\* An expression is refused for what it says, or because the request failed.
Answer(i) ==
  LET e == inflight[i]
  IN  /\ inflight' = RemoveAt(inflight, i)
      /\ \/ BackendAccepts(e) /\ status' = "valid"
         \/ status' = "invalid"
      /\ judged' = e /\ late' = (e # Text)
      /\ UNCHANGED <<tree, enabled, expr, open, prevKey, timer, edits, dropped>>

-----------------------------------------------------------------------------
Init ==
  /\ parent = [i \in Items |-> Absent]
  /\ content = [r \in Rules |-> "empty"]
  /\ negated = [g \in AllGroups |-> FALSE]
  /\ enabled = FALSE /\ expr = NoText /\ status = "idle"
  /\ open = FALSE /\ prevKey = NoKey /\ timer = NoText /\ inflight = << >>
  /\ edits = 0 /\ judged = NoText /\ late = FALSE /\ dropped = FALSE

Next ==
  \/ \E r \in Rules, g \in AllGroups : AddRule(r, g)
  \/ \E n \in Groups, g \in AllGroups : AddGroup(n, g)
  \/ \E r \in Rules, c \in Contents : UpdateRule(r, c)
  \/ \E g \in AllGroups : UpdateGroup(g)
  \/ \E i \in Items : RemoveItem(i)
  \/ Mount \/ Leave \/ HandleSave \/ SkipFilter \/ ResetFilterStore
  \/ \E r \in Rules, parsed \in BOOLEAN : HydrateFilter(r, parsed)
  \/ TimerFires
  \/ \E i \in DOMAIN inflight : Answer(i)

Spec == Init /\ [][Next]_vars

\* The browser runs an expired timer, and a request ends with an answer or an error.
Fairness ==
  /\ WF_vars(TimerFires)
  /\ WF_vars(\E i \in DOMAIN inflight : Answer(i))
FairSpec == Spec /\ Fairness

-----------------------------------------------------------------------------
(* Properties *)

Texts == UNION {[R -> Contents \X SUBSET (AllGroups \X BOOLEAN)] : R \in SUBSET Rules}

\* The types of the variables (FilterStoreProps and the refs of FilterConfigurator).
TypeOK ==
  /\ parent \in [Items -> AllGroups \union {Absent}]
  /\ content \in [Rules -> Contents] /\ negated \in [AllGroups -> BOOLEAN]
  /\ enabled \in BOOLEAN /\ expr \in Texts
  /\ status \in {"idle", "validating", "valid", "invalid"}
  /\ open \in BOOLEAN /\ timer \in Texts
  /\ inflight \in Seq(Texts) /\ Len(inflight) <= MaxInFlight
  /\ edits \in 0..MaxEdits /\ judged \in Texts /\ late \in BOOLEAN /\ dropped \in BOOLEAN

\* The tree is one: every item hangs below the root, and no group deeper than the limit
\* (addGroup, removeItem).
NestingBounded ==
  \A i \in Items : parent[i] # Absent =>
    /\ Root \in AncestorsIn(parent, i)
    /\ i \in Groups => Depth(i) < MaxGroupDepth

\* After any edits the filter is a tree, and enabled as long as it has a rule: the store
\* never keeps rules that the configuration would leave out (removeItem, addRule).
TreeSound == NestingBounded /\ (Present # {} => enabled)

\* A validation that waits for its debounce is of the tree on screen.
PendingIsCurrent == timer # NoText => open /\ timer = Text

\* What the open step says of a filter with rules is about that filter, unless the last
\* verdict applied was the late answer to an earlier expression: only then can an
\* expression be saved that was never accepted (the effect of FilterConfigurator).
VerdictIsCurrent ==
  /\ PendingIsCurrent
  /\ open /\ Text # NoText /\ ~late /\ status # "idle" =>
       /\ LocallyValid
       /\ status \in {"valid", "invalid"} => judged = Text

\* A filter being validated gets a verdict unless it is edited or left; the exception is a
\* debounce that a touched rule cancelled (the early return of the effect).
Validating == open /\ Text # NoText /\ status = "validating"
ValidationEnds == Validating ~> ~Validating \/ dropped

\* "Reset backend status so it doesn't stay stuck at 'validating'" (FilterConfigurator.tsx):
\* violated by a touch that leaves the filter as it was, within the debounce.
NeverStuck == Validating ~> ~Validating

\* A step that is saved had its expression accepted: violated by a late answer.
SavedWasAccepted == [][HandleSave /\ Text # NoText => judged = Text]_vars

\* An edit leaves the filter of the configuration alone, removes it, or makes it that of the
\* tree: violated by removing the last rule and adding an item, which enables the filter
\* again with the expression of the removed rule.
GeneratedFollowsTree == [][Edit => Generated' \in {Generated, Text', NoText}]_vars
=============================================================================
