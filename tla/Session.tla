------------------------------ MODULE Session ------------------------------
(***************************************************************************)
(* One sync from its start to its end: the stack of actions of baton-sdk's *)
(* sync driver over the store it fills and the resource types this         *)
(* connector serves.  The sync stops (an error, a panic of the connector,  *)
(* its run duration), loses its stack, and is run again from its last      *)
(* checkpoint, possibly with another configuration of the connector; one   *)
(* that is older than a week is started over.                              *)
(*                                                                         *)
(* A handler is one step: what it did to the stack is lost when it fails,  *)
(* and only what it had already stored remains (FailInPut).  The pages of  *)
(* one listing are numbered by how many are left, 1 being the last one, as *)
(* the grants queries of a resource are (Listing has the rows of a page,   *)
(* GrantPages the pages of a query).                                       *)
(***************************************************************************)
EXTENDS Integers, Sequences, FiniteSets

CONSTANTS
    Types, Resources,
    None,           \* the target of an action that has none
    TypeOf,         \* of a resource; a type is its own
    Pages,          \* pages of the resources of a type, of the entitlements of a resource
    PageOf,         \* the page a resource is on
    MaxPages,
    Configs,        \* [types, skip, queries, whole]: the configured types, those with
                    \*   skip_entitlements_and_grants, the grants queries of each, and
                    \*   whether a syncer can be built for every one of them
    StorePageSize,  \* rows the store lists at a time
    MaxFailures,    \* bound: failures of handlers and interruptions
    MaxChanges      \* bound: changes of the configuration

ASSUME SessionAssumption ==
    /\ IsFiniteSet(Types) /\ IsFiniteSet(Resources)
    /\ Types \cap Resources = {} /\ None \notin Types \cup Resources
    /\ TypeOf \in [Types \cup Resources -> Types] /\ \A t \in Types : TypeOf[t] = t
    /\ MaxPages \in Nat \ {0}
    /\ Pages \in [Types \cup Resources -> 1 .. MaxPages]
    /\ PageOf \in [Resources -> 1 .. MaxPages]
    /\ \A r \in Resources : PageOf[r] <= Pages[TypeOf[r]]
    /\ Configs \subseteq [types: SUBSET Types, skip: SUBSET Types,
                          queries: [Types -> 0 .. MaxPages], whole: BOOLEAN]
    /\ StorePageSize \in Nat \ {0}
    /\ MaxFailures \in Nat /\ MaxChanges \in Nat

VARIABLES
    pc,            \* "running", "stopped" or "done"
    stack,         \* the actions to do, the current one last
    saved,         \* the stack of the last checkpoint
    typeList,      \* the store: resource types and resources in the order of their rows,
    resourceList,
    skipTypes,     \*   types stored with the annotation to skip them,
    collected,     \*   and every page that is stored
    config,        \* the configuration the connector was started with
    old,           \* the sync began more than a week ago
    steady,        \* history: what every configuration since the sync began asks for
    failures, changes  \* how much of the bounds is used up

store == <<typeList, resourceList, skipTypes, collected>>
connector == <<config, steady, changes>>
vars == <<pc, stack, saved, store, connector, old, failures>>

-----------------------------------------------------------------------------
(* What a sync collects: a resource type, a page of the resources of a type, *)
(* of the entitlements or of the grants of a resource.                       *)
Ops == {"resources", "entitlements", "grants"}
TargetsOf(op) == IF op \in {"types", "resources"} THEN Types ELSE Resources

Items == UNION {[op: {op}, target: TargetsOf(op), page: 1 .. MaxPages] : op \in Ops \cup {"types"}}

RankOf(op) ==
    CASE op = "init" -> 0
      [] op = "types" -> 1
      [] op = "resources" -> 2
      [] op = "entitlements" -> 3
      [] op = "grants" -> 4
      [] op = "expansion" -> 5

Rank(i) == RankOf(i.op)

(* Calls of the connector that list op of target from its beginning. *)
Calls(c, op, target) ==
    CASE op = "types" -> 1
      [] op = "grants" -> c.queries[TypeOf[target]]
      [] OTHER -> Pages[target]

(* One type that cannot be built leaves the connector without any. *)
Served(c) == IF c.whole THEN c.types ELSE {}

Wanted(c) ==
    {i \in Items :
        /\ TypeOf[i.target] \in Served(c)
        /\ i.op \in {"entitlements", "grants"} => TypeOf[i.target] \notin c.skip
        /\ i.page <= Calls(c, i.op, i.target)}

-----------------------------------------------------------------------------
(* The stack. *)
Action(op, target) == [op |-> op, target |-> target, token |-> 0]

Top == stack[Len(stack)]
Below == SubSeq(stack, 1, Len(stack) - 1)

(* NextPage: pop and push the same action with another token. *)
Moved(token) == [stack EXCEPT ![Len(stack)].token = token]

Beginning == <<Action("init", None)>>

Plan == <<Action("expansion", None), Action("grants", None), Action("entitlements", None),
          Action("resources", None), Action("types", None)>>

(* The sequences that list each element of a finite set once. *)
Orders(S) ==
    {l \in [1 .. Cardinality(S) -> S] : \A x \in S : \E i \in DOMAIN l : l[i] = x}

Elements(s) == {s[i] : i \in DOMAIN s}

Init ==
    /\ pc = "running"
    /\ stack = Beginning /\ saved = Beginning
    /\ typeList = <<>> /\ resourceList = <<>> /\ skipTypes = {} /\ collected = {}
    /\ config \in Configs
    /\ old = FALSE
    /\ steady = Wanted(config)
    /\ failures = 0 /\ changes = 0

Current(op) == pc = "running" /\ stack # <<>> /\ Top.op = op

(* InitOp: the plan of the sync; the state is checkpointed, or not yet again. *)
InitOp ==
    /\ Current("init")
    /\ stack' = Below \o Plan
    /\ saved' \in {saved, stack'}
    /\ UNCHANGED <<pc, store, connector, old, failures>>

(* Rows for types and resources; a row that is there already keeps its place. *)
PutTypes(S) ==
    /\ \E new \in Orders(S \ Elements(typeList)) : typeList' = typeList \o new
    /\ skipTypes' = (skipTypes \ S) \cup (S \cap config.skip)
    /\ collected' = collected \cup [op: {"types"}, target: S, page: {1}]
    /\ UNCHANGED resourceList

PutResources(S) ==
    /\ \E new \in Orders(S \ Elements(resourceList)) : resourceList' = resourceList \o new
    /\ UNCHANGED <<typeList, skipTypes>>

SyncResourceTypes ==
    /\ Current("types")
    /\ PutTypes(Served(config))
    /\ stack' = Below
    /\ UNCHANGED <<pc, saved, connector, old, failures>>

-----------------------------------------------------------------------------
(* A stage: the store is listed, a page at a time, and an action pushed for  *)
(* each row.  The stage itself moves on first, so that it stays below them.  *)
Rows(op) == IF op = "resources" THEN typeList ELSE resourceList

Skipped(op, row) == op # "resources" /\ TypeOf[row] \in skipTypes

\* Faulty variant: the next page of the store begins after its extra row.
StageTokenPastRow(token) == token + StorePageSize + 1

\* Faulty variant: the next page of the store begins with the last row of this one.
StageTokenOnRow(token) == token + StorePageSize - 1

(* Where the store's next page begins, counted in rows that are behind it. *)
StageToken(token) == token + StorePageSize

(* The store selects one row more than it is asked for. *)
MoreRows(op, token) == Len(Rows(op)) > token + StorePageSize

Batch(op, token) ==
    {i \in 1 .. Len(Rows(op)) :
        token < i /\ i <= token + StorePageSize /\ ~Skipped(op, Rows(op)[i])}

Stage(op) ==
    /\ Current(op) /\ Top.target = None
    /\ \E l \in Orders(Batch(op, Top.token)) :
         /\ \A i, j \in DOMAIN l : i < j => l[i] < l[j]
         /\ stack' = (IF MoreRows(op, Top.token) THEN Moved(StageToken(Top.token)) ELSE Below)
                       \o [i \in DOMAIN l |-> Action(op, Rows(op)[l[i]])]
    /\ UNCHANGED <<pc, saved, store, connector, old, failures>>

-----------------------------------------------------------------------------
(* A listing: one call of the connector for the current target. *)
(* The page it asks for; without grants queries any token gives an empty last one. *)
Page(a) ==
    LET calls == Calls(config, a.op, a.target)
    IN IF a.token = 0 \/ calls = 0 THEN calls ELSE a.token

(* The connector serves the type, and has the query its token names. *)
Answers(a) == TypeOf[a.target] \in Served(config) /\ Page(a) <= Calls(config, a.op, a.target)

\* Faulty variant: the token of the page just read is kept.
AfterPageAgain(n) == IF n <= 1 THEN Below ELSE Moved(n)

\* Faulty variant: a resource type without grants queries does not finish.
AfterPageNoQueries(n) == IF n = 1 THEN Below ELSE Moved(n - 1)

AfterPage(n) == IF n <= 1 THEN Below ELSE Moved(n - 1)

Collect(a) ==
    collected' = collected \cup
        {i \in Items : i.op = a.op /\ i.target = a.target /\ i.page = Page(a)}

OnPage(a) == {r \in Resources : TypeOf[r] = a.target /\ PageOf[r] = Page(a)}

List(op) ==
    /\ Current(op) /\ Top.target # None
    /\ Answers(Top)
    /\ Collect(Top)
    /\ IF op = "resources"
       THEN PutResources(OnPage(Top))
       ELSE UNCHANGED <<typeList, resourceList, skipTypes>>
    /\ stack' = AfterPage(Page(Top))
    /\ UNCHANGED <<pc, saved, connector, old, failures>>

(* Nothing sets needsExpansion here: the grants are not expandable. *)
SkipExpansion ==
    /\ Current("expansion")
    /\ stack' = Below
    /\ UNCHANGED <<pc, saved, store, connector, old, failures>>

EndSync ==
    /\ pc = "running" /\ stack = <<>>
    /\ pc' = "done"
    /\ UNCHANGED <<stack, saved, store, connector, old, failures>>

\* Faulty variant: a checkpoint keeps the current action only.
MarshalCurrent == <<Top>>

Marshal == stack

(* Taken or not: checkpoints less than minCheckpointInterval apart are skipped. *)
Checkpoint ==
    /\ pc = "running" /\ stack # <<>> /\ saved # stack
    /\ saved' = Marshal
    /\ UNCHANGED <<pc, stack, store, connector, old, failures>>

-----------------------------------------------------------------------------
Stop ==
    /\ pc' = "stopped" /\ stack' = <<>>
    /\ UNCHANGED <<saved, connector, old>>

(* "unknown resource type", or a query index out of range, which is a panic. *)
Refused ==
    /\ \E op \in Ops : Current(op)
    /\ Top.target # None
    /\ ~Answers(Top)
    /\ Stop
    /\ UNCHANGED <<store, failures>>

Failure == failures < MaxFailures /\ failures' = failures + 1

Fail ==
    /\ pc = "running"
    /\ Failure
    /\ Stop
    /\ UNCHANGED store

(* Some rows of a page are stored, in chunks of a hundred, before the error. *)
FailInPut ==
    /\ Failure
    /\ Stop
    /\ \/ /\ Current("types")
          /\ \E S \in SUBSET Served(config) : PutTypes(S)
       \/ /\ Current("resources") /\ Top.target # None
          /\ Answers(Top)
          /\ \E S \in SUBSET OnPage(Top) : PutResources(S)
          /\ UNCHANGED collected

(* The connector is started with another configuration. *)
Reconfigure ==
    /\ pc = "stopped" /\ changes < MaxChanges
    /\ config' \in Configs \ {config}
    /\ steady' = steady \cap Wanted(config')
    /\ changes' = changes + 1
    /\ UNCHANGED <<pc, stack, saved, store, old, failures>>

Age ==
    /\ ~old /\ pc # "done"
    /\ old' = TRUE
    /\ UNCHANGED <<pc, stack, saved, store, connector, failures>>

(* StartSync finds the unfinished sync of less than a week ago. *)
Resume ==
    /\ pc = "stopped" /\ ~old
    /\ stack' = saved
    /\ pc' = "running"
    /\ UNCHANGED <<saved, store, connector, old, failures>>

\* Faulty variant: a new sync inherits the checkpoint of the one before.
FirstStepInherited == saved

(* A new sync has an empty token, and Unmarshal makes it the first action. *)
FirstStep == Beginning

(* StartSync finds none: a new sync, whose rows are its own. *)
StartOver ==
    /\ pc = "stopped" /\ old
    /\ pc' = "running"
    /\ stack' = FirstStep /\ saved' = FirstStep
    /\ typeList' = <<>> /\ resourceList' = <<>> /\ skipTypes' = {} /\ collected' = {}
    /\ old' = FALSE
    /\ steady' = Wanted(config)
    /\ UNCHANGED <<config, changes, failures>>

-----------------------------------------------------------------------------
SyncStep ==
    \/ InitOp \/ SyncResourceTypes \/ SkipExpansion \/ EndSync
    \/ \E op \in Ops : Stage(op) \/ List(op)
    \/ Refused \/ Resume \/ StartOver

Next == SyncStep \/ Checkpoint \/ Fail \/ FailInPut \/ Reconfigure \/ Age

Spec == Init /\ [][Next]_vars

(* The sync is a loop, a stopped one is run again, and a week goes by;       *)
(* nothing forces a checkpoint, a failure, or a new configuration.           *)
FairSpec == Spec /\ WF_vars(SyncStep) /\ WF_vars(Age)

-----------------------------------------------------------------------------
Actions ==
    [op: Ops \cup {"init", "types", "expansion"}, target: Types \cup Resources \cup {None}, token: Nat]

TypeOK ==
    /\ pc \in {"running", "stopped", "done"}
    /\ stack \in Seq(Actions) /\ saved \in Seq(Actions)
    /\ typeList \in Seq(Types) /\ resourceList \in Seq(Resources)
    /\ skipTypes \subseteq Types /\ collected \subseteq Items
    /\ config \in Configs /\ steady \subseteq Items
    /\ old \in BOOLEAN
    /\ failures \in 0 .. MaxFailures /\ changes \in 0 .. MaxChanges

(* Behind a stage are the rows it has pushed an action for. *)
Behind(op, n) == {Rows(op)[i] : i \in {j \in DOMAIN Rows(op) : j <= n}}

(* The rest of a stack still leads to an item. *)
Covers(a, i) ==
    \/ a.op = "init"
    \/ a.op = i.op /\ a.op = "types"
    \/ a.op = i.op /\ a.op # "types" /\ a.target = None /\ i.target \notin Behind(a.op, a.token)
    \/ a.op = i.op /\ a.target = i.target /\ (a.token = 0 \/ i.page <= a.token)

Leads(s, i) == \E k \in DOMAIN s : Covers(s[k], i)

(* Whatever stops the sync, its last checkpoint still leads to every item    *)
(* that is not stored, if the configurations since its start all ask for it: *)
(* types, resources, entitlements and grants alike (the stages that page     *)
(* over the store while other actions fill it, NextPage before the pushes).  *)
ResumeSafe == \A i \in steady : i \in collected \/ Leads(saved, i)

(* The entitlements and grants of a resource are only listed, and only       *)
(* stored, once the resource and its type are rows of the store, also after  *)
(* a resume from an older checkpoint over a newer store.                     *)
NoOrphans ==
    /\ \A i \in collected : i.op \in {"entitlements", "grants"} =>
          i.target \in Elements(resourceList)
    /\ \A r \in Elements(resourceList) : TypeOf[r] \in Elements(typeList)
    /\ \A k \in DOMAIN stack : stack[k].target # None =>
          stack[k].target \in Elements(Rows(stack[k].op))

(* Until something fails, the stack leads to nothing that is stored: no page *)
(* is asked for twice, because a stage pushed a row of its page before again *)
(* or a type and its stage both reach it.                                    *)
ListedOnce == failures = 0 /\ pc = "running" => \A i \in collected : ~Leads(stack, i)

(* Every sync comes to its end, although a new configuration can make its    *)
(* checkpoint unusable: then it is started over after a week.                *)
Terminates == <>(pc = "done")

Contract == INSTANCE SessionContract WITH done <- (pc = "done")

(* The stack of actions does what the contract of a sync promises: it goes   *)
(* from stage to stage, and is done only when every item that all its        *)
(* configurations ask for is stored.                                         *)
ImplementsContract == Contract!Spec
=============================================================================
