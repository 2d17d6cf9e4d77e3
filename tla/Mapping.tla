------------------------------ MODULE Mapping ------------------------------
(***************************************************************************)
(* What becomes of the rows of one page: each is given to every mapping of *)
(* the configuration, and yields an item, nothing, or an error that drops  *)
(* the page. Resources go through the driver's check of their traits.      *)
(***************************************************************************)
EXTENDS Expressions, Integers, Sequences, FiniteSets

CONSTANTS
    Pages,      \* the results a query may have: sequences of rows
    Configs     \* the configurations of a resource type

TraitTypes == {"user", "group", "role", "app"}

(* A mapping: its skip_if, whether all that is required of it is configured, *)
(* and the expressions it evaluates to strings, the item's ID first.         *)
IsMapping(m) ==
    /\ DOMAIN m = {"skip_if", "complete", "exprs"}
    /\ m.complete \in BOOLEAN
    /\ m.exprs \in Seq({m.exprs[i] : i \in DOMAIN m.exprs}) /\ m.exprs # <<>>

IsConfig(config) ==
    /\ DOMAIN config = {"kind", "maps", "traits"}
    /\ config.kind \in {"resources", "static", "dynamic", "grants"}
    /\ config.maps \in Seq({config.maps[i] : i \in DOMAIN config.maps})
    /\ \A i \in DOMAIN config.maps : IsMapping(config.maps[i])
    /\ config.traits \subseteq TraitTypes
    /\ config.kind = "resources" => Len(config.maps) = 1
    /\ config.traits # {} => config.kind = "resources"

(* A page is a sequence of rows; a Boolean column reads true or false. *)
IsPage(rows) ==
    /\ rows \in Seq({rows[i] : i \in DOMAIN rows})
    /\ \A i \in DOMAIN rows : \A name \in DOMAIN rows[i] :
          rows[i][name].type = "bool" => rows[i][name].text \in {"true", "false"}

ASSUME MappingAssumption ==
    /\ \A config \in Configs : IsConfig(config)
    /\ <<>> \in Pages /\ \A page \in Pages : IsPage(page)

VARIABLES
    config,    \* the configuration
    page,      \* the rows of the page
    row,       \* runQuery: the row that is being mapped
    next,      \* the callback: its next mapping
    ret,       \* the items so far
    outcome    \* "running", then "answered" or "error"; "stored" or "refused"

vars == <<config, page, row, next, ret, outcome>>

-----------------------------------------------------------------------------
(* skip_if, which resources and static entitlements do not have. *)
Condition(m, cols) ==
    IF config.kind \in {"resources", "static"} \/ m.skip_if = Absent THEN "false"
    ELSE EvaluateBool(m.skip_if, cols)

\* Faulty variant: entitlements look at what is required before skip_if too.
SkipsIfComplete(m, cols) == Condition(m, cols) = "true" /\ m.complete

(* A grant mapping is refused for what it lacks even where it would skip. *)
Skips(m, cols) ==
    /\ Condition(m, cols) = "true"
    /\ config.kind = "grants" => m.complete

(* Every configured expression is evaluated, those of traits included; the   *)
(* ID of a static entitlement is a constant, not an expression.              *)
Evaluated(m) == IF config.kind = "static" THEN DOMAIN m.exprs \ {1} ELSE DOMAIN m.exprs

Evaluates(m, cols) == \A i \in Evaluated(m) : EvaluateString(m.exprs[i], cols) # Failed

Maps(m, cols) == Condition(m, cols) = "false" /\ m.complete /\ Evaluates(m, cols)

\* Faulty variant: role traits are not mapped.
FetchTraitsNoRole == config.traits \ {"role"}

(* fetchTraits: one trait, in the order of its switch. *)
FetchTraits ==
    IF "user" \in config.traits THEN {"user"}
    ELSE IF "group" \in config.traits THEN {"group"}
    ELSE IF "role" \in config.traits THEN {"role"}
    ELSE config.traits

(* extractTraits: what the resource type declares. *)
DeclaredTraits == config.traits

(* The ID of a static entitlement is what its configuration says. *)
IDOf(m, cols) ==
    IF config.kind = "static" THEN m.exprs[1].word ELSE EvaluateString(m.exprs[1], cols).text

Item(m, cols) ==
    [id |-> IDOf(m, cols), traits |-> FetchTraits, row |-> row, mapping |-> next]

-----------------------------------------------------------------------------
(* Static entitlements are mapped once, with no columns. *)
Init ==
    /\ config \in Configs
    /\ page \in Pages
    /\ config.kind = "static" => Len(page) = 1 /\ DOMAIN page[1] = {}
    /\ row = 1
    /\ next = 1
    /\ ret = <<>>
    /\ outcome = "running"

Current == config.maps[next]

InRow == outcome = "running" /\ row <= Len(page) /\ next <= Len(config.maps)

\* Faulty variant: a mapping that skips ends the row.
AfterSkipEndsRow == Len(config.maps) + 1

AfterSkip == next + 1

Skip ==
    /\ InRow
    /\ Skips(Current, page[row])
    /\ next' = AfterSkip
    /\ UNCHANGED <<config, page, row, ret, outcome>>

Map ==
    /\ InRow
    /\ Maps(Current, page[row])
    /\ ret' = Append(ret, Item(Current, page[row]))
    /\ next' = next + 1
    /\ UNCHANGED <<config, page, row, outcome>>

(* An error of the condition, of something required, or of an expression. *)
FailPage ==
    /\ InRow
    /\ ~Skips(Current, page[row]) /\ ~Maps(Current, page[row])
    /\ ret' = <<>>
    /\ outcome' = "error"
    /\ UNCHANGED <<config, page, row, next>>

NextRow ==
    /\ outcome = "running"
    /\ row <= Len(page) /\ next > Len(config.maps)
    /\ row' = row + 1
    /\ next' = 1
    /\ UNCHANGED <<config, page, ret, outcome>>

Return ==
    /\ outcome = "running"
    /\ row > Len(page)
    /\ outcome' = "answered"
    /\ UNCHANGED <<config, page, row, next, ret>>

(* The driver stores resources that have the traits their type declares, and *)
(* fails the page for one that has not; other items are stored as they are.  *)
Missing == \E i \in DOMAIN ret : ~(DeclaredTraits \subseteq ret[i].traits)

Store ==
    /\ outcome = "answered"
    /\ ~Missing
    /\ outcome' = "stored"
    /\ UNCHANGED <<config, page, row, next, ret>>

RefuseTraits ==
    /\ outcome = "answered"
    /\ Missing
    /\ outcome' = "refused"
    /\ UNCHANGED <<config, page, row, next, ret>>

Next == Skip \/ Map \/ FailPage \/ NextRow \/ Return \/ Store \/ RefuseTraits

Spec == Init /\ [][Next]_vars

-----------------------------------------------------------------------------
Pairs == (DOMAIN page) \X (DOMAIN config.maps)
ConditionOf(p) == Condition(config.maps[p[2]], page[p[1]])
PairOf(i) == <<ret[i].row, ret[i].mapping>>
Before(p, q) == p[1] < q[1] \/ (p[1] = q[1] /\ p[2] < q[2])
Answered == outcome \in {"answered", "stored", "refused"}

(* An answered page has one item for each row and mapping whose condition is *)
(* not true, and no other, in the order of the rows and then of the mappings.*)
EachMappingOfEachRow ==
    Answered =>
        /\ {PairOf(i) : i \in DOMAIN ret} = {p \in Pairs : ConditionOf(p) # "true"}
        /\ \A i, j \in DOMAIN ret : i < j => Before(PairOf(i), PairOf(j))

(* What cannot be mapped: a condition without a truth value, or something    *)
(* missing or failing where the condition does not skip. A grant mapping     *)
(* that lacks something is never accepted.                                   *)
Broken(p) ==
    LET m == config.maps[p[2]]
    IN  \/ ConditionOf(p) = "error"
        \/ config.kind = "grants" /\ ~m.complete
        \/ /\ ConditionOf(p) = "false"
           /\ \/ ~m.complete
              \/ \E i \in Evaluated(m) : Evaluate(m.exprs[i], page[p[1]]) = Failed

(* A page is dropped when some row of it cannot be mapped, and only then: an *)
(* error returns nothing of the rows before it, and an entitlement that is   *)
(* skipped needs nothing of what its mapping lacks.                          *)
WholePageOrError ==
    /\ outcome = "error" => ret = <<>> /\ \E p \in Pairs : Broken(p)
    /\ Answered => \A p \in Pairs : ~Broken(p)

(* Two rows whose ID column reads the same get the same ID, whether the      *)
(* database driver delivers it as an integer, as text or as bytes.           *)
SameIDForSameText ==
    LET cell(i) == Evaluate(config.maps[ret[i].mapping].exprs[1], page[ret[i].row])
        readable(i) == cell(i).type \in {"int", "text", "bytes"}
    IN  config.kind # "static" =>
          \A i, j \in DOMAIN ret :
              readable(i) /\ readable(j) => (cell(i).text = cell(j).text <=> ret[i].id = ret[j].id)

(* The driver never refuses a resource whose type has at most one trait: the *)
(* trait that is declared is the one that is mapped.                         *)
OneTraitAccepted == outcome = "refused" => Cardinality(config.traits) > 1

(* "ignore this row mapping if the condition evaluates to true": what is     *)
(* false or zero does not skip.                                              *)
FalseKeeps ==
    Answered =>
        \A p \in Pairs :
            LET m == config.maps[p[2]]
            IN  /\ config.kind = "grants" /\ m.skip_if # Absent
                /\ Evaluate(m.skip_if, page[p[1]]).text \in FalseWords
                => \E i \in DOMAIN ret : PairOf(i) = p
=============================================================================
