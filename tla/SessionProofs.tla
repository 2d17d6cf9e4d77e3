--------------------------- MODULE SessionProofs ---------------------------
(* Proofs about Session, for every set of types and resources, every         *)
(* configuration and any number of failures: a checkpoint leads to all that  *)
(* is missing, and the sync implements its contract.                         *)
EXTENDS Session, FiniteSetTheorems, SequenceTheorems, TLAPS

-----------------------------------------------------------------------------
(* A stack goes down the stages: the current action is of the earliest one.  *)
Sorted(s) == \A j, k \in DOMAIN s : j <= k => RankOf(s[j].op) >= RankOf(s[k].op)

(* The operators below take the rows of the store as an argument, T[op] those *)
(* that the stage of op goes through, so that what is shown of them holds     *)
(* before and after a step.                                                   *)
TablesOf(types, resources) == [op \in Ops |-> IF op = "resources" THEN types ELSE resources]

Tables == TablesOf(typeList, resourceList)

Grown(T, U) ==
    \A op \in Ops :
        /\ Len(T[op]) <= Len(U[op])
        /\ \A k \in DOMAIN T[op] : k \in DOMAIN U[op] /\ U[op][k] = T[op][k]

(* A stage points into the rows of the store, a listing is of one of them.   *)
Sound(a, T) ==
    /\ a.op \in Ops /\ a.target = None => a.token <= Len(T[a.op])
    /\ a.target # None => a.op \in Ops /\ a.target \in Elements(T[a.op])

Fits(s, T) ==
    /\ Sorted(s)
    /\ \A k \in DOMAIN s : Sound(s[k], T) /\ (s[k].op = "init" => Len(s) = 1)

(* Covers and Leads of Session. *)
Reaches(a, i, T) ==
    \/ a.op = "init"
    \/ a.op = i.op /\ a.op = "types"
    \/ /\ a.op = i.op /\ a.op # "types" /\ a.target = None
       /\ \A j \in DOMAIN T[a.op] : j <= a.token => T[a.op][j] # i.target
    \/ a.op = i.op /\ a.target = i.target /\ (a.token = 0 \/ i.page <= a.token)

LeadsTo(s, i, T) == \E k \in DOMAIN s : Reaches(s[k], i, T)

(* A stack that leads to all of S that is not in C. *)
Good(s, S, C, T) ==
    /\ s \in Seq(Actions)
    /\ Fits(s, T)
    /\ \A i \in S : i \in C \/ LeadsTo(s, i, T)

TypeItem(x) == [op |-> "types", target |-> TypeOf[x], page |-> 1]
PageItem(r) == [op |-> "resources", target |-> TypeOf[r], page |-> PageOf[r]]

(* What is collected of types and resources is among the rows. *)
RowsKept ==
    \A i \in collected :
        /\ i.op = "types" => i.target \in Elements(typeList)
        /\ i.op = "resources" =>
              \A r \in Resources :
                  TypeOf[r] = i.target /\ PageOf[r] = i.page => r \in Elements(resourceList)
        /\ i.op \in {"entitlements", "grants"} => i.target \in Elements(resourceList)

TypesKept == \A r \in Elements(resourceList) : TypeOf[r] \in Elements(typeList)

(* Who asks for an item asks for what it depends on. *)
Closed(S) ==
    \A i \in S :
        /\ i.op # "types" => TypeItem(i.target) \in S
        /\ i.op \in {"entitlements", "grants"} => PageItem(i.target) \in S

SteadyKept ==
    /\ steady \subseteq Wanted(config) /\ Closed(steady)
    /\ \A i \in steady : i.op \in {"entitlements", "grants"} => TypeOf[i.target] \notin skipTypes

StackKept ==
    /\ pc = "running" => Good(stack, steady, collected, Tables)
    /\ pc # "running" => stack = <<>>

SavedKept == Good(saved, steady, collected, Tables)

IInv == TypeOK /\ StackKept /\ SavedKept /\ RowsKept /\ TypesKept /\ SteadyKept

-----------------------------------------------------------------------------
LEMMA Ranks ==
  /\ RankOf("init") = 0 /\ RankOf("types") = 1 /\ RankOf("resources") = 2
  /\ RankOf("entitlements") = 3 /\ RankOf("grants") = 4 /\ RankOf("expansion") = 5
  BY DEF RankOf

(* Two stacks on top of each other. *)
LEMMA OnTop ==
  ASSUME NEW s \in Seq(Actions), NEW t \in Seq(Actions)
  PROVE  /\ s \o t \in Seq(Actions)
         /\ \A i, T : LeadsTo(s \o t, i, T) <=> LeadsTo(s, i, T) \/ LeadsTo(t, i, T)
         /\ \A k \in DOMAIN (s \o t) :
               \/ \E j \in DOMAIN s : (s \o t)[k] = s[j]
               \/ \E j \in DOMAIN t : (s \o t)[k] = t[j]
         /\ Sorted(s) /\ Sorted(t)
            /\ (\A j \in DOMAIN s, k \in DOMAIN t : RankOf(s[j].op) >= RankOf(t[k].op))
               => Sorted(s \o t)
  <1> DEFINE u == s \o t
  <1>1. /\ u \in Seq(Actions) /\ Len(u) = Len(s) + Len(t)
        /\ \A i \in 1 .. Len(s) + Len(t) : u[i] = IF i <= Len(s) THEN s[i] ELSE t[i - Len(s)]
    BY ConcatProperties
  <1>2. /\ Len(s) \in Nat /\ Len(t) \in Nat
        /\ DOMAIN s = 1 .. Len(s) /\ DOMAIN t = 1 .. Len(t) /\ DOMAIN u = 1 .. Len(u)
    BY <1>1
  <1> HIDE DEF u
  <1>3. \A j \in DOMAIN s : j \in DOMAIN u /\ u[j] = s[j]
    BY <1>1, <1>2
  <1>4. \A j \in DOMAIN t : Len(s) + j \in DOMAIN u /\ u[Len(s) + j] = t[j]
    BY <1>1, <1>2
  <1>5. \A k \in DOMAIN u :
           \/ k \in DOMAIN s /\ u[k] = s[k]
           \/ k > Len(s) /\ k - Len(s) \in DOMAIN t /\ u[k] = t[k - Len(s)]
    BY <1>1, <1>2
  <1>6. ASSUME NEW i, NEW T PROVE LeadsTo(u, i, T) <=> LeadsTo(s, i, T) \/ LeadsTo(t, i, T)
    <2>1. LeadsTo(u, i, T) => LeadsTo(s, i, T) \/ LeadsTo(t, i, T)
      BY <1>5 DEF LeadsTo
    <2>2. LeadsTo(s, i, T) => LeadsTo(u, i, T)
      BY <1>3 DEF LeadsTo
    <2>3. LeadsTo(t, i, T) => LeadsTo(u, i, T)
      BY <1>4 DEF LeadsTo
    <2> QED
      BY <2>1, <2>2, <2>3
  <1>7. ASSUME Sorted(s), Sorted(t),
               \A j \in DOMAIN s, k \in DOMAIN t : RankOf(s[j].op) >= RankOf(t[k].op)
        PROVE  Sorted(u)
    <2> SUFFICES ASSUME NEW j \in DOMAIN u, NEW k \in DOMAIN u, j <= k
                 PROVE  RankOf(u[j].op) >= RankOf(u[k].op)
      BY DEF Sorted
    <2>1. CASE k \in DOMAIN s /\ u[k] = s[k]
      <3>1. j \in DOMAIN s /\ u[j] = s[j]
        BY <1>2, <1>3, <2>1
      <3> QED
        BY <1>7, <2>1, <3>1 DEF Sorted
    <2>2. CASE k > Len(s) /\ k - Len(s) \in DOMAIN t /\ u[k] = t[k - Len(s)]
      <3>1. CASE j \in DOMAIN s /\ u[j] = s[j]
        BY <1>7, <2>2, <3>1
      <3>2. CASE j > Len(s) /\ j - Len(s) \in DOMAIN t /\ u[j] = t[j - Len(s)]
        <4>1. j - Len(s) <= k - Len(s)
          BY <1>2
        <4> QED
          BY <1>7, <2>2, <3>2, <4>1 DEF Sorted
      <3> QED
        BY <1>5, <3>1, <3>2
    <2> QED
      BY <1>5, <2>1, <2>2
  <1> QED
    BY <1>1, <1>5, <1>6, <1>7 DEF u

(* What pop leaves, and what NextPage leaves. *)
LEMMA UnderTop ==
  ASSUME stack \in Seq(Actions), stack # <<>>
  PROVE  /\ Top \in Actions /\ Len(stack) \in DOMAIN stack
         /\ Below \in Seq(Actions)
         /\ \A k \in DOMAIN Below : k \in DOMAIN stack /\ Below[k] = stack[k] /\ k < Len(stack)
         /\ \A k \in DOMAIN stack : k = Len(stack) \/ k \in DOMAIN Below
  <1>1. Len(stack) \in Nat \ {0} /\ DOMAIN stack = 1 .. Len(stack)
    BY EmptySeq
  <1>2. Top \in Actions
    BY <1>1 DEF Top
  <1>3. /\ Below \in Seq(Actions) /\ Len(Below) = Len(stack) - 1
        /\ \A k \in 1 .. Len(stack) - 1 : Below[k] = stack[k]
    BY <1>1, SubSeqProperties DEF Below
  <1> QED
    BY <1>1, <1>2, <1>3

LEMMA Pop ==
  ASSUME stack \in Seq(Actions), stack # <<>>, NEW T
  PROVE  /\ \A i : LeadsTo(stack, i, T) <=> LeadsTo(Below, i, T) \/ Reaches(Top, i, T)
         /\ Fits(stack, T) => Fits(Below, T) /\ Sound(Top, T)
         /\ Fits(stack, T) => \A k \in DOMAIN stack : RankOf(stack[k].op) >= RankOf(Top.op)
  <1>1. /\ Top = stack[Len(stack)] /\ Len(stack) \in DOMAIN stack
        /\ \A k \in DOMAIN Below : k \in DOMAIN stack /\ Below[k] = stack[k] /\ k < Len(stack)
        /\ \A k \in DOMAIN stack : k = Len(stack) \/ k \in DOMAIN Below
    BY UnderTop DEF Top
  <1>2. ASSUME NEW i PROVE LeadsTo(stack, i, T) <=> LeadsTo(Below, i, T) \/ Reaches(Top, i, T)
    BY <1>1 DEF LeadsTo
  <1>3. Fits(stack, T) => Sound(Top, T)
    BY <1>1 DEF Fits
  <1>4. Fits(stack, T) => Fits(Below, T)
    <2> SUFFICES ASSUME Fits(stack, T) PROVE Fits(Below, T)
      OBVIOUS
    <2>1. Sorted(Below)
      BY <1>1 DEF Fits, Sorted
    <2>2. \A k \in DOMAIN Below : stack[k].op # "init"
      <3> SUFFICES ASSUME NEW k \in DOMAIN Below, stack[k].op = "init" PROVE FALSE
        OBVIOUS
      <3>1. Len(stack) = 1
        BY <1>1 DEF Fits
      <3>2. DOMAIN stack = 1 .. Len(stack)
        OBVIOUS
      <3> QED
        BY <1>1, <3>1, <3>2
    <2> QED
      BY <1>1, <2>1, <2>2 DEF Fits
  <1>5. Fits(stack, T) => \A k \in DOMAIN stack : RankOf(stack[k].op) >= RankOf(Top.op)
    <2>1. DOMAIN stack = 1 .. Len(stack) /\ Len(stack) \in Nat
      OBVIOUS
    <2> QED
      BY <1>1, <2>1 DEF Fits, Sorted
  <1> QED
    BY <1>2, <1>3, <1>4, <1>5

LEMMA Move ==
  ASSUME stack \in Seq(Actions), stack # <<>>, NEW n \in Nat, NEW T
  PROVE  /\ Moved(n) \in Seq(Actions)
         /\ \A i : LeadsTo(Moved(n), i, T) <=>
                    LeadsTo(Below, i, T) \/ Reaches([Top EXCEPT !.token = n], i, T)
         /\ Sorted(stack) => Sorted(Moved(n))
         /\ Len(Moved(n)) = Len(stack)
         /\ \A k \in DOMAIN Moved(n) :
               /\ k \in DOMAIN stack /\ Moved(n)[k].op = stack[k].op
               /\ \/ Moved(n)[k] = stack[k]
                  \/ k = Len(stack) /\ Moved(n)[k] = [Top EXCEPT !.token = n]
  <1> DEFINE u == Moved(n)
             top == [Top EXCEPT !.token = n]
  <1>1. /\ Top \in Actions /\ Top = stack[Len(stack)] /\ Len(stack) \in DOMAIN stack
        /\ \A k \in DOMAIN Below : k \in DOMAIN stack /\ Below[k] = stack[k] /\ k < Len(stack)
        /\ \A k \in DOMAIN stack : k = Len(stack) \/ k \in DOMAIN Below
    BY UnderTop DEF Top
  <1>2. top \in Actions /\ top.op = Top.op
    BY <1>1 DEF Actions
  <1>3. u = [stack EXCEPT ![Len(stack)] = top]
    BY <1>1 DEF Moved
  <1>4. /\ u \in Seq(Actions) /\ DOMAIN u = DOMAIN stack /\ Len(u) = Len(stack)
        /\ u[Len(stack)] = top
        /\ \A k \in DOMAIN stack : k # Len(stack) => u[k] = stack[k]
    BY <1>1, <1>2, <1>3
  <1> HIDE DEF u, top
  <1>5. ASSUME NEW i PROVE LeadsTo(u, i, T) <=> LeadsTo(Below, i, T) \/ Reaches(top, i, T)
    <2>1. LeadsTo(u, i, T) => LeadsTo(Below, i, T) \/ Reaches(top, i, T)
      BY <1>1, <1>4 DEF LeadsTo
    <2>2. Reaches(top, i, T) => LeadsTo(u, i, T)
      BY <1>1, <1>4 DEF LeadsTo
    <2>3. ASSUME LeadsTo(Below, i, T) PROVE LeadsTo(u, i, T)
      <3>1. PICK k \in DOMAIN Below : Reaches(Below[k], i, T)
        BY <2>3 DEF LeadsTo
      <3>2. k \in DOMAIN u /\ u[k] = Below[k]
        BY <1>1, <1>4
      <3> QED
        BY <3>1, <3>2 DEF LeadsTo
    <2> QED
      BY <2>1, <2>2, <2>3
  <1>6. \A k \in DOMAIN u : u[k].op = stack[k].op
    BY <1>1, <1>2, <1>4
  <1>7. Sorted(stack) => Sorted(u)
    BY <1>4, <1>6 DEF Sorted
  <1> QED
    BY <1>4, <1>5, <1>6, <1>7 DEF u, top

(* The orders of a finite set list its elements. *)
LEMMA OrdersFacts ==
  ASSUME NEW S, IsFiniteSet(S), NEW l \in Orders(S)
  PROVE  l \in Seq(S) /\ Elements(l) = S
  <1>1. Cardinality(S) \in Nat
    BY FS_CardinalityType
  <1>2. l \in [1 .. Cardinality(S) -> S] /\ \A x \in S : \E i \in DOMAIN l : l[i] = x
    BY DEF Orders
  <1>3. l \in Seq(S)
    BY <1>1, <1>2
  <1>4. Elements(l) = S
    BY <1>2 DEF Elements
  <1> QED
    BY <1>3, <1>4

(* Rows are only added at the end. *)
LEMMA RowsAdded ==
  ASSUME NEW T, NEW s \in Seq(T), NEW new \in Seq(T)
  PROVE  /\ s \o new \in Seq(T) /\ Len(s \o new) >= Len(s)
         /\ Elements(s \o new) = Elements(s) \cup Elements(new)
         /\ \A k \in DOMAIN s : k \in DOMAIN (s \o new) /\ (s \o new)[k] = s[k]
  <1> DEFINE u == s \o new
  <1>1. /\ u \in Seq(T) /\ Len(u) = Len(s) + Len(new)
        /\ \A i \in 1 .. Len(s) + Len(new) : u[i] = IF i <= Len(s) THEN s[i] ELSE new[i - Len(s)]
    BY ConcatProperties
  <1>2. /\ Len(s) \in Nat /\ Len(new) \in Nat
        /\ DOMAIN s = 1 .. Len(s) /\ DOMAIN new = 1 .. Len(new) /\ DOMAIN u = 1 .. Len(u)
    BY <1>1
  <1> HIDE DEF u
  <1>3. \A j \in DOMAIN s : j \in DOMAIN u /\ u[j] = s[j]
    BY <1>1, <1>2
  <1>4. \A j \in DOMAIN new : Len(s) + j \in DOMAIN u /\ u[Len(s) + j] = new[j]
    BY <1>1, <1>2
  <1>5. \A k \in DOMAIN u : (k \in DOMAIN s /\ u[k] = s[k])
                           \/ (k - Len(s) \in DOMAIN new /\ u[k] = new[k - Len(s)])
    BY <1>1, <1>2
  <1>6. Elements(u) = Elements(s) \cup Elements(new)
    BY <1>3, <1>4, <1>5 DEF Elements
  <1> QED
    BY <1>1, <1>2, <1>3, <1>6 DEF u

-----------------------------------------------------------------------------
LEMMA LeadsIsLeadsTo ==
  ASSUME NEW i \in Items
  PROVE  /\ Leads(saved, i) <=> LeadsTo(saved, i, Tables)
         /\ Leads(saved, i)' <=> LeadsTo(saved', i, Tables')
  <1>1. i.op \in Ops \cup {"types"}
    BY DEF Items
  <1>2. \A a : a.op = i.op /\ a.op # "types" => Tables[a.op] = Rows(a.op)
    BY <1>1 DEF Tables, TablesOf, Rows
  <1>3. \A a : a.op = i.op /\ a.op # "types" => Tables'[a.op] = Rows(a.op)'
    BY <1>1 DEF Tables, TablesOf, Rows
  <1>4. \A a : Covers(a, i) <=> Reaches(a, i, Tables)
    BY <1>2 DEF Covers, Behind, Reaches
  <1>5. \A a : Covers(a, i)' <=> Reaches(a, i, Tables')
    BY <1>3 DEF Covers, Behind, Reaches
  <1>6. Leads(saved, i) <=> LeadsTo(saved, i, Tables)
    BY <1>4 DEF Leads, LeadsTo
  <1>7. Leads(saved, i)' <=> LeadsTo(saved', i, Tables')
    BY <1>5 DEF Leads, LeadsTo, Covers, Behind, Reaches, Rows
  <1> QED
    BY <1>6, <1>7

(* A stack stays good when rows are added, items are collected and fewer are *)
(* asked for.                                                                *)
LEMMA GoodStays ==
  ASSUME NEW s, NEW S, NEW C, NEW T, Good(s, S, C, T),
         NEW S2 \in SUBSET S, NEW C2, C \subseteq C2, NEW U, Grown(T, U),
         \A op \in Ops : Len(T[op]) \in Nat /\ Len(U[op]) \in Nat
                        /\ DOMAIN T[op] = 1 .. Len(T[op]) /\ DOMAIN U[op] = 1 .. Len(U[op]),
         \A i \in S : i.op \in Ops \cup {"types"}
  PROVE  Good(s, S2, C2, U)
  <1>1. s \in Seq(Actions) /\ Fits(s, T) /\ \A k \in DOMAIN s : s[k] \in Actions
    BY DEF Good
  <1>2. \A op \in Ops : Elements(T[op]) \subseteq Elements(U[op])
    BY DEF Grown, Elements
  <1>3. ASSUME NEW k \in DOMAIN s PROVE Sound(s[k], U)
    <2>1. Sound(s[k], T) /\ s[k].token \in Nat
      BY <1>1 DEF Fits, Actions
    <2>2. ASSUME s[k].op \in Ops, s[k].target = None PROVE s[k].token <= Len(U[s[k].op])
      <3>1. s[k].token <= Len(T[s[k].op])
        BY <2>1, <2>2 DEF Sound
      <3>2. /\ Len(T[s[k].op]) \in Nat /\ Len(U[s[k].op]) \in Nat
            /\ Len(T[s[k].op]) <= Len(U[s[k].op])
        BY <2>2 DEF Grown
      <3> QED
        BY <2>1, <3>1, <3>2
    <2>3. ASSUME s[k].target # None
          PROVE  s[k].op \in Ops /\ s[k].target \in Elements(U[s[k].op])
      BY <1>2, <2>1, <2>3 DEF Sound
    <2> QED
      BY <2>2, <2>3 DEF Sound
  <1>4. Fits(s, U)
    BY <1>1, <1>3 DEF Fits
  <1>5. ASSUME NEW k \in DOMAIN s, NEW i \in S, Reaches(s[k], i, T) PROVE Reaches(s[k], i, U)
    <2>1. CASE s[k].op = i.op /\ s[k].op # "types" /\ s[k].target = None
      <3>1. s[k].op \in Ops /\ s[k].token \in Nat
        BY <1>1, <2>1 DEF Actions
      <3>2. s[k].token <= Len(T[s[k].op])
        BY <1>1, <2>1, <3>1 DEF Fits, Sound
      <3>3. \A j \in DOMAIN U[s[k].op] :
               j <= s[k].token => j \in DOMAIN T[s[k].op] /\ U[s[k].op][j] = T[s[k].op][j]
        BY <3>1, <3>2 DEF Grown
      <3> QED
        BY <1>5, <2>1, <3>3 DEF Reaches
    <2> QED
      BY <1>5, <2>1 DEF Reaches
  <1>6. ASSUME NEW i \in S2 PROVE i \in C2 \/ LeadsTo(s, i, U)
    BY <1>5 DEF Good, LeadsTo
  <1> QED
    BY <1>1, <1>4, <1>6 DEF Good

LEMMA TablesOfType ==
  ASSUME NEW types \in Seq(Types), NEW resources \in Seq(Resources),
         NEW T, T = TablesOf(types, resources)
  PROVE  /\ T["resources"] = types
         /\ T["entitlements"] = resources /\ T["grants"] = resources
         /\ \A op \in Ops : /\ T[op] \in Seq(TargetsOf(op))
                            /\ Len(T[op]) \in Nat /\ DOMAIN T[op] = 1 .. Len(T[op])
  <1>1. T["resources"] = types /\ T["entitlements"] = resources /\ T["grants"] = resources
    BY DEF TablesOf, Ops
  <1>2. \A op \in Ops : T[op] \in Seq(TargetsOf(op))
    BY <1>1 DEF Ops, TargetsOf
  <1>3. ASSUME NEW op \in Ops PROVE Len(T[op]) \in Nat /\ DOMAIN T[op] = 1 .. Len(T[op])
    BY <1>2
  <1> QED
    BY <1>1, <1>2, <1>3

LEMMA TablesType ==
  ASSUME typeList \in Seq(Types), resourceList \in Seq(Resources)
  PROVE  /\ \A op \in Ops : Tables[op] = Rows(op)
         /\ Tables["resources"] = typeList
         /\ Tables["entitlements"] = resourceList /\ Tables["grants"] = resourceList
         /\ \A op \in Ops : /\ Tables[op] \in Seq(TargetsOf(op))
                            /\ Len(Tables[op]) \in Nat
                            /\ DOMAIN Tables[op] = 1 .. Len(Tables[op])
  <1>1. Tables = TablesOf(typeList, resourceList)
    BY DEF Tables
  <1>2. \A op \in Ops : Tables[op] = Rows(op)
    BY DEF Tables, TablesOf, Rows
  <1> QED
    BY <1>1, <1>2, TablesOfType

-----------------------------------------------------------------------------
LEMMA ItemFacts ==
  /\ \A i \in Items :
        /\ i.op \in Ops \cup {"types"} /\ i.target \in TargetsOf(i.op)
        /\ i.page \in 1 .. MaxPages /\ TypeOf[i.target] \in Types
        /\ i = [op |-> i.op, target |-> i.target, page |-> i.page]
  /\ \A op \in Ops \cup {"types"} : \A x \in TargetsOf(op), p \in 1 .. MaxPages :
        [op |-> op, target |-> x, page |-> p] \in Items
  <1>1. \A op : TargetsOf(op) \subseteq Types \cup Resources
    BY DEF TargetsOf
  <1>2. ASSUME NEW i \in Items
        PROVE  /\ i.op \in Ops \cup {"types"} /\ i.target \in TargetsOf(i.op)
               /\ i.page \in 1 .. MaxPages /\ TypeOf[i.target] \in Types
               /\ i = [op |-> i.op, target |-> i.target, page |-> i.page]
    <2>1. PICK op \in Ops \cup {"types"} :
             i \in [op: {op}, target: TargetsOf(op), page: 1 .. MaxPages]
      BY DEF Items
    <2> QED
      BY <1>1, <2>1, SessionAssumption
  <1>3. ASSUME NEW op \in Ops \cup {"types"}, NEW x \in TargetsOf(op), NEW p \in 1 .. MaxPages
        PROVE  [op |-> op, target |-> x, page |-> p] \in Items
    <2>1. [op |-> op, target |-> x, page |-> p]
             \in [op: {op}, target: TargetsOf(op), page: 1 .. MaxPages]
      OBVIOUS
    <2> QED
      BY <2>1 DEF Items
  <1> QED
    BY <1>2, <1>3

(* A configuration that asks for an item asks for what it depends on. *)
LEMMA WantedClosed ==
  ASSUME NEW c \in Configs
  PROVE  /\ Wanted(c) \subseteq Items /\ Closed(Wanted(c))
         /\ \A i \in Wanted(c) :
               /\ TypeOf[i.target] \in Served(c) /\ i.page <= Calls(c, i.op, i.target)
               /\ i.op \in {"entitlements", "grants"} => TypeOf[i.target] \notin c.skip
  <1>1. Wanted(c) \subseteq Items
    BY DEF Wanted
  <1>2. ASSUME NEW i \in Wanted(c), i.op # "types" PROVE TypeItem(i.target) \in Wanted(c)
    <2>1. TypeOf[i.target] \in Types /\ TypeOf[i.target] \in Served(c)
      BY <1>1, ItemFacts DEF Wanted
    <2>2. TypeItem(i.target) \in Items
      BY <2>1, ItemFacts, SessionAssumption DEF TypeItem, TargetsOf
    <2>3. TypeOf[TypeOf[i.target]] = TypeOf[i.target]
      BY <2>1, SessionAssumption
    <2>4. /\ TypeItem(i.target).op = "types" /\ TypeItem(i.target).page = 1
          /\ TypeItem(i.target).target = TypeOf[i.target]
      BY DEF TypeItem
    <2> QED
      BY <2>1, <2>2, <2>3, <2>4 DEF Wanted, Calls
  <1>3. ASSUME NEW i \in Wanted(c), i.op \in {"entitlements", "grants"}
        PROVE  PageItem(i.target) \in Wanted(c)
    <2>1. TypeOf[i.target] \in Types /\ TypeOf[i.target] \in Served(c) /\ i.target \in Resources
      BY <1>1, <1>3, ItemFacts DEF Wanted, TargetsOf
    <2>2. PageOf[i.target] \in 1 .. MaxPages /\ PageOf[i.target] <= Pages[TypeOf[i.target]]
      BY <2>1, SessionAssumption
    <2>3. PageItem(i.target) \in Items
      BY <2>1, <2>2, ItemFacts DEF PageItem, TargetsOf, Ops
    <2>4. TypeOf[TypeOf[i.target]] = TypeOf[i.target]
      BY <2>1, SessionAssumption
    <2>5. /\ PageItem(i.target).op = "resources" /\ PageItem(i.target).page = PageOf[i.target]
          /\ PageItem(i.target).target = TypeOf[i.target]
      BY DEF PageItem
    <2> QED
      BY <2>1, <2>2, <2>3, <2>4, <2>5 DEF Wanted, Calls
  <1>4. Closed(Wanted(c))
    BY <1>2, <1>3 DEF Closed
  <1>5. ASSUME NEW i \in Wanted(c)
        PROVE  /\ TypeOf[i.target] \in Served(c) /\ i.page <= Calls(c, i.op, i.target)
               /\ i.op \in {"entitlements", "grants"} => TypeOf[i.target] \notin c.skip
    BY DEF Wanted
  <1> QED
    BY <1>1, <1>4, <1>5

(* The first action leads to everything. *)
LEMMA BeginningGood ==
  ASSUME NEW S, NEW C, NEW T
  PROVE  Good(Beginning, S, C, T)
  <1>1. Beginning \in Seq(Actions)
    BY DEF Beginning, Action, Actions
  <1>2. Len(Beginning) = 1 /\ DOMAIN Beginning = {1} /\ Beginning[1] = Action("init", None)
    BY DEF Beginning
  <1>3. Fits(Beginning, T)
    BY <1>2, Ranks DEF Fits, Sorted, Sound, Action, Ops
  <1>4. \A i : LeadsTo(Beginning, i, T)
    BY <1>2 DEF LeadsTo, Reaches, Action
  <1> QED
    BY <1>1, <1>3, <1>4 DEF Good

(* A sync that has not begun satisfies the invariant. *)
THEOREM InitInvariant == Init => IInv
  <1> SUFFICES ASSUME Init PROVE IInv
    OBVIOUS
  <1>1. Beginning \in Seq(Actions)
    BY BeginningGood DEF Good
  <1>2. config \in Configs /\ Wanted(config) \subseteq Items
    BY WantedClosed DEF Init
  <1>3. TypeOK
    <2>1. 0 \in 0 .. MaxFailures /\ 0 \in 0 .. MaxChanges
      BY SessionAssumption
    <2>2. typeList \in Seq(Types) /\ resourceList \in Seq(Resources)
      BY DEF Init
    <2>3. stack \in Seq(Actions) /\ saved \in Seq(Actions)
      BY <1>1 DEF Init
    <2> QED
      BY <1>2, <2>1, <2>2, <2>3 DEF Init, TypeOK
  <1>4. StackKept /\ SavedKept
    BY BeginningGood DEF Init, StackKept, SavedKept
  <1>5. RowsKept /\ TypesKept
    BY DEF Init, RowsKept, TypesKept, Elements
  <1>6. SteadyKept
    BY <1>2, WantedClosed DEF Init, SteadyKept
  <1> QED
    BY <1>3, <1>4, <1>5, <1>6 DEF IInv

-----------------------------------------------------------------------------
LEMMA RankIsNat == \A op \in Ops \cup {"init", "types", "expansion"} : RankOf(op) \in Nat
  BY Ranks DEF Ops

(* What all configurations ask for of the stages before the current action   *)
(* is collected.                                                             *)
LEMMA Earlier ==
  ASSUME IInv, pc = "running", stack # <<>>,
         NEW i \in steady, RankOf(i.op) < RankOf(Top.op)
  PROVE  i \in collected
  <1> SUFFICES ASSUME i \notin collected PROVE FALSE
    OBVIOUS
  <1>1. Good(stack, steady, collected, Tables) /\ i \in Items /\ stack \in Seq(Actions)
    BY DEF IInv, StackKept, TypeOK
  <1>2. PICK k \in DOMAIN stack : Reaches(stack[k], i, Tables)
    BY <1>1 DEF Good, LeadsTo
  <1>3. stack[k] \in Actions /\ Top \in Actions
    BY <1>1, UnderTop
  <1>4. RankOf(stack[k].op) \in Nat /\ RankOf(Top.op) \in Nat /\ RankOf(i.op) \in Nat
    BY <1>1, <1>3, RankIsNat, ItemFacts DEF Actions
  <1>5. RankOf(stack[k].op) >= RankOf(Top.op)
    BY <1>1, Pop DEF Good
  <1>6. stack[k].op = "init" \/ stack[k].op = i.op
    BY <1>2 DEF Reaches
  <1> QED
    BY <1>4, <1>5, <1>6, Ranks

(* The targets of what a stage has to lead to are rows by then. *)
LEMMA Present ==
  ASSUME IInv, pc = "running", stack # <<>>,
         NEW i \in steady, i.op = Top.op, i.op \in Ops
  PROVE  i.target \in Elements(Tables[i.op])
  <1>1. /\ typeList \in Seq(Types) /\ resourceList \in Seq(Resources)
        /\ i \in Items /\ Closed(steady) /\ RowsKept
    BY DEF IInv, SteadyKept, TypeOK
  <1>2. i.target \in TargetsOf(i.op)
    BY <1>1, ItemFacts
  <1>3. TypeItem(i.target) \in collected
    <2>1. TypeItem(i.target) \in steady /\ TypeItem(i.target).op = "types"
      BY <1>1 DEF Closed, TypeItem, Ops
    <2> QED
      BY <2>1, Earlier, Ranks DEF Ops
  <1>4. CASE i.op = "resources"
    <2>1. TypeOf[i.target] = i.target
      BY <1>2, <1>4, SessionAssumption DEF TargetsOf
    <2>2. i.target \in Elements(typeList)
      BY <1>1, <1>3, <2>1 DEF RowsKept, TypeItem
    <2> QED
      BY <1>1, <1>4, <2>2, TablesType
  <1>5. CASE i.op \in {"entitlements", "grants"}
    <2>1. PageItem(i.target) \in steady /\ PageItem(i.target).op = "resources"
      BY <1>1, <1>5 DEF Closed, PageItem
    <2>2. PageItem(i.target) \in collected
      BY <1>5, <2>1, Earlier, Ranks
    <2>3. i.target \in Resources
      BY <1>2, <1>5 DEF TargetsOf
    <2>4. i.target \in Elements(resourceList)
      BY <1>1, <2>2, <2>3 DEF RowsKept, PageItem
    <2> QED
      BY <1>1, <1>5, <2>4, TablesType
  <1> QED
    BY <1>4, <1>5 DEF Ops

-----------------------------------------------------------------------------
(* A step that leaves the store and the configurations alone. *)
LEMMA QuietStep ==
  ASSUME IInv, UNCHANGED <<store, connector>>,
         pc' \in {"running", "stopped", "done"},
         pc' = "running" => Good(stack', steady, collected, Tables),
         pc' # "running" => stack' = <<>>,
         Good(saved', steady, collected, Tables),
         old' \in BOOLEAN, failures' \in 0 .. MaxFailures
  PROVE  IInv'
  <1>1. Tables' = Tables
    BY DEF store, Tables
  <1>2. stack' \in Seq(Actions) /\ saved' \in Seq(Actions)
    <2>1. <<>> \in Seq(Actions)
      OBVIOUS
    <2> QED
      BY <2>1 DEF Good
  <1>3. TypeOK'
    BY <1>2 DEF IInv, TypeOK, store, connector
  <1>4. StackKept' /\ SavedKept'
    BY <1>1 DEF StackKept, SavedKept, store, connector
  <1>5. RowsKept' /\ TypesKept' /\ SteadyKept'
    BY DEF IInv, RowsKept, TypesKept, SteadyKept, store, connector
  <1> QED
    BY <1>3, <1>4, <1>5 DEF IInv

(* The rest of the stack is as good, but for what the current action covers. *)
LEMMA GoodPop ==
  ASSUME IInv, pc = "running", stack # <<>>,
         \A i \in steady : Reaches(Top, i, Tables) => i \in collected
  PROVE  Good(Below, steady, collected, Tables)
  <1>1. stack \in Seq(Actions) /\ Good(stack, steady, collected, Tables)
    BY DEF IInv, TypeOK, StackKept
  <1>2. Below \in Seq(Actions)
    BY <1>1, UnderTop
  <1> QED
    BY <1>1, <1>2, Pop DEF Good

LEMMA InitOpStep == IInv /\ InitOp => IInv'
  <1> SUFFICES ASSUME IInv, InitOp PROVE IInv'
    OBVIOUS
  <1>1. /\ pc = "running" /\ stack # <<>> /\ Top.op = "init"
        /\ stack \in Seq(Actions) /\ Good(stack, steady, collected, Tables)
        /\ Good(saved, steady, collected, Tables)
        /\ typeList \in Seq(Types) /\ resourceList \in Seq(Resources) /\ steady \subseteq Items
    BY DEF IInv, InitOp, Current, TypeOK, StackKept, SavedKept
  <1>2. Len(stack) = 1
    BY <1>1, UnderTop DEF Good, Fits, Top
  <1>3. Below = <<>>
    BY <1>1, <1>2, SubSeqProperties DEF Below
  <1>4. /\ Plan \in Seq(Actions) /\ Len(Plan) = 5
        /\ Plan[1] = Action("expansion", None) /\ Plan[2] = Action("grants", None)
        /\ Plan[3] = Action("entitlements", None) /\ Plan[4] = Action("resources", None)
        /\ Plan[5] = Action("types", None) /\ DOMAIN Plan = 1 .. 5
    BY DEF Plan, Action, Actions, Ops
  <1>5. stack' = Plan
    BY <1>3, <1>4, ConcatProperties DEF InitOp
  <1> HIDE DEF Plan
  <1>6. Fits(Plan, Tables)
    <2>1. Sorted(Plan)
      BY <1>4, Ranks DEF Sorted, Action
    <2>2. \A k \in DOMAIN Plan : Plan[k].target = None /\ Plan[k].token = 0 /\ Plan[k].op # "init"
      BY <1>4 DEF Action
    <2>3. \A op \in Ops : Len(Tables[op]) \in Nat
      BY <1>1, TablesType
    <2> QED
      BY <2>1, <2>2, <2>3 DEF Fits, Sound
  <1>7. ASSUME NEW i \in steady PROVE LeadsTo(Plan, i, Tables)
    <2>1. i.op \in Ops \cup {"types"}
      BY <1>1, ItemFacts
    <2>2. \E k \in DOMAIN Plan : Plan[k] = Action(i.op, None)
      BY <1>4, <2>1 DEF Ops
    <2>3. \A op \in Ops : DOMAIN Tables[op] = 1 .. Len(Tables[op]) /\ Len(Tables[op]) \in Nat
      BY <1>1, TablesType
    <2>4. Reaches(Action(i.op, None), i, Tables)
      BY <2>1, <2>3 DEF Reaches, Action
    <2> QED
      BY <2>2, <2>4 DEF LeadsTo
  <1>8. Good(Plan, steady, collected, Tables)
    BY <1>4, <1>6, <1>7 DEF Good
  <1>9. /\ UNCHANGED <<pc, store, connector, old, failures>>
        /\ saved' = saved \/ saved' = stack'
    BY DEF InitOp
  <1>10. old \in BOOLEAN /\ failures \in 0 .. MaxFailures
    BY DEF IInv, TypeOK
  <1> QED
    BY <1>1, <1>5, <1>8, <1>9, <1>10, QuietStep

(* The steps that neither store nor list anything. *)
LEMMA DriverSteps ==
  IInv /\ (SkipExpansion \/ EndSync \/ Checkpoint \/ Refused \/ Fail \/ Age \/ Resume) => IInv'
  <1> SUFFICES ASSUME IInv PROVE
        SkipExpansion \/ EndSync \/ Checkpoint \/ Refused \/ Fail \/ Age \/ Resume => IInv'
    OBVIOUS
  <1>1. /\ steady \subseteq Items /\ pc \in {"running", "stopped", "done"}
        /\ old \in BOOLEAN /\ failures \in 0 .. MaxFailures
        /\ Good(saved, steady, collected, Tables)
        /\ pc = "running" => Good(stack, steady, collected, Tables)
        /\ pc # "running" => stack = <<>>
    BY DEF IInv, TypeOK, StackKept, SavedKept
  <1>2. CASE SkipExpansion
    <2>1. pc = "running" /\ stack # <<>> /\ Top.op = "expansion"
      BY <1>2 DEF SkipExpansion, Current
    <2>2. \A i \in steady : ~Reaches(Top, i, Tables)
      BY <1>1, <2>1, ItemFacts DEF Reaches, Ops
    <2>3. Good(Below, steady, collected, Tables)
      BY <2>1, <2>2, GoodPop
    <2> QED
      BY <1>1, <1>2, <2>1, <2>3, QuietStep DEF SkipExpansion
  <1>3. CASE EndSync
    BY <1>1, <1>3, QuietStep DEF EndSync
  <1>4. CASE Checkpoint
    BY <1>1, <1>4, QuietStep DEF Checkpoint, Marshal
  <1>5. CASE Refused
    BY <1>1, <1>5, QuietStep DEF Refused, Stop
  <1>6. CASE Fail
    <2>1. failures' \in 0 .. MaxFailures
      BY <1>1, <1>6, SessionAssumption DEF Fail, Failure
    <2> QED
      BY <1>1, <1>6, <2>1, QuietStep DEF Fail, Stop
  <1>7. CASE Age
    BY <1>1, <1>7, QuietStep DEF Age
  <1>8. CASE Resume
    BY <1>1, <1>8, QuietStep DEF Resume
  <1> QED
    BY <1>2, <1>3, <1>4, <1>5, <1>6, <1>7, <1>8

LEMMA ReconfigureStep == IInv /\ Reconfigure => IInv'
  <1> SUFFICES ASSUME IInv, Reconfigure PROVE IInv'
    OBVIOUS
  <1>1. /\ config' \in Configs /\ steady' = steady \cap Wanted(config')
        /\ changes' \in 0 .. MaxChanges /\ pc = "stopped"
        /\ UNCHANGED <<pc, stack, saved, store, old, failures>>
    BY SessionAssumption DEF Reconfigure, IInv, TypeOK
  <1>2. TypeOK'
    BY <1>1 DEF IInv, TypeOK, store
  <1>3. Tables' = Tables
    BY <1>1 DEF store, Tables
  <1>4. StackKept' /\ SavedKept'
    BY <1>1, <1>3 DEF IInv, StackKept, SavedKept, Good, store
  <1>5. RowsKept' /\ TypesKept'
    BY <1>1 DEF IInv, RowsKept, TypesKept, store
  <1>6. SteadyKept'
    <2>1. Closed(steady')
      BY <1>1, WantedClosed DEF IInv, SteadyKept, Closed
    <2> QED
      BY <1>1, <2>1 DEF IInv, SteadyKept, store
  <1> QED
    BY <1>2, <1>4, <1>5, <1>6 DEF IInv

LEMMA StartOverStep == IInv /\ StartOver => IInv'
  <1> SUFFICES ASSUME IInv, StartOver PROVE IInv'
    OBVIOUS
  <1>1. config \in Configs /\ changes \in 0 .. MaxChanges /\ failures \in 0 .. MaxFailures
    BY DEF IInv, TypeOK
  <1>2. Wanted(config) \subseteq Items /\ Closed(Wanted(config))
    BY <1>1, WantedClosed
  <1>3. /\ pc' = "running" /\ stack' = Beginning /\ saved' = Beginning
        /\ typeList' = <<>> /\ resourceList' = <<>> /\ skipTypes' = {} /\ collected' = {}
        /\ old' = FALSE /\ steady' = Wanted(config) /\ UNCHANGED <<config, changes, failures>>
    BY DEF StartOver, FirstStep
  <1>4. Beginning \in Seq(Actions)
    BY BeginningGood DEF Good
  <1>5. TypeOK'
    <2>1. <<>> \in Seq(Types) /\ <<>> \in Seq(Resources)
      OBVIOUS
    <2> QED
      BY <1>1, <1>2, <1>3, <1>4, <2>1 DEF TypeOK
  <1>6. StackKept' /\ SavedKept'
    BY <1>3, BeginningGood DEF StackKept, SavedKept
  <1>7. RowsKept' /\ TypesKept'
    BY <1>3 DEF RowsKept, TypesKept, Elements
  <1>8. SteadyKept'
    BY <1>2, <1>3 DEF SteadyKept
  <1> QED
    BY <1>5, <1>6, <1>7, <1>8 DEF IInv

-----------------------------------------------------------------------------
(* Rows are only added and items only collected: a good stack stays good. *)
LEMMA StoreGrows ==
  ASSUME IInv, UNCHANGED connector, collected \subseteq collected',
         typeList' \in Seq(Types), resourceList' \in Seq(Resources),
         Len(typeList') >= Len(typeList), Len(resourceList') >= Len(resourceList),
         \A k \in DOMAIN typeList : k \in DOMAIN typeList' /\ typeList'[k] = typeList[k],
         \A k \in DOMAIN resourceList :
            k \in DOMAIN resourceList' /\ resourceList'[k] = resourceList[k]
  PROVE  \A s : Good(s, steady, collected, Tables) => Good(s, steady', collected', Tables')
  <1>1. /\ typeList \in Seq(Types) /\ resourceList \in Seq(Resources)
        /\ steady \subseteq Items /\ steady' = steady
    BY DEF IInv, TypeOK, connector
  <1>2. Tables = TablesOf(typeList, resourceList) /\ Tables' = TablesOf(typeList', resourceList')
    BY DEF Tables
  <1>3. /\ Tables["resources"] = typeList /\ Tables'["resources"] = typeList'
        /\ Tables["entitlements"] = resourceList /\ Tables'["entitlements"] = resourceList'
        /\ Tables["grants"] = resourceList /\ Tables'["grants"] = resourceList'
        /\ \A op \in Ops :
              /\ Len(Tables[op]) \in Nat /\ DOMAIN Tables[op] = 1 .. Len(Tables[op])
              /\ Len(Tables'[op]) \in Nat /\ DOMAIN Tables'[op] = 1 .. Len(Tables'[op])
    BY <1>1, <1>2, TablesOfType
  <1>4. Grown(Tables, Tables')
    <2>1. Len(typeList) <= Len(typeList') /\ Len(resourceList) <= Len(resourceList')
      BY <1>1
    <2> QED
      BY <1>3, <2>1 DEF Grown, Ops
  <1>5. \A i \in steady : i.op \in Ops \cup {"types"}
    BY <1>1, ItemFacts
  <1> QED
    BY <1>1, <1>3, <1>4, <1>5, GoodStays

LEMMA PutTypesKeeps ==
  ASSUME IInv, NEW S \in SUBSET Served(config), PutTypes(S), UNCHANGED connector
  PROVE  /\ typeList' \in Seq(Types) /\ skipTypes' \subseteq Types
         /\ collected' = collected \cup {TypeItem(t) : t \in S} /\ collected' \subseteq Items
         /\ \A s : Good(s, steady, collected, Tables) => Good(s, steady', collected', Tables')
         /\ RowsKept' /\ TypesKept' /\ SteadyKept'
  <1>1. /\ typeList \in Seq(Types) /\ resourceList \in Seq(Resources) /\ config \in Configs
        /\ skipTypes \subseteq Types /\ collected \subseteq Items /\ steady \subseteq Items
        /\ RowsKept /\ TypesKept /\ SteadyKept
    BY DEF IInv, TypeOK
  <1>2. S \subseteq Types
    BY <1>1, SessionAssumption DEF Served
  <1>3. PICK new \in Orders(S \ Elements(typeList)) : typeList' = typeList \o new
    BY DEF PutTypes
  <1>4. /\ resourceList' = resourceList /\ skipTypes' = (skipTypes \ S) \cup (S \cap config.skip)
        /\ collected' = collected \cup [op: {"types"}, target: S, page: {1}]
    BY DEF PutTypes
  <1>5. /\ typeList' \in Seq(Types) /\ Len(typeList') >= Len(typeList)
        /\ Elements(typeList') = Elements(typeList) \cup S
        /\ \A k \in DOMAIN typeList : k \in DOMAIN typeList' /\ typeList'[k] = typeList[k]
    <2>1. new \in Seq(S \ Elements(typeList)) /\ Elements(new) = S \ Elements(typeList)
      BY <1>2, FS_Subset, OrdersFacts, SessionAssumption
    <2>2. new \in Seq(Types)
      BY <1>2, <2>1
    <2>3. /\ typeList \o new \in Seq(Types) /\ Len(typeList \o new) >= Len(typeList)
          /\ Elements(typeList \o new) = Elements(typeList) \cup S
          /\ \A k \in DOMAIN typeList :
                k \in DOMAIN (typeList \o new) /\ (typeList \o new)[k] = typeList[k]
      BY <1>1, <2>1, <2>2, RowsAdded
    <2> QED
      BY <1>3, <2>3
  <1>6. [op: {"types"}, target: S, page: {1}] = {TypeItem(t) : t \in S}
    <2>1. \A t \in S : TypeItem(t) = [op |-> "types", target |-> t, page |-> 1]
      BY <1>2, SessionAssumption DEF TypeItem
    <2>2. ASSUME NEW i \in [op: {"types"}, target: S, page: {1}] PROVE i = TypeItem(i.target)
      BY <2>1
    <2>3. ASSUME NEW t \in S PROVE TypeItem(t) \in [op: {"types"}, target: S, page: {1}]
      BY <2>1
    <2> QED
      BY <2>2, <2>3
  <1>7. collected' \subseteq Items
    <2>1. \A t \in S : TypeItem(t) \in Items
      BY <1>2, ItemFacts, SessionAssumption DEF TypeItem, TargetsOf
    <2> QED
      BY <1>1, <1>4, <1>6, <2>1
  <1>8. \A s : Good(s, steady, collected, Tables) => Good(s, steady', collected', Tables')
    <2>1. resourceList' \in Seq(Resources) /\ Len(resourceList') >= Len(resourceList)
      BY <1>1, <1>4
    <2>2. collected \subseteq collected'
      BY <1>4
    <2> QED
      BY <1>4, <1>5, <2>1, <2>2, StoreGrows
  <1>9. RowsKept'
    <2>1. \A i \in collected' : i \in collected \/ (i.op = "types" /\ i.target \in S)
      BY <1>4
    <2> QED
      BY <1>1, <1>4, <1>5, <2>1 DEF RowsKept
  <1>10. TypesKept'
    <2>1. \A r \in Elements(resourceList) : TypeOf[r] \in Elements(typeList')
      BY <1>1, <1>5 DEF TypesKept
    <2> QED
      BY <1>4, <2>1 DEF TypesKept
  <1>11. SteadyKept'
    <2>1. steady' = steady /\ config' = config
      BY DEF connector
    <2>2. \A i \in steady : i.op \in {"entitlements", "grants"} => TypeOf[i.target] \notin config.skip
      BY <1>1, WantedClosed DEF SteadyKept
    <2> QED
      BY <1>1, <1>4, <2>1, <2>2 DEF SteadyKept
  <1> QED
    BY <1>1, <1>2, <1>4, <1>5, <1>6, <1>7, <1>8, <1>9, <1>10, <1>11

LEMMA PutResourcesKeeps ==
  ASSUME IInv, NEW S \in SUBSET Resources, PutResources(S), UNCHANGED connector,
         collected \subseteq collected', \A r \in S : TypeOf[r] \in Elements(typeList)
  PROVE  /\ resourceList' \in Seq(Resources)
         /\ Elements(resourceList') = Elements(resourceList) \cup S
         /\ \A s : Good(s, steady, collected, Tables) => Good(s, steady', collected', Tables')
         /\ TypesKept' /\ SteadyKept'
  <1>1. /\ typeList \in Seq(Types) /\ resourceList \in Seq(Resources)
        /\ TypesKept /\ SteadyKept
    BY DEF IInv, TypeOK
  <1>2. PICK new \in Orders(S \ Elements(resourceList)) : resourceList' = resourceList \o new
    BY DEF PutResources
  <1>3. typeList' = typeList /\ skipTypes' = skipTypes /\ steady' = steady /\ config' = config
    BY DEF PutResources, connector
  <1>4. /\ resourceList' \in Seq(Resources) /\ Len(resourceList') >= Len(resourceList)
        /\ Elements(resourceList') = Elements(resourceList) \cup S
        /\ \A k \in DOMAIN resourceList :
              k \in DOMAIN resourceList' /\ resourceList'[k] = resourceList[k]
    <2>1. /\ new \in Seq(S \ Elements(resourceList))
          /\ Elements(new) = S \ Elements(resourceList)
      BY FS_Subset, OrdersFacts, SessionAssumption
    <2>2. new \in Seq(Resources)
      BY <2>1
    <2>3. /\ resourceList \o new \in Seq(Resources)
          /\ Len(resourceList \o new) >= Len(resourceList)
          /\ Elements(resourceList \o new) = Elements(resourceList) \cup S
          /\ \A k \in DOMAIN resourceList :
                /\ k \in DOMAIN (resourceList \o new)
                /\ (resourceList \o new)[k] = resourceList[k]
      BY <1>1, <2>1, <2>2, RowsAdded
    <2> QED
      BY <1>2, <2>3
  <1>5. \A s : Good(s, steady, collected, Tables) => Good(s, steady', collected', Tables')
    <2>1. typeList' \in Seq(Types) /\ Len(typeList') >= Len(typeList)
      BY <1>1, <1>3
    <2> QED
      BY <1>3, <1>4, <2>1, StoreGrows
  <1>6. TypesKept'
    <2>1. \A r \in Elements(resourceList') : TypeOf[r] \in Elements(typeList')
      BY <1>1, <1>3, <1>4 DEF TypesKept
    <2> QED
      BY <2>1 DEF TypesKept
  <1>7. SteadyKept'
    BY <1>1, <1>3 DEF SteadyKept
  <1> QED
    BY <1>4, <1>5, <1>6, <1>7

-----------------------------------------------------------------------------
LEMMA SyncResourceTypesStep == IInv /\ SyncResourceTypes => IInv'
  <1> SUFFICES ASSUME IInv, SyncResourceTypes PROVE IInv'
    OBVIOUS
  <1>1. /\ pc = "running" /\ stack # <<>> /\ Top.op = "types"
        /\ PutTypes(Served(config)) /\ stack' = Below
        /\ pc' = pc /\ saved' = saved /\ old' = old /\ failures' = failures
        /\ UNCHANGED connector
    BY DEF SyncResourceTypes, Current
  <1>2. /\ stack \in Seq(Actions) /\ Good(stack, steady, collected, Tables)
        /\ Good(saved, steady, collected, Tables)
        /\ steady \subseteq Items /\ steady \subseteq Wanted(config) /\ config \in Configs
    BY <1>1 DEF IInv, TypeOK, StackKept, SavedKept, SteadyKept
  <1>3. /\ typeList' \in Seq(Types) /\ skipTypes' \subseteq Types
        /\ collected' = collected \cup {TypeItem(t) : t \in Served(config)}
        /\ collected' \subseteq Items
        /\ \A s : Good(s, steady, collected, Tables) => Good(s, steady', collected', Tables')
        /\ RowsKept' /\ TypesKept' /\ SteadyKept'
    BY <1>1, PutTypesKeeps
  <1>4. Good(stack, steady', collected', Tables') /\ Good(saved, steady', collected', Tables')
    BY <1>2, <1>3
  <1>5. \A i \in steady : Reaches(Top, i, Tables') => i \in collected'
    <2> SUFFICES ASSUME NEW i \in steady, Reaches(Top, i, Tables') PROVE i \in collected'
      OBVIOUS
    <2>1. i.op = "types"
      BY <1>1 DEF Reaches
    <2>2. /\ TypeOf[i.target] \in Served(config) /\ i.page <= 1 /\ i.page \in 1 .. MaxPages
          /\ i.target \in Types /\ i = [op |-> i.op, target |-> i.target, page |-> i.page]
      BY <1>2, <2>1, WantedClosed, ItemFacts DEF Calls, TargetsOf
    <2>3. i.page = 1 /\ TypeOf[i.target] = i.target
      BY <2>2, SessionAssumption
    <2>4. i = TypeItem(i.target) /\ i.target \in Served(config)
      BY <2>1, <2>2, <2>3 DEF TypeItem
    <2> QED
      BY <1>3, <2>4
  <1>6. Good(Below, steady', collected', Tables')
    <2>1. Below \in Seq(Actions) /\ steady' = steady
      BY <1>1, <1>2, UnderTop DEF connector
    <2> QED
      BY <1>1, <1>2, <1>4, <1>5, <2>1, Pop DEF Good
  <1>7. StackKept' /\ SavedKept'
    BY <1>1, <1>4, <1>6 DEF StackKept, SavedKept
  <1>8. TypeOK'
    <2>1. Below \in Seq(Actions) /\ resourceList' = resourceList
      BY <1>1, <1>2, UnderTop DEF PutTypes
    <2> QED
      BY <1>1, <1>3, <2>1 DEF IInv, TypeOK, connector
  <1> QED
    BY <1>3, <1>7, <1>8 DEF IInv

LEMMA FailInPutStep == IInv /\ FailInPut => IInv'
  <1> SUFFICES ASSUME IInv, FailInPut PROVE IInv'
    OBVIOUS
  <1>1. /\ failures' \in 0 .. MaxFailures
        /\ pc' = "stopped" /\ stack' = <<>> /\ saved' = saved /\ old' = old
        /\ UNCHANGED connector
    BY SessionAssumption DEF FailInPut, Failure, Stop, IInv, TypeOK
  <1>2. /\ Good(saved, steady, collected, Tables) /\ config \in Configs
        /\ typeList \in Seq(Types) /\ resourceList \in Seq(Resources)
        /\ skipTypes \subseteq Types /\ collected \subseteq Items
    BY DEF IInv, TypeOK, SavedKept
  <1>3. ASSUME NEW S \in SUBSET Served(config), PutTypes(S) PROVE IInv'
    <2>1. /\ typeList' \in Seq(Types) /\ skipTypes' \subseteq Types /\ collected' \subseteq Items
          /\ Good(saved, steady', collected', Tables')
          /\ RowsKept' /\ TypesKept' /\ SteadyKept'
      BY <1>1, <1>2, <1>3, PutTypesKeeps
    <2>2. StackKept' /\ SavedKept'
      BY <1>1, <2>1 DEF StackKept, SavedKept
    <2>3. TypeOK'
      <3>1. resourceList' = resourceList /\ <<>> \in Seq(Actions)
        BY <1>3 DEF PutTypes
      <3> QED
        BY <1>1, <2>1, <3>1 DEF IInv, TypeOK, connector
    <2> QED
      BY <2>1, <2>2, <2>3 DEF IInv
  <1>4. ASSUME Current("resources"), Top.target # None, NEW S \in SUBSET OnPage(Top),
               PutResources(S), UNCHANGED collected
        PROVE  IInv'
    <2>1. Top.target \in Elements(typeList)
      <3>1. stack \in Seq(Actions) /\ stack # <<>> /\ Fits(stack, Tables) /\ Top.op = "resources"
        BY <1>4 DEF IInv, TypeOK, StackKept, Good, Current
      <3>2. Sound(Top, Tables)
        BY <3>1, Pop
      <3> QED
        BY <1>2, <1>4, <3>1, <3>2, TablesType DEF Sound
    <2>2. S \subseteq Resources /\ \A r \in S : TypeOf[r] \in Elements(typeList)
      BY <2>1 DEF OnPage
    <2>3. collected \subseteq collected'
      BY <1>4
    <2>4. /\ resourceList' \in Seq(Resources)
          /\ Elements(resourceList') = Elements(resourceList) \cup S
          /\ Good(saved, steady', collected', Tables')
          /\ TypesKept' /\ SteadyKept'
      BY <1>1, <1>2, <1>4, <2>2, <2>3, PutResourcesKeeps
    <2>5. typeList' = typeList /\ skipTypes' = skipTypes
      BY <1>4 DEF PutResources
    <2>6. RowsKept'
      BY <1>4, <2>4, <2>5 DEF IInv, RowsKept
    <2>7. StackKept' /\ SavedKept'
      BY <1>1, <2>4 DEF StackKept, SavedKept
    <2>8. TypeOK'
      <3>1. <<>> \in Seq(Actions)
        OBVIOUS
      <3> QED
        BY <1>1, <1>4, <2>4, <2>5, <3>1 DEF IInv, TypeOK, connector
    <2> QED
      BY <2>4, <2>6, <2>7, <2>8 DEF IInv
  <1> QED
    BY <1>3, <1>4 DEF FailInPut

-----------------------------------------------------------------------------
LEMMA MovedFits ==
  ASSUME stack \in Seq(Actions), stack # <<>>, NEW n \in Nat, NEW T, Fits(stack, T),
         Sound([Top EXCEPT !.token = n], T)
  PROVE  Moved(n) \in Seq(Actions) /\ Fits(Moved(n), T)
  <1>1. /\ Moved(n) \in Seq(Actions) /\ Len(Moved(n)) = Len(stack) /\ Sorted(Moved(n))
        /\ \A k \in DOMAIN Moved(n) :
              /\ k \in DOMAIN stack /\ Moved(n)[k].op = stack[k].op
              /\ \/ Moved(n)[k] = stack[k]
                 \/ k = Len(stack) /\ Moved(n)[k] = [Top EXCEPT !.token = n]
    BY Move DEF Fits
  <1>2. ASSUME NEW k \in DOMAIN Moved(n)
        PROVE  Sound(Moved(n)[k], T) /\ (Moved(n)[k].op = "init" => Len(Moved(n)) = 1)
    BY <1>1 DEF Fits
  <1> QED
    BY <1>1, <1>2 DEF Fits

(* The page that a listing reads. *)
LEMMA PageType ==
  ASSUME IInv, Top \in Actions, Top.op \in Ops, Top.target # None
  PROVE  /\ Top.target \in Types \cup Resources /\ Top.token \in Nat
         /\ Page(Top) \in Nat
  <1>1. config \in Configs /\ Top.target \in Types \cup Resources /\ Top.token \in Nat
    BY DEF IInv, TypeOK, Actions
  <1>2. TypeOf[Top.target] \in Types /\ Pages[Top.target] \in 1 .. MaxPages /\ MaxPages \in Nat
    BY <1>1, SessionAssumption
  <1>3. config.queries[TypeOf[Top.target]] \in 0 .. MaxPages
    <2>1. config.queries \in [Types -> 0 .. MaxPages]
      BY <1>1, SessionAssumption
    <2> QED
      BY <1>2, <2>1
  <1>4. Calls(config, Top.op, Top.target) \in Nat
    BY <1>2, <1>3 DEF Calls, Ops
  <1> QED
    BY <1>1, <1>4 DEF Page

(* What a listing leaves to do of its target is what it has not collected. *)
LEMMA ListedRest ==
  ASSUME IInv, pc = "running", stack # <<>>, Top.op \in Ops, Top.target # None,
         NEW C, NEW T, NEW i \in steady, Reaches(Top, i, T),
         i.op = Top.op /\ i.target = Top.target /\ i.page = Page(Top) => i \in C
  PROVE  i \in C \/ (Page(Top) > 1 /\ Reaches([Top EXCEPT !.token = Page(Top) - 1], i, T))
  <1>1. stack \in Seq(Actions) /\ steady \subseteq Items /\ steady \subseteq Wanted(config) /\ config \in Configs
    BY DEF IInv, TypeOK, SteadyKept
  <1>2. Top \in Actions
    BY <1>1, UnderTop
  <1>3. Page(Top) \in Nat /\ Top.token \in Nat
    BY <1>2, PageType
  <1>4. /\ i.op = Top.op /\ i.target = Top.target /\ (Top.token = 0 \/ i.page <= Top.token)
    BY DEF Reaches, Ops
  <1>5. i.page \in Nat /\ i.page >= 1 /\ i.page <= Calls(config, Top.op, Top.target)
    <2>1. i.page \in 1 .. MaxPages /\ MaxPages \in Nat
      BY <1>1, ItemFacts, SessionAssumption
    <2>2. i.page <= Calls(config, i.op, i.target)
      BY <1>1, WantedClosed
    <2> QED
      BY <1>4, <2>1, <2>2
  <1>6. i.page <= Page(Top)
    BY <1>4, <1>5 DEF Page
  <1>7. CASE i.page = Page(Top)
    BY <1>4, <1>7
  <1>8. CASE i.page < Page(Top)
    <2> DEFINE a == [Top EXCEPT !.token = Page(Top) - 1]
    <2>1. a.op = Top.op /\ a.target = Top.target /\ a.token = Page(Top) - 1
      BY <1>2 DEF Actions
    <2>2. i.page <= a.token /\ Page(Top) > 1
      BY <1>3, <1>5, <1>8, <2>1
    <2> QED
      BY <1>4, <2>1, <2>2 DEF Reaches
  <1> QED
    BY <1>3, <1>5, <1>6, <1>7, <1>8

LEMMA ListStep == IInv /\ (\E op \in Ops : List(op)) => IInv'
  <1> SUFFICES ASSUME IInv, NEW op \in Ops, List(op) PROVE IInv'
    OBVIOUS
  <1> DEFINE n == Page(Top)
             new == {i \in Items : i.op = op /\ i.target = Top.target /\ i.page = n}
  <1>1. /\ pc = "running" /\ stack # <<>> /\ Top.op = op /\ Top.target # None
        /\ collected' = collected \cup new
        /\ op = "resources" => PutResources(OnPage(Top))
        /\ op # "resources" => UNCHANGED <<typeList, resourceList, skipTypes>>
        /\ stack' = AfterPage(n)
        /\ pc' = pc /\ saved' = saved /\ old' = old /\ failures' = failures
        /\ UNCHANGED connector
    BY DEF List, Current, Collect
  <1>2. /\ stack \in Seq(Actions) /\ Good(stack, steady, collected, Tables)
        /\ Good(saved, steady, collected, Tables)
        /\ typeList \in Seq(Types) /\ resourceList \in Seq(Resources) /\ skipTypes \subseteq Types
        /\ steady \subseteq Items /\ collected \subseteq Items
        /\ RowsKept /\ TypesKept /\ SteadyKept
    BY <1>1 DEF IInv, TypeOK, StackKept, SavedKept
  <1>3. Top \in Actions /\ Fits(stack, Tables) /\ Sound(Top, Tables)
    BY <1>1, <1>2, UnderTop, Pop DEF Good
  <1>4. n \in Nat
    BY <1>1, <1>3, PageType
  <1> HIDE DEF n, new
  <1>5. collected' \subseteq Items /\ collected \subseteq collected'
    BY <1>1, <1>2 DEF new
  <1>6. /\ resourceList' \in Seq(Resources) /\ typeList' = typeList /\ skipTypes' = skipTypes
        /\ Elements(resourceList) \subseteq Elements(resourceList')
        /\ op = "resources" => OnPage(Top) \subseteq Elements(resourceList')
        /\ \A s : Good(s, steady, collected, Tables) => Good(s, steady', collected', Tables')
        /\ TypesKept' /\ SteadyKept'
    <2>1. CASE op = "resources"
      <3>1. Top.target \in Elements(typeList)
        BY <1>1, <1>2, <1>3, <2>1, TablesType DEF Sound
      <3>2. OnPage(Top) \subseteq Resources /\ \A r \in OnPage(Top) : TypeOf[r] \in Elements(typeList)
        BY <3>1 DEF OnPage
      <3>3. /\ resourceList' \in Seq(Resources)
            /\ Elements(resourceList') = Elements(resourceList) \cup OnPage(Top)
            /\ \A s : Good(s, steady, collected, Tables) => Good(s, steady', collected', Tables')
            /\ TypesKept' /\ SteadyKept'
        BY <1>1, <1>5, <2>1, <3>2, PutResourcesKeeps
      <3> QED
        BY <1>1, <2>1, <3>3 DEF PutResources
    <2>2. CASE op # "resources"
      <3>1. typeList' = typeList /\ resourceList' = resourceList /\ skipTypes' = skipTypes
        BY <1>1, <2>2
      <3>2. /\ typeList' \in Seq(Types) /\ Len(typeList') >= Len(typeList)
            /\ resourceList' \in Seq(Resources) /\ Len(resourceList') >= Len(resourceList)
        BY <1>2, <3>1
      <3>3. \A s : Good(s, steady, collected, Tables) => Good(s, steady', collected', Tables')
        BY <1>1, <1>5, <3>1, <3>2, StoreGrows
      <3>4. TypesKept' /\ SteadyKept'
        BY <1>1, <1>2, <3>1 DEF TypesKept, SteadyKept, connector
      <3> QED
        BY <1>2, <2>2, <3>1, <3>3, <3>4
    <2> QED
      BY <2>1, <2>2
  <1>7. RowsKept'
    <2> SUFFICES ASSUME NEW i \in collected'
                 PROVE  /\ i.op = "types" => i.target \in Elements(typeList)
                        /\ i.op = "resources" =>
                              \A r \in Resources : TypeOf[r] = i.target /\ PageOf[r] = i.page
                                                     => r \in Elements(resourceList')
                        /\ i.op \in {"entitlements", "grants"} => i.target \in Elements(resourceList')
      BY <1>6 DEF RowsKept
    <2>1. CASE i \in collected
      BY <1>2, <1>6, <2>1 DEF RowsKept
    <2>2. CASE i \in new
      <3>1. i.op = op /\ i.target = Top.target /\ i.page = n
        BY <2>2 DEF new
      <3>2. CASE op = "resources"
        BY <1>6, <3>1, <3>2 DEF OnPage, n
      <3>3. CASE op \in {"entitlements", "grants"}
        <4>1. Top.target \in Elements(resourceList)
          BY <1>1, <1>2, <1>3, <3>3, TablesType DEF Sound
        <4> QED
          BY <1>6, <3>1, <3>3, <4>1
      <3> QED
        BY <3>2, <3>3 DEF Ops
    <2> QED
      BY <1>1, <2>1, <2>2
  <1>8. Good(stack, steady', collected', Tables') /\ Good(saved, steady', collected', Tables')
    BY <1>2, <1>6
  <1>9. Good(stack', steady', collected', Tables')
    <2>1. ASSUME NEW i \in steady, Reaches(Top, i, Tables')
          PROVE  i \in collected' \/ (n > 1 /\ Reaches([Top EXCEPT !.token = n - 1], i, Tables'))
      <3>1. i.op = Top.op /\ i.target = Top.target /\ i.page = n => i \in collected'
        BY <1>1, <1>2 DEF new
      <3> QED
        BY <1>1, <2>1, <3>1, ListedRest DEF n
    <2>2. steady' = steady
      BY <1>1 DEF connector
    <2>3. CASE n <= 1
      <3>1. stack' = Below /\ Below \in Seq(Actions)
        BY <1>1, <1>2, <2>3, UnderTop DEF AfterPage
      <3> QED
        BY <1>1, <1>2, <1>8, <2>1, <2>2, <2>3, <3>1, <1>4, Pop DEF Good
    <2>4. CASE n > 1
      <3> DEFINE a == [Top EXCEPT !.token = n - 1]
      <3>1. stack' = Moved(n - 1) /\ n - 1 \in Nat
        BY <1>1, <1>4, <2>4 DEF AfterPage
      <3>2. a.op = Top.op /\ a.target = Top.target
        BY <1>3 DEF Actions
      <3>3. Fits(stack, Tables')
        BY <1>8 DEF Good
      <3>4. Sound(Top, Tables')
        BY <1>1, <1>2, <3>3, Pop
      <3>5. Sound(a, Tables')
        BY <1>1, <3>2, <3>4 DEF Sound
      <3>6. stack' \in Seq(Actions) /\ Fits(stack', Tables')
        BY <1>1, <1>2, <3>1, <3>3, <3>5, MovedFits
      <3>7. ASSUME NEW i \in steady, i \notin collected' PROVE LeadsTo(stack', i, Tables')
        <4>1. LeadsTo(stack, i, Tables')
          BY <1>8, <2>2, <3>7 DEF Good
        <4>2. LeadsTo(Below, i, Tables') \/ Reaches(Top, i, Tables')
          BY <1>1, <1>2, <4>1, Pop
        <4>3. LeadsTo(Below, i, Tables') \/ Reaches(a, i, Tables')
          BY <2>1, <3>7, <4>2
        <4> QED
          BY <1>1, <1>2, <3>1, <4>3, Move
      <3> QED
        BY <2>2, <3>6, <3>7 DEF Good
    <2> QED
      BY <1>4, <2>3, <2>4
  <1>10. StackKept' /\ SavedKept'
    BY <1>1, <1>8, <1>9 DEF StackKept, SavedKept
  <1>11. TypeOK'
    <2>1. stack' \in Seq(Actions)
      BY <1>9 DEF Good
    <2> QED
      BY <1>1, <1>5, <1>6, <2>1 DEF IInv, TypeOK, connector
  <1> QED
    BY <1>6, <1>7, <1>10, <1>11 DEF IInv

-----------------------------------------------------------------------------
(* The actions that a stage pushes: one for each row of its batch. *)
LEMMA Pushes ==
  ASSUME IInv, NEW op \in Ops, NEW n \in Nat, NEW l \in Orders(Batch(op, n)),
         NEW p, p = [i \in DOMAIN l |-> Action(op, Rows(op)[l[i]])]
  PROVE  /\ p \in Seq(Actions) /\ Fits(p, Tables)
         /\ \A k \in DOMAIN p : p[k].op = op
         /\ \A j \in Batch(op, n) : \E k \in DOMAIN p : p[k] = Action(op, Rows(op)[j])
  <1>1. /\ typeList \in Seq(Types) /\ resourceList \in Seq(Resources)
    BY DEF IInv, TypeOK
  <1>2. /\ Tables[op] = Rows(op) /\ Rows(op) \in Seq(TargetsOf(op)) /\ Len(Rows(op)) \in Nat
        /\ DOMAIN Rows(op) = 1 .. Len(Rows(op))
    BY <1>1, TablesType
  <1>3. Batch(op, n) \subseteq 1 .. Len(Rows(op)) /\ IsFiniteSet(Batch(op, n))
    <2>1. IsFiniteSet(1 .. Len(Rows(op)))
      BY <1>2, FS_Interval
    <2>2. Batch(op, n) \subseteq 1 .. Len(Rows(op))
      BY DEF Batch
    <2> QED
      BY <2>1, <2>2, FS_Subset
  <1>4. l \in Seq(Batch(op, n)) /\ Elements(l) = Batch(op, n)
    BY <1>3, OrdersFacts
  <1>5. DOMAIN l = 1 .. Len(l) /\ Len(l) \in Nat /\ \A i \in DOMAIN l : l[i] \in Batch(op, n)
    BY <1>4
  <1>6. TargetsOf(op) \subseteq Types \cup Resources
    BY DEF TargetsOf
  <1>7. ASSUME NEW i \in DOMAIN l
        PROVE  Action(op, Rows(op)[l[i]]) \in Actions /\ Rows(op)[l[i]] \in Elements(Rows(op))
               /\ Rows(op)[l[i]] # None
    <2>1. l[i] \in DOMAIN Rows(op)
      BY <1>2, <1>3, <1>5
    <2>2. Rows(op)[l[i]] \in TargetsOf(op)
      BY <1>2, <2>1
    <2> QED
      BY <1>6, <2>1, <2>2, SessionAssumption DEF Elements, Action, Actions
  <1>8. DOMAIN p = DOMAIN l /\ \A i \in DOMAIN l : p[i] = Action(op, Rows(op)[l[i]])
    OBVIOUS
  <1>9. p \in Seq(Actions)
    <2>1. p \in [1 .. Len(l) -> Actions]
      BY <1>5, <1>7
    <2> QED
      BY <1>5, <2>1
  <1>10. \A k \in DOMAIN p : p[k].op = op
    BY <1>8 DEF Action
  <1>11. Fits(p, Tables)
    <2>1. Sorted(p)
      <3>1. RankOf(op) >= RankOf(op)
        BY RankIsNat
      <3> QED
        BY <1>10, <3>1 DEF Sorted
    <2>2. op # "init"
      BY DEF Ops
    <2>3. \A k \in DOMAIN p : Sound(p[k], Tables)
      BY <1>2, <1>7, <1>8 DEF Sound, Action
    <2> QED
      BY <1>10, <2>1, <2>2, <2>3 DEF Fits
  <1>12. \A j \in Batch(op, n) : \E k \in DOMAIN p : p[k] = Action(op, Rows(op)[j])
    BY <1>4, <1>8 DEF Elements
  <1> QED
    BY <1>9, <1>10, <1>11, <1>12

LEMMA StageStep == IInv /\ (\E op \in Ops : Stage(op)) => IInv'
  <1> SUFFICES ASSUME IInv, NEW op \in Ops, Stage(op) PROVE IInv'
    OBVIOUS
  <1> DEFINE n == Top.token
             base == IF MoreRows(op, n) THEN Moved(StageToken(n)) ELSE Below
  <1>1. PICK l \in Orders(Batch(op, n)) :
           stack' = base \o [i \in DOMAIN l |-> Action(op, Rows(op)[l[i]])]
    BY DEF Stage
  <1> DEFINE p == [i \in DOMAIN l |-> Action(op, Rows(op)[l[i]])]
  <1>2. /\ pc = "running" /\ stack # <<>> /\ Top.op = op /\ Top.target = None
        /\ UNCHANGED <<pc, saved, store, connector, old, failures>>
    BY DEF Stage, Current
  <1>3. /\ stack \in Seq(Actions) /\ Good(stack, steady, collected, Tables)
        /\ Good(saved, steady, collected, Tables) /\ Fits(stack, Tables)
        /\ typeList \in Seq(Types) /\ resourceList \in Seq(Resources) /\ SteadyKept
        /\ steady \subseteq Items /\ old \in BOOLEAN /\ failures \in 0 .. MaxFailures
    BY <1>2 DEF IInv, TypeOK, StackKept, SavedKept, Good
  <1>4. Top \in Actions /\ n \in Nat /\ StageToken(n) \in Nat /\ StageToken(n) > n
    BY <1>2, <1>3, UnderTop, SessionAssumption DEF Actions, StageToken
  <1>5. /\ Tables[op] = Rows(op) /\ Len(Rows(op)) \in Nat
        /\ DOMAIN Rows(op) = 1 .. Len(Rows(op))
    BY <1>3, TablesType
  <1>6. /\ p \in Seq(Actions) /\ Fits(p, Tables)
        /\ \A k \in DOMAIN p : p[k].op = op
        /\ \A j \in Batch(op, n) : \E k \in DOMAIN p : p[k] = Action(op, Rows(op)[j])
    BY <1>4, Pushes
  <1> DEFINE moved == [Top EXCEPT !.token = StageToken(n)]
  <1>7. moved.op = op /\ moved.target = None /\ moved.token = StageToken(n)
    BY <1>2, <1>4 DEF Actions
  <1>8. stack' = base \o p
    BY <1>1
  <1> HIDE DEF n, p, moved
  <1>9. /\ base \in Seq(Actions) /\ Fits(base, Tables)
        /\ \A k \in DOMAIN base : \E j \in DOMAIN stack : base[k].op = stack[j].op
        /\ \A i : LeadsTo(Below, i, Tables) => LeadsTo(base, i, Tables)
        /\ MoreRows(op, n) => \A i : Reaches(moved, i, Tables) => LeadsTo(base, i, Tables)
    <2>1. CASE MoreRows(op, n)
      <3>1. base = Moved(StageToken(n))
        BY <2>1
      <3>2. Sound(moved, Tables)
        BY <1>4, <1>5, <1>7, <2>1, SessionAssumption DEF MoreRows, Sound, StageToken
      <3>3. Moved(StageToken(n)) \in Seq(Actions) /\ Fits(Moved(StageToken(n)), Tables)
        BY <1>2, <1>3, <1>4, <3>2, MovedFits DEF moved
      <3>4. \A k \in DOMAIN Moved(StageToken(n)) :
               k \in DOMAIN stack /\ Moved(StageToken(n))[k].op = stack[k].op
        BY <1>2, <1>3, <1>4, Move
      <3>5. \A i : LeadsTo(Moved(StageToken(n)), i, Tables)
                     <=> LeadsTo(Below, i, Tables) \/ Reaches(moved, i, Tables)
        BY <1>2, <1>3, <1>4, Move DEF moved
      <3> QED
        BY <3>1, <3>3, <3>4, <3>5
    <2>2. CASE ~MoreRows(op, n)
      <3>1. base = Below
        BY <2>2
      <3>2. Below \in Seq(Actions) /\ Fits(Below, Tables)
        BY <1>2, <1>3, UnderTop, Pop
      <3>3. \A k \in DOMAIN Below : k \in DOMAIN stack /\ Below[k].op = stack[k].op
        BY <1>2, <1>3, UnderTop
      <3> QED
        BY <2>2, <3>1, <3>2, <3>3
    <2> QED
      BY <2>1, <2>2
  <1> HIDE DEF base
  <1>10. \A k \in DOMAIN base : RankOf(base[k].op) >= RankOf(op) /\ base[k].op # "init"
    <2>1. \A j \in DOMAIN stack : RankOf(stack[j].op) >= RankOf(op)
      BY <1>2, <1>3, Pop
    <2>2. RankOf(op) > RankOf("init")
      BY Ranks DEF Ops
    <2>3. \A j \in DOMAIN stack : stack[j].op # "init"
      BY <2>1, <2>2, Ranks, RankIsNat
    <2> QED
      BY <1>9, <2>1, <2>3
  <1>11. Fits(base \o p, Tables) /\ base \o p \in Seq(Actions)
    <2>1. Sorted(base \o p)
      <3>1. Sorted(base) /\ Sorted(p)
        BY <1>6, <1>9 DEF Fits
      <3>2. \A j \in DOMAIN base, k \in DOMAIN p : RankOf(base[j].op) >= RankOf(p[k].op)
        BY <1>6, <1>10
      <3> QED
        BY <1>6, <1>9, <3>1, <3>2, OnTop
    <2>2. ASSUME NEW k \in DOMAIN (base \o p)
          PROVE  Sound((base \o p)[k], Tables) /\ (base \o p)[k].op # "init"
      <3>1. \/ \E j \in DOMAIN base : (base \o p)[k] = base[j]
            \/ \E j \in DOMAIN p : (base \o p)[k] = p[j]
        BY <1>6, <1>9, OnTop
      <3>2. op # "init"
        BY DEF Ops
      <3> QED
        BY <1>6, <1>9, <1>10, <3>1, <3>2 DEF Fits
    <2>3. base \o p \in Seq(Actions)
      BY <1>6, <1>9, OnTop
    <2> QED
      BY <2>1, <2>2, <2>3 DEF Fits
  <1>12. ASSUME NEW i \in steady, i \notin collected PROVE LeadsTo(base \o p, i, Tables)
    <2>1. LeadsTo(base, i, Tables) \/ LeadsTo(p, i, Tables) => LeadsTo(base \o p, i, Tables)
      BY <1>6, <1>9, OnTop
    <2>2. LeadsTo(Below, i, Tables) \/ Reaches(Top, i, Tables)
      BY <1>2, <1>3, <1>12, Pop DEF Good
    <2>3. CASE LeadsTo(Below, i, Tables)
      BY <1>9, <2>1, <2>3
    <2>4. CASE Reaches(Top, i, Tables)
      <3>1. i.op = op
        BY <1>2, <2>4 DEF Reaches, Ops
      <3>2. i \in Items /\ i.target \in TargetsOf(op)
        BY <1>3, <3>1, ItemFacts
      <3>3. i.target # None
        BY <3>2, SessionAssumption DEF TargetsOf
      <3>4. \A j \in DOMAIN Rows(op) : j <= n => Rows(op)[j] # i.target
        BY <1>2, <1>5, <2>4, <3>1, <3>3 DEF Reaches, Ops, n
      <3>5. PICK j \in DOMAIN Rows(op) : Rows(op)[j] = i.target
        BY <1>2, <1>5, <3>1, Present DEF Elements
      <3>6. j > n /\ j <= Len(Rows(op)) /\ j \in Nat
        BY <1>4, <1>5, <3>4, <3>5
      <3>7. CASE \E m \in DOMAIN Rows(op) : m <= StageToken(n) /\ Rows(op)[m] = i.target
        <4>1. PICK m \in DOMAIN Rows(op) : m <= StageToken(n) /\ Rows(op)[m] = i.target
          BY <3>7
        <4>2. ~Skipped(op, i.target)
          BY <1>3, <3>1 DEF Skipped, SteadyKept, Ops
        <4>3. m \in Batch(op, n)
          BY <1>4, <1>5, <3>4, <4>1, <4>2 DEF Batch, StageToken
        <4>4. PICK k \in DOMAIN p : p[k] = Action(op, i.target)
          BY <1>6, <4>1, <4>3
        <4>5. Reaches(p[k], i, Tables)
          BY <3>1, <4>4 DEF Reaches, Action
        <4> QED
          BY <2>1, <4>5 DEF LeadsTo
      <3>8. CASE \A m \in DOMAIN Rows(op) : m <= StageToken(n) => Rows(op)[m] # i.target
        <4>1. MoreRows(op, n)
          BY <1>4, <1>5, <3>5, <3>6, <3>8 DEF MoreRows, StageToken
        <4>2. op # "types"
          BY DEF Ops
        <4>3. Reaches(moved, i, Tables)
          BY <1>5, <1>7, <3>1, <3>8, <4>2 DEF Reaches
        <4> QED
          BY <1>9, <2>1, <4>1, <4>3
      <3> QED
        BY <3>7, <3>8
    <2> QED
      BY <2>2, <2>3, <2>4
  <1>13. Good(stack', steady, collected, Tables)
    BY <1>8, <1>11, <1>12 DEF Good
  <1> QED
    BY <1>2, <1>3, <1>13, QuietStep

-----------------------------------------------------------------------------
(* Every step of the sync, of its failures and restarts keeps the invariant. *)
THEOREM StepInvariant == IInv /\ [Next]_vars => IInv'
  <1> SUFFICES ASSUME IInv, [Next]_vars PROVE IInv'
    OBVIOUS
  <1>1. CASE UNCHANGED vars
    <2>1. /\ UNCHANGED <<store, connector>> /\ pc' = pc /\ stack' = stack /\ saved' = saved
          /\ old' = old /\ failures' = failures
      BY <1>1 DEF vars
    <2> QED
      BY <2>1, QuietStep DEF IInv, TypeOK, StackKept, SavedKept
  <1>2. CASE Next
    <2>1. \/ InitOp \/ SyncResourceTypes \/ FailInPut \/ Reconfigure \/ StartOver
          \/ SkipExpansion \/ EndSync \/ Checkpoint \/ Refused \/ Fail \/ Age \/ Resume
          \/ (\E op \in Ops : Stage(op)) \/ (\E op \in Ops : List(op))
      BY <1>2 DEF Next, SyncStep
    <2> QED
      BY <2>1, InitOpStep, SyncResourceTypesStep, FailInPutStep, ReconfigureStep,
         StartOverStep, DriverSteps, StageStep, ListStep
  <1> QED
    BY <1>1, <1>2

(* The stack, the checkpoint and the store fit together, always. *)
THEOREM SessionInvariant == Spec => []IInv
  BY InitInvariant, StepInvariant, PTL DEF Spec

(* Every variable has its type, for any number of failures and of changes of *)
(* the configuration.                                                        *)
THEOREM SessionTypeCorrect == Spec => []TypeOK
  <1>1. IInv => TypeOK
    BY DEF IInv
  <1> QED
    BY <1>1, SessionInvariant, PTL

(* Whatever stops the sync, and whatever the size of the store's pages, its  *)
(* last checkpoint leads to all that is missing.                             *)
THEOREM SessionResumeSafe == Spec => []ResumeSafe
  <1>1. IInv => ResumeSafe
    <2> SUFFICES ASSUME IInv, NEW i \in steady, i \notin collected PROVE Leads(saved, i)
      BY DEF ResumeSafe
    <2>1. i \in Items /\ Good(saved, steady, collected, Tables)
      BY DEF IInv, TypeOK, SavedKept
    <2> QED
      BY <2>1, LeadsIsLeadsTo DEF Good
  <1> QED
    BY <1>1, SessionInvariant, PTL

(* What is stored of a resource, and what is listed of it, has its row and   *)
(* its type's.                                                               *)
THEOREM SessionNoOrphans == Spec => []NoOrphans
  <1>1. IInv => NoOrphans
    <2> SUFFICES ASSUME IInv PROVE NoOrphans
      OBVIOUS
    <2>1. \A i \in collected : i.op \in {"entitlements", "grants"} =>
             i.target \in Elements(resourceList)
      BY DEF IInv, RowsKept
    <2>2. \A r \in Elements(resourceList) : TypeOf[r] \in Elements(typeList)
      BY DEF IInv, TypesKept
    <2>3. ASSUME NEW k \in DOMAIN stack, stack[k].target # None
          PROVE  stack[k].target \in Elements(Rows(stack[k].op))
      <3>1. pc = "running"
        BY DEF IInv, StackKept
      <3>2. Sound(stack[k], Tables) /\ typeList \in Seq(Types) /\ resourceList \in Seq(Resources)
        BY <3>1 DEF IInv, TypeOK, StackKept, Good, Fits
      <3> QED
        BY <2>3, <3>2, TablesType DEF Sound
    <2> QED
      BY <2>1, <2>2, <2>3 DEF NoOrphans
  <1> QED
    BY <1>1, SessionInvariant, PTL

-----------------------------------------------------------------------------
(* A step that collects items of one stage, when those before it are done. *)
LEMMA CollectStep ==
  ASSUME IInv, pc = "running", stack # <<>>, pc' # "done", UNCHANGED connector,
         collected \subseteq collected', collected' \subseteq Items,
         NEW op, RankOf(op) <= RankOf(Top.op),
         \A i \in collected' \ collected : i.op = op
  PROVE  Contract!Collect
  <1>1. steady \subseteq Items /\ steady' = steady /\ stack \in Seq(Actions)
    BY DEF IInv, TypeOK, connector
  <1>2. ASSUME NEW i \in collected' \ collected, NEW j \in steady, Rank(j) < Rank(i)
        PROVE  j \in collected
    <2>1. RankOf(j.op) \in Nat /\ RankOf(i.op) \in Nat /\ RankOf(Top.op) \in Nat
      <3>1. Top \in Actions
        BY <1>1, UnderTop
      <3> QED
        BY <1>1, <3>1, ItemFacts, RankIsNat DEF Actions
    <2>2. i.op = op
      OBVIOUS
    <2> QED
      BY <1>2, <2>1, <2>2, Earlier DEF Rank
  <1>3. \A i, j \in collected' \ collected : Rank(i) = Rank(j)
    BY DEF Rank
  <1> QED
    BY <1>1, <1>2, <1>3 DEF Contract!Collect, Contract!New

(* Every step maps to a step of the contract, or to none. *)
THEOREM ContractStep == IInv /\ [Next]_vars => [Contract!Next]_(Contract!vars)
  <1> SUFFICES ASSUME IInv, [Next]_vars PROVE [Contract!Next]_(Contract!vars)
    OBVIOUS
  <1> USE DEF Contract!vars
  <1>1. CASE UNCHANGED vars
    BY <1>1 DEF vars, store, connector
  <1>2. CASE InitOp \/ SkipExpansion \/ Checkpoint \/ Age \/ Resume \/ Refused \/ Fail
    <2>1. UNCHANGED <<collected, steady>>
      BY <1>2 DEF InitOp, SkipExpansion, Checkpoint, Age, Resume, Refused, Fail, Stop,
                  store, connector
    <2>2. (pc # "done" /\ pc' # "done") \/ pc' = pc
      BY <1>2 DEF InitOp, SkipExpansion, Checkpoint, Age, Resume, Refused, Fail, Stop, Current
    <2> QED
      BY <2>1, <2>2
  <1>3. CASE \E op \in Ops : Stage(op)
    BY <1>3 DEF Stage, store, connector
  <1>4. CASE EndSync
    <2>1. Good(stack, steady, collected, Tables) /\ stack = <<>> /\ pc = "running" /\ pc' = "done"
      BY <1>4 DEF EndSync, IInv, StackKept
    <2>2. steady \subseteq collected
      <3>1. \A i : ~LeadsTo(<<>>, i, Tables)
        BY DEF LeadsTo
      <3> QED
        BY <2>1, <3>1 DEF Good
    <2>3. UNCHANGED <<collected, steady>>
      BY <1>4 DEF EndSync, store, connector
    <2> QED
      BY <2>1, <2>2, <2>3 DEF Contract!Next, Contract!Finish
  <1>5. CASE SyncResourceTypes
    <2>1. /\ pc = "running" /\ pc' = pc /\ stack # <<>> /\ Top.op = "types"
          /\ PutTypes(Served(config)) /\ UNCHANGED connector
      BY <1>5 DEF SyncResourceTypes, Current
    <2>2. /\ collected' = collected \cup {TypeItem(t) : t \in Served(config)}
          /\ collected' \subseteq Items
      BY <2>1, PutTypesKeeps
    <2>3. \A i \in collected' \ collected : i.op = "types"
      BY <2>2 DEF TypeItem
    <2>4. RankOf("types") <= RankOf(Top.op)
      BY <2>1, Ranks
    <2>5. collected \subseteq collected' /\ pc' # "done"
      BY <2>1, <2>2
    <2> QED
      BY <2>1, <2>2, <2>3, <2>4, <2>5, CollectStep DEF Contract!Next
  <1>6. CASE \E op \in Ops : List(op)
    <2> PICK op \in Ops : List(op)
      BY <1>6
    <2>1. /\ pc = "running" /\ pc' = pc /\ stack # <<>> /\ Top.op = op /\ UNCHANGED connector
          /\ Collect(Top)
      BY DEF List, Current
    <2>2. collected \subseteq Items /\ stack \in Seq(Actions)
      BY DEF IInv, TypeOK
    <2>3. /\ collected \subseteq collected' /\ collected' \subseteq Items
          /\ \A i \in collected' \ collected : i.op = op
      BY <2>1, <2>2 DEF Collect
    <2>4. RankOf(op) <= RankOf(Top.op) /\ pc' # "done"
      BY <2>1, RankIsNat
    <2> QED
      BY <2>1, <2>3, <2>4, CollectStep DEF Contract!Next
  <1>7. CASE FailInPut
    <2>1. pc' = "stopped" /\ UNCHANGED connector
      BY <1>7 DEF FailInPut, Stop
    <2>2. ASSUME Current("types"), NEW S \in SUBSET Served(config), PutTypes(S)
          PROVE  Contract!Next
      <3>1. pc = "running" /\ stack # <<>> /\ Top.op = "types"
        BY <2>2 DEF Current
      <3>2. /\ collected' = collected \cup {TypeItem(t) : t \in S} /\ collected' \subseteq Items
        BY <2>1, <2>2, PutTypesKeeps
      <3>3. \A i \in collected' \ collected : i.op = "types"
        BY <3>2 DEF TypeItem
      <3>4. RankOf("types") <= RankOf(Top.op)
        BY <3>1, Ranks
      <3>5. collected \subseteq collected' /\ pc' # "done"
        BY <2>1, <3>2
      <3> QED
        BY <2>1, <3>1, <3>2, <3>3, <3>4, <3>5, CollectStep DEF Contract!Next
    <2>3. ASSUME Current("resources"), UNCHANGED collected PROVE UNCHANGED Contract!vars
      BY <2>1, <2>3 DEF Current, connector
    <2> QED
      BY <1>7, <2>2, <2>3 DEF FailInPut
  <1>8. CASE Reconfigure
    BY <1>8 DEF Reconfigure, store, Contract!Next, Contract!Narrow
  <1>9. CASE StartOver
    <2>1. Wanted(config) \subseteq Items
      BY WantedClosed DEF IInv, TypeOK
    <2> QED
      BY <1>9, <2>1 DEF StartOver, Contract!Next, Contract!StartOver
  <1> QED
    BY <1>1, <1>2, <1>3, <1>4, <1>5, <1>6, <1>7, <1>8, <1>9 DEF Next, SyncStep

(* The stack of actions does what the contract of a sync promises: stage     *)
(* after stage, and the end only when all that was asked for is stored.      *)
THEOREM SessionImplementsContract == Spec => ImplementsContract
  <1>1. Init => Contract!Init
    BY WantedClosed DEF Init, Contract!Init
  <1> QED
    BY <1>1, ContractStep, SessionInvariant, PTL DEF Spec, ImplementsContract, Contract!Spec
=============================================================================
