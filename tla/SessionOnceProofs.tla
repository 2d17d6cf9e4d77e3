------------------------- MODULE SessionOnceProofs -------------------------
(***************************************************************************)
(* A sync that nothing fails asks for no page twice, for every set of      *)
(* types and resources, configuration and size of the store's pages.       *)
(***************************************************************************)
EXTENDS SessionProofs

(* No two actions of a stack lead to the same item. *)
Apart(s, T) ==
    \A j, k \in DOMAIN s : j # k =>
        \A i \in Items : ~(Reaches(s[j], i, T) /\ Reaches(s[k], i, T))

(* A stack leads to nothing that is collected. *)
Fresh(s, C, T) == \A i \in C : ~LeadsTo(s, i, T)

(* The listings of a stack are of types the connector serves, and of pages   *)
(* they have.                                                                *)
Asked(s) ==
    \A k \in DOMAIN s : s[k].target # None =>
        /\ TypeOf[s[k].target] \in Served(config)
        /\ s[k].token <= Calls(config, s[k].op, s[k].target)

Distinct(s) == \A j, k \in DOMAIN s : s[j] = s[k] => j = k

OnceInv ==
    failures = 0 =>
        /\ pc # "stopped"
        /\ Elements(typeList) \subseteq Served(config)
        /\ Distinct(typeList) /\ Distinct(resourceList)
        /\ pc = "running" =>
              Apart(stack, Tables) /\ Fresh(stack, collected, Tables) /\ Asked(stack)

-----------------------------------------------------------------------------
(* The orders of a finite set list each element once. *)
LEMMA OrdersDistinct ==
  ASSUME NEW S, IsFiniteSet(S), NEW l \in Orders(S)
  PROVE  Distinct(l)
  <1> DEFINE n == Cardinality(S)
  <1>1. n \in Nat
    BY FS_CardinalityType
  <1>2. l \in [1 .. n -> S] /\ \A x \in S : \E i \in DOMAIN l : l[i] = x
    BY DEF Orders
  <1>3. l \in Surjection(1 .. n, S)
    BY <1>2 DEF Surjection
  <1>4. IsFiniteSet(1 .. n) /\ Cardinality(1 .. n) = n
    BY <1>1, FS_Interval
  <1>5. l \in Injection(1 .. n, S)
    BY <1>3, <1>4, FS_SurjSameCardinalityImpliesInj
  <1> QED
    BY <1>2, <1>5 DEF Injection, IsInjective, Distinct

(* New rows are added at the end, and no row is there twice. *)
LEMMA RowsPut ==
  ASSUME NEW R, NEW rows \in Seq(R), Distinct(rows), NEW S, IsFiniteSet(S), S \subseteq R,
         NEW new \in Orders(S \ Elements(rows))
  PROVE  /\ rows \o new \in Seq(R) /\ Len(rows \o new) >= Len(rows)
         /\ Elements(rows \o new) = Elements(rows) \cup S
         /\ \A k \in DOMAIN rows : k \in DOMAIN (rows \o new) /\ (rows \o new)[k] = rows[k]
         /\ Distinct(rows \o new)
  <1> DEFINE u == rows \o new
  <1>1. IsFiniteSet(S \ Elements(rows))
    BY FS_Subset
  <1>2. /\ new \in Seq(S \ Elements(rows)) /\ Elements(new) = S \ Elements(rows)
        /\ Distinct(new)
    BY <1>1, OrdersFacts, OrdersDistinct
  <1>3. new \in Seq(R)
    BY <1>2
  <1>4. /\ u \in Seq(R) /\ Len(u) >= Len(rows) /\ Elements(u) = Elements(rows) \cup Elements(new)
        /\ \A k \in DOMAIN rows : k \in DOMAIN u /\ u[k] = rows[k]
    BY <1>3, RowsAdded
  <1>5. /\ Len(rows) \in Nat /\ Len(new) \in Nat /\ Len(u) = Len(rows) + Len(new)
        /\ DOMAIN rows = 1 .. Len(rows) /\ DOMAIN new = 1 .. Len(new) /\ DOMAIN u = 1 .. Len(u)
        /\ \A k \in 1 .. Len(u) : u[k] = IF k <= Len(rows) THEN rows[k] ELSE new[k - Len(rows)]
    BY <1>3, <1>4, ConcatProperties
  <1> HIDE DEF u
  <1>6. \A k \in DOMAIN u :
           \/ k \in DOMAIN rows /\ u[k] = rows[k] /\ u[k] \in Elements(rows)
           \/ k - Len(rows) \in DOMAIN new /\ u[k] = new[k - Len(rows)] /\ u[k] \notin Elements(rows)
    <2>1. \A k \in DOMAIN rows : rows[k] \in Elements(rows)
      BY DEF Elements
    <2>2. \A k \in DOMAIN new : new[k] \notin Elements(rows)
      BY <1>2 DEF Elements
    <2> QED
      BY <1>5, <2>1, <2>2
  <1>7. ASSUME NEW j \in DOMAIN u, NEW k \in DOMAIN u, u[j] = u[k] PROVE j = k
    <2>1. CASE u[j] \in Elements(rows)
      BY <1>6, <1>7, <2>1 DEF Distinct
    <2>2. CASE u[j] \notin Elements(rows)
      <3>1. j - Len(rows) = k - Len(rows)
        BY <1>2, <1>6, <1>7, <2>2 DEF Distinct
      <3> QED
        BY <1>5, <3>1
    <2> QED
      BY <2>1, <2>2
  <1> QED
    BY <1>2, <1>4, <1>7 DEF u, Distinct

(* Rows that are added leave what an action leads to as it is. *)
LEMMA GrowKeeps ==
  ASSUME NEW s \in Seq(Actions), NEW T, NEW U, Fits(s, T), Grown(T, U),
         \A op \in Ops : Len(T[op]) \in Nat /\ Len(U[op]) \in Nat
                        /\ DOMAIN T[op] = 1 .. Len(T[op]) /\ DOMAIN U[op] = 1 .. Len(U[op])
  PROVE  /\ \A i \in Items : LeadsTo(s, i, U) <=> LeadsTo(s, i, T)
         /\ Apart(s, T) => Apart(s, U)
         /\ \A k \in DOMAIN s, i \in Items : Reaches(s[k], i, U) <=> Reaches(s[k], i, T)
  <1>1. ASSUME NEW k \in DOMAIN s, NEW i \in Items
        PROVE  Reaches(s[k], i, U) <=> Reaches(s[k], i, T)
    <2> DEFINE a == s[k]
    <2>1. a.token \in Nat /\ Sound(a, T)
      <3>1. a \in Actions
        BY ElementOfSeq
      <3>2. Sound(a, T)
        BY DEF Fits
      <3> QED
        BY <3>1, <3>2 DEF Actions
    <2>2. CASE a.op = i.op /\ a.op # "types" /\ a.target = None
      <3>1. a.op \in Ops
        BY <2>2, ItemFacts
      <3>2. a.token <= Len(T[a.op])
        BY <2>1, <2>2, <3>1 DEF Sound
      <3>3. /\ DOMAIN T[a.op] = 1 .. Len(T[a.op]) /\ DOMAIN U[a.op] = 1 .. Len(U[a.op])
            /\ Len(T[a.op]) \in Nat /\ Len(U[a.op]) \in Nat
        BY <3>1
      <3>4. \A j : j \in DOMAIN T[a.op] => j \in DOMAIN U[a.op] /\ U[a.op][j] = T[a.op][j]
        BY <3>1 DEF Grown
      <3> HIDE DEF a
      <3>5. \A j : j \in DOMAIN U[a.op] /\ j <= a.token => j \in DOMAIN T[a.op]
        BY <2>1, <3>2, <3>3
      <3>6. (\A j \in DOMAIN T[a.op] : j <= a.token => T[a.op][j] # i.target)
              <=> (\A j \in DOMAIN U[a.op] : j <= a.token => U[a.op][j] # i.target)
        BY <3>4, <3>5
      <3> QED
        BY <3>6 DEF Reaches, a
    <2>3. CASE ~(a.op = i.op /\ a.op # "types" /\ a.target = None)
      BY <2>3 DEF Reaches
    <2> QED
      BY <2>2, <2>3
  <1> QED
    BY <1>1 DEF LeadsTo, Apart

(* The tables before and after rows are added. *)
LEMMA TablesGrow ==
  ASSUME IInv, typeList' \in Seq(Types), resourceList' \in Seq(Resources),
         Len(typeList') >= Len(typeList), Len(resourceList') >= Len(resourceList),
         \A k \in DOMAIN typeList : k \in DOMAIN typeList' /\ typeList'[k] = typeList[k],
         \A k \in DOMAIN resourceList :
            k \in DOMAIN resourceList' /\ resourceList'[k] = resourceList[k]
  PROVE  /\ Grown(Tables, Tables')
         /\ \A op \in Ops :
               /\ Len(Tables[op]) \in Nat /\ Len(Tables'[op]) \in Nat
               /\ DOMAIN Tables[op] = 1 .. Len(Tables[op])
               /\ DOMAIN Tables'[op] = 1 .. Len(Tables'[op])
  <1>1. typeList \in Seq(Types) /\ resourceList \in Seq(Resources)
    BY DEF IInv, TypeOK
  <1>2. Tables = TablesOf(typeList, resourceList) /\ Tables' = TablesOf(typeList', resourceList')
    BY DEF Tables
  <1>3. /\ Tables["resources"] = typeList /\ Tables'["resources"] = typeList'
        /\ Tables["entitlements"] = resourceList /\ Tables'["entitlements"] = resourceList'
        /\ Tables["grants"] = resourceList /\ Tables'["grants"] = resourceList'
        /\ \A op \in Ops :
              /\ Len(Tables[op]) \in Nat /\ DOMAIN Tables[op] = 1 .. Len(Tables[op])
              /\ Len(Tables'[op]) \in Nat /\ DOMAIN Tables'[op] = 1 .. Len(Tables'[op])
    BY <1>1, <1>2, TablesOfType
  <1>4. Len(typeList) <= Len(typeList') /\ Len(resourceList) <= Len(resourceList')
    BY <1>1
  <1> QED
    BY <1>3, <1>4 DEF Grown, Ops

(* The calls that list a target are a number. *)
LEMMA CallsType ==
  ASSUME config \in Configs, NEW op, NEW x \in Types \cup Resources
  PROVE  Calls(config, op, x) \in Nat
  <1>1. TypeOf[x] \in Types /\ Pages[x] \in 1 .. MaxPages /\ MaxPages \in Nat
    BY SessionAssumption
  <1>2. config.queries \in [Types -> 0 .. MaxPages]
    BY SessionAssumption
  <1>3. config.queries[TypeOf[x]] \in Nat
    BY <1>1, <1>2
  <1> QED
    BY <1>1, <1>3 DEF Calls

(* What belongs to the current action belongs to no action below it. *)
LEMMA ApartPop ==
  ASSUME stack \in Seq(Actions), stack # <<>>, NEW T, Apart(stack, T)
  PROVE  /\ Apart(Below, T)
         /\ \A i \in Items : ~(LeadsTo(Below, i, T) /\ Reaches(Top, i, T))
  <1>1. /\ Top = stack[Len(stack)] /\ Len(stack) \in DOMAIN stack
        /\ \A k \in DOMAIN Below : k \in DOMAIN stack /\ Below[k] = stack[k] /\ k # Len(stack)
    BY UnderTop DEF Top
  <1> QED
    BY <1>1 DEF Apart, LeadsTo

(* Moving on leaves an action less to do. *)
LEMMA ApartMove ==
  ASSUME stack \in Seq(Actions), stack # <<>>, NEW n \in Nat, NEW T, Apart(stack, T),
         \A i \in Items : Reaches([Top EXCEPT !.token = n], i, T) => Reaches(Top, i, T)
  PROVE  Apart(Moved(n), T)
  <1>1. /\ Top = stack[Len(stack)] /\ Len(stack) \in DOMAIN stack
        /\ \A k \in DOMAIN Moved(n) :
              /\ k \in DOMAIN stack
              /\ \/ Moved(n)[k] = stack[k]
                 \/ k = Len(stack) /\ Moved(n)[k] = [Top EXCEPT !.token = n]
    BY UnderTop, Move DEF Top
  <1>2. \A k \in DOMAIN Moved(n), i \in Items : Reaches(Moved(n)[k], i, T) => Reaches(stack[k], i, T)
    BY <1>1
  <1> QED
    BY <1>1, <1>2 DEF Apart

(* Two stacks that have nothing in common can be put on top of each other. *)
LEMMA ApartOnTop ==
  ASSUME NEW s \in Seq(Actions), NEW t \in Seq(Actions), NEW T, Apart(s, T), Apart(t, T),
         \A i \in Items : ~(LeadsTo(s, i, T) /\ LeadsTo(t, i, T))
  PROVE  Apart(s \o t, T)
  <1> DEFINE u == s \o t
  <1>1. /\ u \in Seq(Actions) /\ Len(u) = Len(s) + Len(t)
        /\ \A i \in 1 .. Len(s) + Len(t) : u[i] = IF i <= Len(s) THEN s[i] ELSE t[i - Len(s)]
    BY ConcatProperties
  <1>2. /\ Len(s) \in Nat /\ Len(t) \in Nat
        /\ DOMAIN s = 1 .. Len(s) /\ DOMAIN t = 1 .. Len(t) /\ DOMAIN u = 1 .. Len(u)
    BY <1>1
  <1> HIDE DEF u
  <1>3. \A k \in DOMAIN u :
           \/ k \in DOMAIN s /\ u[k] = s[k]
           \/ k - Len(s) \in DOMAIN t /\ u[k] = t[k - Len(s)]
    BY <1>1, <1>2
  <1>4. \A j, k \in DOMAIN u : j # k => j - Len(s) # k - Len(s)
    BY <1>2
  <1>5. \A k \in DOMAIN s : \A i : Reaches(s[k], i, T) => LeadsTo(s, i, T)
    BY DEF LeadsTo
  <1>6. \A k \in DOMAIN t : \A i : Reaches(t[k], i, T) => LeadsTo(t, i, T)
    BY DEF LeadsTo
  <1>7. Apart(u, T)
    <2> SUFFICES ASSUME NEW j \in DOMAIN u, NEW k \in DOMAIN u, j # k,
                        NEW i \in Items, Reaches(u[j], i, T), Reaches(u[k], i, T)
                 PROVE  FALSE
      BY DEF Apart
    <2> QED
      BY <1>3, <1>4, <1>5, <1>6 DEF Apart
  <1> QED
    BY <1>7 DEF u

-----------------------------------------------------------------------------
(* The connector refuses nothing that was asked. *)
LEMMA NeverRefused ==
  ASSUME IInv, pc = "running", Asked(stack)
  PROVE  ~Refused
  <1> SUFFICES ASSUME stack # <<>>, Top.op \in Ops, Top.target # None PROVE Answers(Top)
    BY DEF Refused, Current
  <1>1. stack \in Seq(Actions) /\ config \in Configs
    BY DEF IInv, TypeOK
  <1>2. Top \in Actions /\ Top = stack[Len(stack)] /\ Len(stack) \in DOMAIN stack
    BY <1>1, UnderTop DEF Top
  <1>3. TypeOf[Top.target] \in Served(config) /\ Top.token <= Calls(config, Top.op, Top.target)
    BY <1>2 DEF Asked
  <1>4. Top.target \in Types \cup Resources /\ Top.token \in Nat
    BY <1>2 DEF Actions
  <1>5. Calls(config, Top.op, Top.target) \in Nat
    BY <1>1, <1>4, CallsType
  <1> QED
    BY <1>3, <1>4, <1>5 DEF Answers, Page

LEMMA AskedPop ==
  ASSUME stack \in Seq(Actions), stack # <<>>, Asked(stack)
  PROVE  Asked(Below)
  BY UnderTop DEF Asked

(* A step that pops the current action and stores only what it led to.       *)
LEMMA PopOnce ==
  ASSUME IInv, pc = "running", stack # <<>>, Apart(stack, Tables),
         Fresh(stack, collected, Tables),
         NEW C \in SUBSET Items, \A i \in C : i \in collected \/ Reaches(Top, i, Tables)
  PROVE  Apart(Below, Tables) /\ Fresh(Below, C, Tables)
  <1>1. stack \in Seq(Actions)
    BY DEF IInv, TypeOK
  <1>2. ASSUME NEW i \in C PROVE ~LeadsTo(Below, i, Tables)
    <2>1. CASE i \in collected
      BY <1>1, <2>1, Pop DEF Fresh
    <2>2. CASE Reaches(Top, i, Tables)
      BY <1>1, <2>2, ApartPop
    <2> QED
      BY <2>1, <2>2
  <1> QED
    BY <1>1, <1>2, ApartPop DEF Fresh

(* The plan of a sync has one action for each stage. *)
LEMMA InitOpOnce == IInv /\ OnceInv /\ InitOp => OnceInv'
  <1> SUFFICES ASSUME IInv, OnceInv, InitOp, failures' = 0 PROVE OnceInv'
    BY DEF OnceInv
  <1>1. /\ pc = "running" /\ stack # <<>> /\ Top.op = "init" /\ stack \in Seq(Actions)
        /\ Good(stack, steady, collected, Tables) /\ collected \subseteq Items
        /\ UNCHANGED <<pc, store, connector, old, failures>>
    BY DEF IInv, InitOp, Current, TypeOK, StackKept
  <1>2. Len(stack) = 1
    BY <1>1, UnderTop DEF Good, Fits, Top
  <1>3. Below = <<>>
    BY <1>1, <1>2, SubSeqProperties DEF Below
  <1>4. /\ Plan \in Seq(Actions) /\ DOMAIN Plan = 1 .. 5
        /\ Plan[1] = Action("expansion", None) /\ Plan[2] = Action("grants", None)
        /\ Plan[3] = Action("entitlements", None) /\ Plan[4] = Action("resources", None)
        /\ Plan[5] = Action("types", None)
    BY DEF Plan, Action, Actions, Ops
  <1>5. stack' = Plan
    BY <1>3, <1>4, ConcatProperties DEF InitOp
  <1>6. collected = {}
    <2>1. \A i : LeadsTo(stack, i, Tables)
      BY <1>1, Pop DEF Reaches
    <2> QED
      BY <1>1, <2>1 DEF OnceInv, Fresh
  <1> HIDE DEF Plan
  <1>7. Apart(Plan, Tables)
    <2>1. \A j, k \in DOMAIN Plan : j # k => Plan[j].op # Plan[k].op /\ Plan[j].op # "init"
      BY <1>4 DEF Action
    <2> QED
      BY <2>1 DEF Apart, Reaches
  <1>8. Tables' = Tables
    BY <1>1 DEF Tables, store
  <1> QED
    BY <1>1, <1>4, <1>5, <1>6, <1>7, <1>8 DEF OnceInv, Fresh, store, connector, Asked, Action

(* The types are stored in one step, and the action for them is gone. *)
LEMMA SyncResourceTypesOnce == IInv /\ OnceInv /\ SyncResourceTypes => OnceInv'
  <1> SUFFICES ASSUME IInv, OnceInv, SyncResourceTypes, failures' = 0 PROVE OnceInv'
    BY DEF OnceInv
  <1> DEFINE S == Served(config)
  <1>1. /\ pc = "running" /\ stack # <<>> /\ Top.op = "types"
        /\ PutTypes(S) /\ stack' = Below
        /\ UNCHANGED <<pc, connector, failures>>
    BY DEF SyncResourceTypes, Current
  <1>2. /\ stack \in Seq(Actions) /\ Fits(stack, Tables) /\ config \in Configs
        /\ typeList \in Seq(Types) /\ resourceList \in Seq(Resources)
        /\ Apart(stack, Tables) /\ Fresh(stack, collected, Tables) /\ Asked(stack)
        /\ Elements(typeList) \subseteq S /\ Distinct(typeList) /\ Distinct(resourceList)
    BY <1>1 DEF IInv, OnceInv, TypeOK, StackKept, Good
  <1>3. S \subseteq Types /\ IsFiniteSet(S)
    BY <1>2, SessionAssumption, FS_Subset DEF Served
  <1>4. PICK new \in Orders(S \ Elements(typeList)) : typeList' = typeList \o new
    BY <1>1 DEF PutTypes
  <1>5. resourceList' = resourceList
    BY <1>1 DEF PutTypes
  <1>6. /\ typeList' \in Seq(Types) /\ Len(typeList') >= Len(typeList)
        /\ Elements(typeList') = Elements(typeList) \cup S
        /\ \A k \in DOMAIN typeList : k \in DOMAIN typeList' /\ typeList'[k] = typeList[k]
        /\ Distinct(typeList')
    <2> HIDE DEF S
    <2>1. new \in Orders(S \ Elements(typeList))
      BY <1>4
    <2>2. /\ typeList \o new \in Seq(Types) /\ Len(typeList \o new) >= Len(typeList)
          /\ Elements(typeList \o new) = Elements(typeList) \cup S
          /\ \A k \in DOMAIN typeList :
                k \in DOMAIN (typeList \o new) /\ (typeList \o new)[k] = typeList[k]
          /\ Distinct(typeList \o new)
      BY <1>2, <1>3, <2>1, RowsPut
    <2> QED
      BY <1>4, <2>2
  <1>7. /\ collected' = collected \cup {TypeItem(t) : t \in S} /\ collected' \subseteq Items
    BY <1>1, PutTypesKeeps
  <1>8. \A i \in collected' : i \in collected \/ Reaches(Top, i, Tables)
    BY <1>1, <1>7 DEF Reaches, TypeItem
  <1>9. Apart(Below, Tables) /\ Fresh(Below, collected', Tables)
    BY <1>1, <1>2, <1>7, <1>8, PopOnce
  <1>10. Below \in Seq(Actions) /\ Fits(Below, Tables) /\ Asked(Below)
    BY <1>1, <1>2, UnderTop, Pop, AskedPop
  <1>11. /\ Grown(Tables, Tables')
         /\ \A op \in Ops :
               /\ Len(Tables[op]) \in Nat /\ Len(Tables'[op]) \in Nat
               /\ DOMAIN Tables[op] = 1 .. Len(Tables[op])
               /\ DOMAIN Tables'[op] = 1 .. Len(Tables'[op])
    <2>1. resourceList' \in Seq(Resources) /\ Len(resourceList') >= Len(resourceList)
      BY <1>2, <1>5
    <2> QED
      BY <1>5, <1>6, <2>1, TablesGrow
  <1>12. Apart(Below, Tables') /\ Fresh(Below, collected', Tables')
    BY <1>7, <1>9, <1>10, <1>11, GrowKeeps DEF Fresh
  <1>13. Apart(stack, Tables)' /\ Fresh(stack, collected, Tables)' /\ Asked(stack)'
    BY <1>1, <1>10, <1>12 DEF Apart, Fresh, Asked, connector
  <1>14. Elements(typeList)' \subseteq Served(config)' /\ Distinct(typeList)' /\ Distinct(resourceList)'
    BY <1>1, <1>2, <1>5, <1>6 DEF Elements, Distinct, connector
  <1> QED
    BY <1>1, <1>13, <1>14 DEF OnceInv

(* A listing stores the page it asked for, and leads to the earlier ones.    *)
LEMMA ListOnce == IInv /\ OnceInv /\ (\E op \in Ops : List(op)) => OnceInv'
  <1> SUFFICES ASSUME IInv, OnceInv, NEW op \in Ops, List(op), failures' = 0 PROVE OnceInv'
    BY DEF OnceInv
  <1> DEFINE n == Page(Top)
             new == {i \in Items : i.op = op /\ i.target = Top.target /\ i.page = n}
             calls == Calls(config, Top.op, Top.target)
             moved == [Top EXCEPT !.token = n - 1]
  <1>1. /\ pc = "running" /\ stack # <<>> /\ Top.op = op /\ Top.target # None
        /\ collected' = collected \cup new
        /\ op = "resources" => PutResources(OnPage(Top))
        /\ op # "resources" => UNCHANGED <<typeList, resourceList, skipTypes>>
        /\ stack' = AfterPage(n)
        /\ n <= calls
        /\ UNCHANGED <<pc, connector, failures>>
    BY DEF List, Current, Collect, Answers
  <1>2. /\ stack \in Seq(Actions) /\ Fits(stack, Tables) /\ config \in Configs
        /\ typeList \in Seq(Types) /\ resourceList \in Seq(Resources) /\ collected \subseteq Items
        /\ Apart(stack, Tables) /\ Fresh(stack, collected, Tables) /\ Asked(stack)
        /\ Elements(typeList) \subseteq Served(config)
        /\ Distinct(typeList) /\ Distinct(resourceList)
    BY <1>1 DEF IInv, OnceInv, TypeOK, StackKept, Good
  <1>3. /\ Top \in Actions /\ Top = stack[Len(stack)] /\ Len(stack) \in DOMAIN stack
    BY <1>1, <1>2, UnderTop DEF Top
  <1>4. Top.token \in Nat /\ n \in Nat
    BY <1>1, <1>3, PageType
  <1>5. n = Top.token \/ (Top.token = 0 /\ n = calls) \/ n = 0
    BY <1>1 DEF Page
  <1> HIDE DEF n, calls
  <1>6. /\ typeList' = typeList /\ resourceList' \in Seq(Resources)
        /\ Len(resourceList') >= Len(resourceList) /\ Distinct(resourceList')
        /\ \A k \in DOMAIN resourceList :
              k \in DOMAIN resourceList' /\ resourceList'[k] = resourceList[k]
    <2>1. CASE op = "resources"
      <3>1. PICK rows \in Orders(OnPage(Top) \ Elements(resourceList)) :
               resourceList' = resourceList \o rows
        BY <1>1, <2>1 DEF PutResources
      <3>2. OnPage(Top) \subseteq Resources
        BY DEF OnPage
      <3>3. IsFiniteSet(OnPage(Top))
        BY <3>2, FS_Subset, SessionAssumption
      <3>4. typeList' = typeList
        BY <1>1, <2>1 DEF PutResources
      <3> QED
        BY <1>2, <3>1, <3>2, <3>3, <3>4, RowsPut
    <2>2. CASE op # "resources"
      BY <1>1, <1>2, <2>2
    <2> QED
      BY <2>1, <2>2
  <1>7. /\ Grown(Tables, Tables')
        /\ \A o \in Ops :
              /\ Len(Tables[o]) \in Nat /\ Len(Tables'[o]) \in Nat
              /\ DOMAIN Tables[o] = 1 .. Len(Tables[o])
              /\ DOMAIN Tables'[o] = 1 .. Len(Tables'[o])
    <2>1. typeList' \in Seq(Types) /\ Len(typeList') >= Len(typeList)
      BY <1>2, <1>6
    <2> QED
      BY <1>6, <2>1, TablesGrow
  <1>8. ASSUME NEW i \in new PROVE Reaches(Top, i, Tables) /\ i.page = n /\ n > 0
    <2>1. i.op = Top.op /\ i.target = Top.target /\ i.page = n
      BY <1>1
    <2>2. n > 0
      <3>1. i.page \in 1 .. MaxPages
        BY ItemFacts
      <3> QED
        BY <1>4, <2>1, <3>1
    <2> QED
      BY <1>4, <1>5, <2>1, <2>2 DEF Reaches
  <1>9. Apart(stack', Tables) /\ Fresh(stack', collected', Tables) /\ Asked(stack')
    <2>1. CASE n <= 1
      <3>1. stack' = Below
        BY <1>1, <2>1 DEF AfterPage
      <3>2. collected' \in SUBSET Items
        BY <1>1, <1>2
      <3>3. \A i \in collected' : i \in collected \/ Reaches(Top, i, Tables)
        BY <1>1, <1>8
      <3> HIDE DEF new
      <3>4. Apart(Below, Tables) /\ Fresh(Below, collected', Tables)
        BY <1>1, <1>2, <3>2, <3>3, PopOnce
      <3> QED
        BY <1>1, <1>2, <3>1, <3>4, AskedPop
    <2>2. CASE n > 1
      <3>1. stack' = Moved(n - 1) /\ n - 1 \in Nat
        BY <1>1, <1>4, <2>2 DEF AfterPage
      <3>2. moved.op = Top.op /\ moved.target = Top.target /\ moved.token = n - 1
        BY <1>3 DEF Actions
      <3>3. ASSUME NEW i \in Items, Reaches(moved, i, Tables)
            PROVE  Reaches(Top, i, Tables) /\ i.page < n
        <4>1. i.op = Top.op /\ i.target = Top.target /\ i.page <= n - 1
          BY <1>1, <1>4, <2>2, <3>2, <3>3 DEF Reaches, Ops
        <4>2. i.page \in Nat
          BY ItemFacts, SessionAssumption
        <4> QED
          BY <1>4, <1>5, <2>2, <4>1, <4>2 DEF Reaches
      <3>4. Apart(Moved(n - 1), Tables)
        BY <1>1, <1>2, <3>1, <3>3, ApartMove
      <3>5. ASSUME NEW i \in collected', LeadsTo(Moved(n - 1), i, Tables) PROVE FALSE
        <4>1. LeadsTo(Below, i, Tables) \/ Reaches(moved, i, Tables)
          BY <1>1, <1>2, <3>1, <3>5, Move
        <4>2. CASE i \in collected
          <5>1. LeadsTo(stack, i, Tables)
            BY <1>1, <1>2, <3>3, <4>1, <4>2, Pop
          <5> QED
            BY <1>2, <4>2, <5>1 DEF Fresh
        <4>3. CASE i \in new
          <5>1. LeadsTo(Below, i, Tables)
            BY <1>4, <1>8, <3>3, <4>1, <4>3
          <5> QED
            BY <1>1, <1>2, <1>8, <4>3, <5>1, ApartPop
        <4> QED
          BY <1>1, <4>2, <4>3
      <3>6. Asked(Moved(n - 1))
        <4>1. \A k \in DOMAIN Moved(n - 1) :
                 /\ k \in DOMAIN stack
                 /\ \/ Moved(n - 1)[k] = stack[k]
                    \/ k = Len(stack) /\ Moved(n - 1)[k] = moved
          BY <1>1, <1>2, <3>1, Move
        <4>2. TypeOf[Top.target] \in Served(config)
          BY <1>1, <1>2, <1>3 DEF Asked
        <4>3. n - 1 <= calls
          <5>1. calls \in Nat
            <6>1. Top.target \in Types \cup Resources
              BY <1>1, <1>3 DEF Actions
            <6> QED
              BY <1>2, <6>1, CallsType DEF calls
          <5> QED
            BY <1>1, <1>4, <5>1
        <4> QED
          BY <1>2, <3>2, <4>1, <4>2, <4>3 DEF Asked, calls
      <3> QED
        BY <3>1, <3>4, <3>5, <3>6 DEF Fresh
    <2> QED
      BY <1>4, <2>1, <2>2
  <1>10. Apart(stack', Tables') /\ Fresh(stack', collected', Tables')
    <2>1. Fits(stack', Tables) /\ stack' \in Seq(Actions)
      <3>1. CASE n <= 1
        BY <1>1, <1>2, <3>1, UnderTop, Pop DEF AfterPage
      <3>2. CASE n > 1
        <4>1. moved.op = Top.op /\ moved.target = Top.target
          BY <1>3 DEF Actions
        <4>2. Sound(moved, Tables)
          BY <1>1, <1>2, <4>1, Pop DEF Sound
        <4> QED
          BY <1>1, <1>2, <1>4, <3>2, <4>2, MovedFits DEF AfterPage
      <3> QED
        BY <1>4, <3>1, <3>2
    <2>2. collected' \subseteq Items
      BY <1>1, <1>2
    <2> QED
      BY <1>7, <1>9, <2>1, <2>2, GrowKeeps DEF Fresh
  <1>11. Apart(stack, Tables)' /\ Fresh(stack, collected, Tables)' /\ Asked(stack)'
    BY <1>1, <1>9, <1>10 DEF Apart, Fresh, Asked, connector
  <1>12. Elements(typeList)' \subseteq Served(config)' /\ Distinct(typeList)' /\ Distinct(resourceList)'
    BY <1>1, <1>2, <1>6 DEF Elements, Distinct, connector
  <1> QED
    BY <1>1, <1>11, <1>12 DEF OnceInv

(* A stage pushes its rows one by one and moves past them all. *)
LEMMA StageOnce == IInv /\ OnceInv /\ (\E op \in Ops : Stage(op)) => OnceInv'
  <1> SUFFICES ASSUME IInv, OnceInv, NEW op \in Ops, Stage(op), failures' = 0 PROVE OnceInv'
    BY DEF OnceInv
  <1> DEFINE n == Top.token
             base == IF MoreRows(op, n) THEN Moved(StageToken(n)) ELSE Below
             moved == [Top EXCEPT !.token = StageToken(n)]
             rows == Rows(op)
  <1>1. PICK l \in Orders(Batch(op, n)) :
           stack' = base \o [i \in DOMAIN l |-> Action(op, Rows(op)[l[i]])]
    BY DEF Stage
  <1> DEFINE p == [i \in DOMAIN l |-> Action(op, Rows(op)[l[i]])]
  <1>2. /\ pc = "running" /\ stack # <<>> /\ Top.op = op /\ Top.target = None
        /\ UNCHANGED <<pc, saved, store, connector, old, failures>>
    BY DEF Stage, Current
  <1>3. /\ stack \in Seq(Actions) /\ Fits(stack, Tables) /\ config \in Configs
        /\ typeList \in Seq(Types) /\ resourceList \in Seq(Resources) /\ collected \subseteq Items
        /\ Apart(stack, Tables) /\ Fresh(stack, collected, Tables) /\ Asked(stack)
        /\ Elements(typeList) \subseteq Served(config)
        /\ Distinct(typeList) /\ Distinct(resourceList) /\ TypesKept
    BY <1>2 DEF IInv, OnceInv, TypeOK, StackKept, Good
  <1>4. /\ Top \in Actions /\ n \in Nat /\ StageToken(n) \in Nat /\ n <= StageToken(n)
    BY <1>2, <1>3, UnderTop, SessionAssumption DEF Actions, StageToken
  <1>5. /\ Tables[op] = rows /\ rows \in Seq(TargetsOf(op)) /\ Len(rows) \in Nat
        /\ DOMAIN rows = 1 .. Len(rows) /\ Distinct(rows)
    BY <1>3, TablesType DEF Rows
  <1>6. p \in Seq(Actions)
    BY <1>4, Pushes
  <1>7. moved.op = op /\ moved.target = None /\ moved.token = StageToken(n)
    BY <1>2, <1>4 DEF Actions
  <1>8. /\ DOMAIN p = DOMAIN l /\ Distinct(l)
        /\ \A k \in DOMAIN p :
              /\ l[k] \in DOMAIN rows /\ n < l[k] /\ l[k] <= StageToken(n)
              /\ p[k].op = op /\ p[k].target = rows[l[k]] /\ p[k].token = 0
              /\ rows[l[k]] \in TargetsOf(op)
    <2>1. Batch(op, n) \subseteq 1 .. Len(rows)
      BY DEF Batch
    <2>2. IsFiniteSet(Batch(op, n))
      <3>1. IsFiniteSet(1 .. Len(rows))
        BY <1>5, FS_Interval
      <3> QED
        BY <2>1, <3>1, FS_Subset
    <2>3. l \in Seq(Batch(op, n)) /\ Distinct(l)
      BY <2>2, OrdersFacts, OrdersDistinct
    <2>4. \A k \in DOMAIN l : l[k] \in Batch(op, n)
      BY <2>3
    <2>5. \A k \in DOMAIN l : l[k] \in DOMAIN rows /\ n < l[k] /\ l[k] <= StageToken(n)
      BY <1>5, <2>4 DEF Batch, StageToken
    <2>6. \A k \in DOMAIN l : rows[l[k]] \in TargetsOf(op)
      BY <1>5, <2>5
    <2> QED
      BY <2>3, <2>5, <2>6 DEF Action
  <1>9. op # "types" /\ op # "init" /\ \A x \in TargetsOf(op) : x # None /\ x \in Types \cup Resources
    BY SessionAssumption DEF Ops, TargetsOf
  <1> HIDE DEF n, p, moved, rows
  <1>10. ASSUME NEW i \in Items
         PROVE  /\ Reaches(Top, i, Tables)
                      <=> i.op = op /\ \A j \in DOMAIN rows : j <= n => rows[j] # i.target
                /\ Reaches(moved, i, Tables)
                      <=> i.op = op /\ \A j \in DOMAIN rows : j <= StageToken(n) => rows[j] # i.target
                /\ \A k \in DOMAIN p : Reaches(p[k], i, Tables) => i.op = op /\ i.target = rows[l[k]]
    <2>1. i.target # None
      BY ItemFacts, SessionAssumption DEF TargetsOf
    <2>2. Reaches(Top, i, Tables)
             <=> i.op = op /\ \A j \in DOMAIN rows : j <= n => rows[j] # i.target
      BY <1>2, <1>5, <1>9, <2>1 DEF Reaches, n
    <2>3. Reaches(moved, i, Tables)
             <=> i.op = op /\ \A j \in DOMAIN rows : j <= StageToken(n) => rows[j] # i.target
      BY <1>5, <1>7, <1>9, <2>1 DEF Reaches
    <2>4. ASSUME NEW k \in DOMAIN p, Reaches(p[k], i, Tables) PROVE i.op = op /\ i.target = rows[l[k]]
      BY <1>8, <1>9, <2>4 DEF Reaches
    <2> QED
      BY <2>2, <2>3, <2>4
  <1>11. \A i \in Items : Reaches(moved, i, Tables) => Reaches(Top, i, Tables)
    BY <1>4, <1>5, <1>10
  <1>12. \A i \in Items, k \in DOMAIN p : Reaches(p[k], i, Tables) => Reaches(Top, i, Tables)
    <2> SUFFICES ASSUME NEW i \in Items, NEW k \in DOMAIN p, Reaches(p[k], i, Tables),
                        NEW j \in DOMAIN rows, j <= n, rows[j] = i.target
                 PROVE  FALSE
      BY <1>10
    <2>1. l[k] \in DOMAIN rows /\ n < l[k] /\ rows[l[k]] = rows[j]
      BY <1>8, <1>10
    <2>2. l[k] = j
      BY <1>5, <2>1 DEF Distinct
    <2> QED
      BY <1>4, <1>5, <2>1, <2>2
  <1>13. \A i \in Items, k \in DOMAIN p : ~(Reaches(p[k], i, Tables) /\ Reaches(moved, i, Tables))
    BY <1>8, <1>10
  <1>14. Apart(p, Tables)
    <2> SUFFICES ASSUME NEW j \in DOMAIN p, NEW k \in DOMAIN p, NEW i \in Items,
                        Reaches(p[j], i, Tables), Reaches(p[k], i, Tables)
                 PROVE  j = k
      BY DEF Apart
    <2>1. rows[l[j]] = rows[l[k]]
      BY <1>10
    <2>2. l[j] = l[k]
      BY <1>5, <1>8, <2>1 DEF Distinct
    <2> QED
      BY <1>8, <2>2 DEF Distinct
  <1>15. /\ base \in Seq(Actions) /\ Apart(base, Tables) /\ Asked(base)
         /\ \A i \in Items : LeadsTo(base, i, Tables)
                              => LeadsTo(Below, i, Tables) \/ Reaches(moved, i, Tables)
    <2>1. CASE MoreRows(op, n)
      <3> DEFINE u == Moved(StageToken(n))
      <3>1. /\ u \in Seq(Actions)
            /\ \A i : LeadsTo(u, i, Tables) <=> LeadsTo(Below, i, Tables) \/ Reaches(moved, i, Tables)
            /\ \A k \in DOMAIN u : k \in DOMAIN stack /\ (u[k] = stack[k] \/ u[k] = moved)
        BY <1>2, <1>3, <1>4, Move DEF moved
      <3>2. Apart(u, Tables)
        BY <1>2, <1>3, <1>4, <1>11, ApartMove DEF moved
      <3> HIDE DEF u
      <3>3. Asked(u)
        BY <1>3, <1>7, <3>1 DEF Asked
      <3> QED
        BY <2>1, <3>1, <3>2, <3>3 DEF u
    <2>2. CASE ~MoreRows(op, n)
      BY <1>2, <1>3, <2>2, UnderTop, ApartPop, AskedPop
    <2> QED
      BY <2>1, <2>2
  <1> HIDE DEF base
  <1>16. stack' = base \o p
    BY <1>1 DEF p
  <1>17. \A i \in Items : LeadsTo(p, i, Tables) => \E k \in DOMAIN p : Reaches(p[k], i, Tables)
    BY DEF LeadsTo
  <1>18. \A i \in Items : ~(LeadsTo(base, i, Tables) /\ LeadsTo(p, i, Tables))
    BY <1>2, <1>3, <1>12, <1>13, <1>15, <1>17, ApartPop
  <1>19. Apart(base \o p, Tables)
    BY <1>6, <1>14, <1>15, <1>18, ApartOnTop
  <1>20. Fresh(base \o p, collected, Tables)
    <2>1. ASSUME NEW i \in collected, LeadsTo(base \o p, i, Tables) PROVE FALSE
      <3>1. LeadsTo(base, i, Tables) \/ LeadsTo(p, i, Tables)
        BY <1>6, <1>15, <2>1, OnTop
      <3>2. i \in Items
        BY <1>3
      <3>3. LeadsTo(Below, i, Tables) \/ Reaches(Top, i, Tables)
        BY <1>11, <1>12, <1>15, <1>17, <3>1, <3>2
      <3>4. LeadsTo(stack, i, Tables)
        BY <1>2, <1>3, <3>3, Pop
      <3> QED
        BY <1>3, <3>4 DEF Fresh
    <2> QED
      BY <2>1 DEF Fresh
  <1>21. Asked(p)
    <2> SUFFICES ASSUME NEW k \in DOMAIN p
                 PROVE  /\ TypeOf[p[k].target] \in Served(config)
                        /\ p[k].token <= Calls(config, p[k].op, p[k].target)
      BY DEF Asked
    <2>1. p[k].target \in Elements(rows) /\ p[k].target \in Types \cup Resources /\ p[k].token = 0
      BY <1>8, <1>9 DEF Elements
    <2>2. TypeOf[p[k].target] \in Elements(typeList)
      <3>1. CASE op = "resources"
        <4>1. p[k].target \in Elements(typeList) /\ p[k].target \in Types
          BY <1>8, <2>1, <3>1 DEF rows, Rows, TargetsOf
        <4> QED
          BY <4>1, SessionAssumption
      <3>2. CASE op # "resources"
        BY <1>3, <2>1, <3>2 DEF rows, Rows, TypesKept
      <3> QED
        BY <3>1, <3>2
    <2>3. Calls(config, p[k].op, p[k].target) \in Nat
      BY <1>3, <2>1, CallsType
    <2> QED
      BY <1>3, <2>1, <2>2, <2>3
  <1>22. Asked(base \o p)
    <2> SUFFICES ASSUME NEW k \in DOMAIN (base \o p), (base \o p)[k].target # None
                 PROVE  /\ TypeOf[(base \o p)[k].target] \in Served(config)
                        /\ (base \o p)[k].token
                              <= Calls(config, (base \o p)[k].op, (base \o p)[k].target)
      BY DEF Asked
    <2>1. \/ \E j \in DOMAIN base : (base \o p)[k] = base[j]
          \/ \E j \in DOMAIN p : (base \o p)[k] = p[j]
      BY <1>6, <1>15, OnTop
    <2> QED
      BY <1>15, <1>21, <2>1 DEF Asked
  <1>23. Tables' = Tables
    BY <1>2 DEF Tables, store
  <1>24. Apart(stack, Tables)' /\ Fresh(stack, collected, Tables)' /\ Asked(stack)'
    BY <1>2, <1>16, <1>19, <1>20, <1>22, <1>23 DEF Apart, Fresh, Asked, store, connector
  <1>25. Elements(typeList)' \subseteq Served(config)' /\ Distinct(typeList)' /\ Distinct(resourceList)'
    BY <1>2, <1>3 DEF Elements, Distinct, store, connector
  <1> QED
    BY <1>2, <1>24, <1>25 DEF OnceInv

-----------------------------------------------------------------------------
(* A sync that has not begun has asked for nothing. *)
LEMMA OnceInit == Init => OnceInv
  <1> SUFFICES ASSUME Init PROVE OnceInv
    OBVIOUS
  <1>1. /\ pc = "running" /\ stack = Beginning
        /\ typeList = <<>> /\ resourceList = <<>> /\ collected = {}
    BY DEF Init
  <1>2. /\ DOMAIN Beginning = {1} /\ Beginning[1].target = None
        /\ DOMAIN typeList = {} /\ DOMAIN resourceList = {}
    BY <1>1 DEF Beginning, Action
  <1>3. Apart(stack, Tables) /\ Asked(stack)
    BY <1>1, <1>2 DEF Apart, Asked
  <1>4. Fresh(stack, collected, Tables)
    BY <1>1 DEF Fresh
  <1> QED
    BY <1>1, <1>2, <1>3, <1>4 DEF OnceInv, Elements, Distinct

(* The steps that leave the store and the configuration as they are and do   *)
(* nothing to the stack but take the current action from it.                 *)
LEMMA QuietOnce ==
  ASSUME IInv, OnceInv, UNCHANGED <<store, connector>>, failures' = failures,
         \/ pc' = pc /\ stack' = stack
         \/ pc = "running" /\ pc' = pc /\ stack # <<>> /\ stack' = Below
         \/ pc' = "done"
  PROVE  OnceInv'
  <1> SUFFICES ASSUME failures' = 0 PROVE OnceInv'
    BY DEF OnceInv
  <1>1. /\ pc # "stopped" /\ Elements(typeList) \subseteq Served(config)
        /\ Distinct(typeList) /\ Distinct(resourceList)
        /\ pc = "running" =>
              Apart(stack, Tables) /\ Fresh(stack, collected, Tables) /\ Asked(stack)
    BY DEF OnceInv
  <1>2. stack \in Seq(Actions) /\ collected \subseteq Items
    BY DEF IInv, TypeOK
  <1>3. pc' # "stopped"
    BY <1>1
  <1>4. /\ typeList' = typeList /\ resourceList' = resourceList /\ collected' = collected
        /\ config' = config
    BY DEF store, connector
  <1>5. ASSUME pc' = "running"
        PROVE  Apart(stack', Tables) /\ Fresh(stack', collected, Tables) /\ Asked(stack')
    <2>1. CASE stack' = stack
      BY <1>1, <1>5, <2>1
    <2>2. CASE pc = "running" /\ stack # <<>> /\ stack' = Below
      <3>1. Apart(Below, Tables) /\ Fresh(Below, collected, Tables)
        BY <1>1, <1>2, <2>2, PopOnce
      <3>2. Asked(Below)
        BY <1>1, <1>2, <2>2, AskedPop
      <3> QED
        BY <2>2, <3>1, <3>2
    <2> QED
      BY <1>5, <2>1, <2>2
  <1>6. Tables' = Tables
    BY <1>4 DEF Tables
  <1>7. pc' = "running" =>
           Apart(stack, Tables)' /\ Fresh(stack, collected, Tables)' /\ Asked(stack)'
    BY <1>4, <1>5, <1>6 DEF Apart, Fresh, Asked
  <1>8. Elements(typeList)' \subseteq Served(config)' /\ Distinct(typeList)' /\ Distinct(resourceList)'
    BY <1>1, <1>4 DEF Elements, Distinct
  <1> QED
    BY <1>3, <1>7, <1>8 DEF OnceInv

(* Before the first failure nothing stops the sync: the connector refuses no *)
(* page, and so nothing is resumed, started over or configured anew.         *)
LEMMA OnceStep == IInv /\ OnceInv /\ [Next]_vars => OnceInv'
  <1> SUFFICES ASSUME IInv, OnceInv, [Next]_vars, failures' = 0 PROVE OnceInv'
    BY DEF OnceInv
  <1>1. failures \in Nat
    BY SessionAssumption DEF IInv, TypeOK
  <1>2. CASE Fail \/ FailInPut
    BY <1>1, <1>2 DEF Fail, FailInPut, Failure
  <1>3. CASE Reconfigure \/ Resume \/ StartOver
    <2>1. pc = "stopped" /\ failures' = failures
      BY <1>3 DEF Reconfigure, Resume, StartOver
    <2> QED
      BY <2>1 DEF OnceInv
  <1>4. CASE Refused
    <2>1. pc = "running" /\ failures' = failures
      BY <1>4 DEF Refused, Current
    <2> QED
      BY <1>4, <2>1, NeverRefused DEF OnceInv
  <1>5. CASE SkipExpansion \/ EndSync \/ Checkpoint \/ Age \/ UNCHANGED vars
    <2>1. /\ UNCHANGED <<store, connector>> /\ failures' = failures
          /\ \/ pc' = pc /\ stack' = stack
             \/ pc = "running" /\ pc' = pc /\ stack # <<>> /\ stack' = Below
             \/ pc' = "done"
      BY <1>5 DEF SkipExpansion, Current, EndSync, Checkpoint, Age, vars
    <2> QED
      BY <2>1, QuietOnce
  <1>6. CASE \/ InitOp \/ SyncResourceTypes
             \/ (\E op \in Ops : Stage(op)) \/ (\E op \in Ops : List(op))
    BY <1>6, InitOpOnce, SyncResourceTypesOnce, StageOnce, ListOnce
  <1> QED
    BY <1>2, <1>3, <1>4, <1>5, <1>6 DEF Next, SyncStep

(* Leads of Session. *)
LEMMA StackLeads ==
  ASSUME NEW i \in Items
  PROVE  Leads(stack, i) <=> LeadsTo(stack, i, Tables)
  <1>1. i.op \in Ops \cup {"types"}
    BY DEF Items
  <1>2. \A a : a.op = i.op /\ a.op # "types" => Tables[a.op] = Rows(a.op)
    BY <1>1 DEF Tables, TablesOf, Rows
  <1>3. \A a : Covers(a, i) <=> Reaches(a, i, Tables)
    BY <1>2 DEF Covers, Behind, Reaches
  <1> QED
    BY <1>3 DEF Leads, LeadsTo

(* A sync that nothing fails asks for no page twice: the types, the stages   *)
(* that page over the store while it fills, and the pages of each listing    *)
(* share nothing, for every size of the store's pages.                       *)
THEOREM SessionListedOnce == Spec => []ListedOnce
  <1>1. Spec => []OnceInv
    BY OnceInit, InitInvariant, OnceStep, SessionInvariant, PTL DEF Spec
  <1>2. IInv /\ OnceInv => ListedOnce
    <2> SUFFICES ASSUME IInv, OnceInv, failures = 0, pc = "running",
                        NEW i \in collected
                 PROVE  ~Leads(stack, i)
      BY DEF ListedOnce
    <2>1. i \in Items
      BY DEF IInv, TypeOK
    <2> QED
      BY <2>1, StackLeads DEF OnceInv, Fresh
  <1> QED
    BY <1>1, <1>2, SessionInvariant, PTL
=============================================================================
