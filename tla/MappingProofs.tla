--------------------------- MODULE MappingProofs ---------------------------
(***************************************************************************)
(* What the mapping of a page guarantees for every configuration, every    *)
(* page and every value a column can have.                                 *)
(***************************************************************************)
EXTENDS Mapping, SequenceTheorems, FiniteSetTheorems, TLAPS

(* The pairs that come before the mapping in hand. *)
Reached(p) == Before(p, <<row, next>>)

TypeOK ==
    /\ config \in Configs /\ page \in Pages
    /\ row \in 1 .. Len(page) + 1
    /\ next \in 1 .. Len(config.maps) + 1
    /\ ret \in Seq({ret[i] : i \in DOMAIN ret})
    /\ outcome \in {"running", "answered", "error", "stored", "refused"}

(* Every item comes from its own row and mapping. *)
ItemsFromRows ==
    \A i \in 1 .. Len(ret) :
        /\ PairOf(i) \in Pairs
        /\ ret[i].id = IDOf(config.maps[ret[i].mapping], page[ret[i].row])
        /\ ret[i].traits = FetchTraits

(* The items so far are those of the pairs reached, in their order, and      *)
(* nothing reached is broken.                                                *)
ItemsSoFar ==
    outcome # "error" =>
        /\ {PairOf(i) : i \in 1 .. Len(ret)} = {p \in Pairs : Reached(p) /\ ConditionOf(p) # "true"}
        /\ \A i, j \in 1 .. Len(ret) : i < j => Before(PairOf(i), PairOf(j))
        /\ \A p \in Pairs : Reached(p) => ~Broken(p)

OutcomeRight ==
    /\ row > Len(page) => next = 1
    /\ Answered => row = Len(page) + 1
    /\ outcome = "error" => ret = <<>> /\ \E p \in Pairs : Broken(p)
    /\ outcome = "refused" => Missing

IInv == TypeOK /\ ItemsFromRows /\ ItemsSoFar /\ OutcomeRight

-----------------------------------------------------------------------------
LEMMA SizesType ==
  ASSUME TypeOK
  PROVE  /\ Len(page) \in Nat /\ DOMAIN page = 1 .. Len(page)
         /\ Len(config.maps) \in Nat /\ DOMAIN config.maps = 1 .. Len(config.maps)
         /\ Len(ret) \in Nat /\ DOMAIN ret = 1 .. Len(ret)
         /\ row \in Nat /\ next \in Nat
         /\ IsConfig(config) /\ IsPage(page)
  <1>1. IsConfig(config) /\ IsPage(page)
    BY MappingAssumption DEF TypeOK
  <1>2. /\ page \in Seq({page[i] : i \in DOMAIN page})
        /\ config.maps \in Seq({config.maps[i] : i \in DOMAIN config.maps})
    BY <1>1 DEF IsConfig, IsPage
  <1>3. Len(page) \in Nat /\ DOMAIN page = 1 .. Len(page)
    BY <1>2, LenProperties
  <1>4. Len(config.maps) \in Nat /\ DOMAIN config.maps = 1 .. Len(config.maps)
    BY <1>2, LenProperties
  <1>5. Len(ret) \in Nat /\ DOMAIN ret = 1 .. Len(ret)
    BY LenProperties DEF TypeOK
  <1> QED
    BY <1>1, <1>3, <1>4, <1>5 DEF TypeOK

(* An item of any kind can be appended. *)
LEMMA AppendAny ==
  ASSUME NEW s, s \in Seq({s[i] : i \in DOMAIN s}), NEW e,
         NEW t, t = Append(s, e)
  PROVE  /\ t \in Seq({t[i] : i \in DOMAIN t})
         /\ Len(t) = Len(s) + 1
         /\ \A i \in 1 .. Len(s) : t[i] = s[i]
         /\ t[Len(s) + 1] = e
  <1> DEFINE S == {s[i] : i \in DOMAIN s} \cup {e}
  <1>1. s \in Seq(S) /\ e \in S
    BY SeqMonotonic
  <1> HIDE DEF S
  <1>2. /\ t \in Seq(S)
        /\ Len(t) = Len(s) + 1
        /\ \A i \in 1 .. Len(s) : t[i] = s[i]
        /\ t[Len(s) + 1] = e
    BY <1>1, AppendProperties
  <1>3. t \in Seq({t[i] : i \in DOMAIN t})
    <2>1. Len(t) \in Nat /\ DOMAIN t = 1 .. Len(t) /\ t \in [1 .. Len(t) -> S]
      BY <1>2, LenProperties
    <2> DEFINE R == {t[i] : i \in DOMAIN t}
    <2>2. t \in [1 .. Len(t) -> R]
      BY <2>1
    <2> HIDE DEF R
    <2>3. t \in UNION {[1 .. n -> R] : n \in Nat}
      BY <2>1, <2>2
    <2>4. t \in Seq(R)
      BY <2>3, SeqDef
    <2> QED
      BY <2>4 DEF R
  <1> QED
    BY <1>2, <1>3

(* EvaluateString fails exactly where the expression does. *)
LEMMA StringFails ==
  \A expr, cols : EvaluateString(expr, cols) = Failed <=> Evaluate(expr, cols) = Failed
  <1>1. \A text : Value("text", text) # Failed
    <2> TAKE text
    <2>1. Value("text", text).type = "text" /\ Failed.type = "error"
      BY DEF Value, Failed
    <2> QED
      BY <2>1
  <1> QED
    BY <1>1 DEF EvaluateString

(* EvaluateBool has a truth value or fails. *)
LEMMA ConditionType ==
  ASSUME TypeOK, NEW p \in Pairs
  PROVE  ConditionOf(p) \in {"true", "false", "error"}
  <1> DEFINE m == config.maps[p[2]]
             cols == page[p[1]]
             value == Evaluate(m.skip_if, cols)
  <1>1. p[1] \in DOMAIN page
    BY DEF Pairs
  <1>2. value.type = "bool" => value.text \in {"true", "false"}
    <2>1. CASE m.skip_if.form = "bare"
      BY <2>1 DEF Evaluate, Value
    <2>2. CASE m.skip_if.form = "column" /\ m.skip_if.word \in DOMAIN cols
      <3>1. value = cols[m.skip_if.word]
        BY <2>2 DEF Evaluate
      <3>2. IsPage(page)
        BY SizesType
      <3> HIDE DEF value, m
      <3> QED
        BY <1>1, <2>2, <3>1, <3>2 DEF IsPage
    <2>3. CASE m.skip_if.form # "bare" /\ ~(m.skip_if.form = "column" /\ m.skip_if.word \in DOMAIN cols)
      <3>1. value = Failed
        BY <2>3 DEF Evaluate
      <3>2. Failed.type = "error"
        BY DEF Failed, Value
      <3> HIDE DEF value
      <3> QED
        BY <3>1, <3>2
    <2> QED
      BY <2>1, <2>2, <2>3
  <1>3. BoolOf(value) \in {"true", "false", "error"}
    BY <1>2 DEF BoolOf
  <1> QED
    BY <1>3 DEF ConditionOf, Condition, EvaluateBool

-----------------------------------------------------------------------------
(* The pair in hand. *)
LEMMA InHand ==
  ASSUME TypeOK, InRow
  PROVE  /\ <<row, next>> \in Pairs
         /\ <<row, next>>[1] = row /\ <<row, next>>[2] = next
         /\ config.maps[<<row, next>>[2]] = Current /\ page[<<row, next>>[1]] = page[row]
  BY SizesType DEF InRow, Pairs, Current, TypeOK

(* A mapping either skips, maps, or is broken: never two of them. *)
LEMMA ThreeWays ==
  ASSUME TypeOK, InRow, NEW p, p = <<row, next>>
  PROVE  /\ Skips(Current, page[row]) => ConditionOf(p) = "true" /\ ~Broken(p)
         /\ Maps(Current, page[row]) => ConditionOf(p) = "false" /\ ~Broken(p)
         /\ ~Skips(Current, page[row]) /\ ~Maps(Current, page[row]) => Broken(p)
  <1>1. p \in Pairs /\ config.maps[p[2]] = Current /\ page[p[1]] = page[row]
    BY InHand
  <1>2. ConditionOf(p) = Condition(Current, page[row])
    BY <1>1 DEF ConditionOf
  <1>3. Evaluates(Current, page[row]) <=>
          ~ \E i \in Evaluated(Current) : Evaluate(Current.exprs[i], page[row]) = Failed
    BY StringFails DEF Evaluates
  <1>4. Broken(p) <=>
          \/ ConditionOf(p) = "error"
          \/ config.kind = "grants" /\ ~Current.complete
          \/ ConditionOf(p) = "false" /\ (~Current.complete \/ ~Evaluates(Current, page[row]))
    BY <1>1, <1>3 DEF Broken
  <1>5. ConditionOf(p) \in {"true", "false", "error"}
    BY <1>1, ConditionType
  <1> QED
    BY <1>2, <1>4, <1>5 DEF Skips, Maps

(* What belongs to the page and its configuration stays as it is. *)
LEMMA SamePage ==
  ASSUME UNCHANGED <<config, page>>
  PROVE  /\ Pairs' = Pairs /\ FetchTraits' = FetchTraits
         /\ \A p : ConditionOf(p)' = ConditionOf(p)
         /\ \A p : Broken(p)' <=> Broken(p)
         /\ \A m, cols : IDOf(m, cols)' = IDOf(m, cols)
  <1>1. Pairs' = Pairs /\ FetchTraits' = FetchTraits
    BY DEF Pairs, FetchTraits
  <1>2. \A p : ConditionOf(p)' = ConditionOf(p)
    BY DEF ConditionOf, Condition
  <1>3. \A p : Broken(p)' <=> Broken(p)
    BY <1>2 DEF Broken, Evaluated
  <1>4. \A m, cols : IDOf(m, cols)' = IDOf(m, cols)
    BY DEF IDOf
  <1> QED
    BY <1>1, <1>2, <1>3, <1>4

LEMMA IInvInit == Init => IInv
  <1> SUFFICES ASSUME Init PROVE IInv
    OBVIOUS
  <1>1. config \in Configs /\ page \in Pages /\ ret = <<>> /\ row = 1 /\ next = 1
        /\ outcome = "running"
    BY DEF Init
  <1>2. IsConfig(config) /\ IsPage(page)
    BY <1>1, MappingAssumption
  <1>3. Len(page) \in Nat /\ Len(config.maps) \in Nat
    BY <1>2, LenProperties DEF IsConfig, IsPage
  <1>4. ret \in Seq({ret[i] : i \in DOMAIN ret}) /\ Len(ret) = 0
    BY <1>1, EmptySeq
  <1>5. TypeOK
    BY <1>1, <1>3, <1>4 DEF TypeOK
  <1>6. \A p \in Pairs : ~Reached(p)
    BY <1>1, <1>5, SizesType DEF Pairs, Reached, Before
  <1> QED
    BY <1>1, <1>3, <1>4, <1>5, <1>6 DEF IInv, ItemsFromRows, ItemsSoFar, OutcomeRight, Answered

(* Once a mapping is through, the pairs reached are those before and it.     *)
LEMMA ReachNext ==
  ASSUME TypeOK, InRow, row' = row, next' = next + 1, NEW p \in Pairs
  PROVE  Reached(p)' <=> Reached(p) \/ p = <<row, next>>
  <1>1. p = <<p[1], p[2]>> /\ p[1] \in Nat /\ p[2] \in Nat /\ row \in Nat /\ next \in Nat
    BY SizesType DEF Pairs
  <1> QED
    BY <1>1 DEF Reached, Before

LEMMA NextInMaps ==
  ASSUME TypeOK, InRow
  PROVE  next + 1 \in 1 .. Len(config.maps) + 1 /\ ~(row > Len(page))
  BY SizesType DEF InRow, TypeOK

LEMMA SkipStep ==
  ASSUME IInv, Skip
  PROVE  IInv'
  <1> DEFINE here == <<row, next>>
  <1>1. /\ InRow /\ outcome = "running" /\ next' = next + 1
        /\ UNCHANGED <<config, page, row, ret, outcome>>
        /\ Skips(Current, page[row])
    BY DEF Skip, AfterSkip, InRow
  <1>2. TypeOK'
    BY <1>1, NextInMaps DEF IInv, TypeOK
  <1>3. ConditionOf(here) = "true" /\ ~Broken(here)
    BY <1>1, ThreeWays DEF IInv
  <1>4. ItemsFromRows'
    BY <1>1, SamePage DEF IInv, ItemsFromRows, PairOf
  <1>5. ItemsSoFar'
    <2>1. \A p \in Pairs : Reached(p)' <=> Reached(p) \/ p = here
      BY <1>1, ReachNext DEF IInv
    <2>2. {PairOf(i) : i \in 1 .. Len(ret)}' = {PairOf(i) : i \in 1 .. Len(ret)}
      BY <1>1 DEF PairOf
    <2>3. {p \in Pairs : Reached(p) /\ ConditionOf(p) # "true"}'
            = {p \in Pairs : Reached(p) /\ ConditionOf(p) # "true"}
      BY <1>1, <1>3, <2>1, SamePage
    <2>4. \A p \in Pairs' : Reached(p)' => ~Broken(p)'
      BY <1>1, <1>3, <2>1, SamePage DEF IInv, ItemsSoFar
    <2>5. \A i, j \in 1 .. Len(ret') : i < j => Before(PairOf(i), PairOf(j))'
      BY <1>1 DEF IInv, ItemsSoFar, PairOf, Before
    <2> QED
      BY <1>1, <2>2, <2>3, <2>4, <2>5 DEF IInv, ItemsSoFar
  <1>6. OutcomeRight'
    BY <1>1, NextInMaps DEF IInv, OutcomeRight, Answered
  <1> QED
    BY <1>2, <1>4, <1>5, <1>6 DEF IInv

(* A mapped pair adds its item at the end of those before it. *)
LEMMA MapStep ==
  ASSUME IInv, Map
  PROVE  IInv'
  <1> DEFINE here == <<row, next>>
             item == Item(Current, page[row])
             n == Len(ret)
  <1>1. /\ InRow /\ outcome = "running" /\ next' = next + 1
        /\ UNCHANGED <<config, page, row, outcome>>
        /\ Maps(Current, page[row]) /\ ret' = Append(ret, item)
    BY DEF Map, InRow
  <1>2. ConditionOf(here) = "false" /\ ~Broken(here) /\ here \in Pairs
    BY <1>1, ThreeWays, InHand DEF IInv
  <1>3. /\ ret' \in Seq({ret'[i] : i \in DOMAIN ret'})
        /\ Len(ret') = n + 1
        /\ \A i \in 1 .. n : ret'[i] = ret[i]
        /\ ret'[n + 1] = item
    <2> HIDE DEF item
    <2>1. ret' = Append(ret, item) /\ ret \in Seq({ret[i] : i \in DOMAIN ret})
      BY <1>1 DEF IInv, TypeOK
    <2> QED
      BY <2>1, AppendAny
  <1>4. TypeOK'
    BY <1>1, <1>3, NextInMaps DEF IInv, TypeOK
  <1>5. item.row = row /\ item.mapping = next /\ item.traits = FetchTraits
        /\ item.id = IDOf(Current, page[row])
    BY DEF Item
  <1>6. n \in Nat
    BY SizesType DEF IInv
  <1>7. /\ \A i \in 1 .. n : PairOf(i)' = PairOf(i)
        /\ \A i : i = n + 1 => PairOf(i)' = here
    <2> HIDE DEF item, n
    <2>1. \A i \in 1 .. n : PairOf(i)' = PairOf(i)
      BY <1>3 DEF PairOf
    <2>2. \A i : i = n + 1 => PairOf(i)' = here
      BY <1>3, <1>5 DEF PairOf
    <2> QED
      BY <2>1, <2>2
  <1> HIDE DEF item, n
  <1>8. ItemsFromRows'
    <2>1. ASSUME NEW i \in 1 .. n + 1
          PROVE  /\ PairOf(i)' \in Pairs
                 /\ ret'[i].id = IDOf(config.maps[ret'[i].mapping], page[ret'[i].row])
                 /\ ret'[i].traits = FetchTraits
      <3>1. CASE i \in 1 .. n
        BY <1>3, <1>7, <3>1 DEF IInv, ItemsFromRows, n
      <3>2. CASE i = n + 1
        BY <1>2, <1>3, <1>5, <1>7, <3>2 DEF Current
      <3> QED
        BY <1>6, <3>1, <3>2
    <2> QED
      BY <1>1, <1>3, <2>1, SamePage DEF ItemsFromRows
  <1>9. ItemsSoFar'
    <2>1. \A p \in Pairs : Reached(p)' <=> Reached(p) \/ p = here
      BY <1>1, ReachNext DEF IInv
    <2>2. {PairOf(i) : i \in 1 .. n} = {p \in Pairs : Reached(p) /\ ConditionOf(p) # "true"}
      BY <1>1 DEF IInv, ItemsSoFar, n
    <2>3. {PairOf(i)' : i \in 1 .. n + 1} = {PairOf(i) : i \in 1 .. n} \cup {here}
      BY <1>6, <1>7
    <2>4. {PairOf(i)' : i \in 1 .. n + 1}
            = {p \in Pairs : Reached(p)' /\ ConditionOf(p) # "true"}
      BY <1>2, <2>1, <2>2, <2>3
    <2>5. \A p \in Pairs : Reached(p)' => ~Broken(p)
      BY <1>1, <1>2, <2>1 DEF IInv, ItemsSoFar
    <2>6. ASSUME NEW i \in 1 .. n + 1, NEW j \in 1 .. n + 1, i < j
          PROVE  Before(PairOf(i)', PairOf(j)')
      <3>1. i \in 1 .. n
        BY <1>6, <2>6
      <3>2. CASE j \in 1 .. n
        BY <1>1, <1>7, <2>6, <3>1, <3>2 DEF IInv, ItemsSoFar, n
      <3>3. CASE j = n + 1
        <4>1. Reached(PairOf(i))
          BY <2>2, <3>1
        <4> QED
          BY <1>7, <3>1, <3>3, <4>1 DEF Reached
      <3> QED
        BY <1>6, <3>2, <3>3
    <2>7. {PairOf(i) : i \in 1 .. Len(ret)}' = {PairOf(i)' : i \in 1 .. n + 1}
      BY <1>3
    <2>8. {p \in Pairs : Reached(p) /\ ConditionOf(p) # "true"}'
            = {p \in Pairs : Reached(p)' /\ ConditionOf(p) # "true"}
      BY <1>1, SamePage
    <2>9. \A i, j \in 1 .. Len(ret') : i < j => Before(PairOf(i), PairOf(j))'
      BY <1>3, <2>6 DEF Before
    <2>10. \A p \in Pairs' : Reached(p)' => ~Broken(p)'
      BY <1>1, <2>5, SamePage
    <2> QED
      BY <2>4, <2>7, <2>8, <2>9, <2>10 DEF ItemsSoFar
  <1>10. OutcomeRight'
    BY <1>1, NextInMaps DEF IInv, OutcomeRight, Answered
  <1> QED
    BY <1>4, <1>8, <1>9, <1>10 DEF IInv

(* An error leaves nothing of the page, and has its cause. *)
LEMMA FailPageStep ==
  ASSUME IInv, FailPage
  PROVE  IInv'
  <1>1. /\ InRow /\ outcome' = "error" /\ ret' = <<>>
        /\ UNCHANGED <<config, page, row, next>>
        /\ ~Skips(Current, page[row]) /\ ~Maps(Current, page[row])
    BY DEF FailPage
  <1>2. <<row, next>> \in Pairs /\ Broken(<<row, next>>)
    BY <1>1, ThreeWays, InHand DEF IInv
  <1>3. ret' \in Seq({ret'[i] : i \in DOMAIN ret'}) /\ Len(ret') = 0
    BY <1>1, EmptySeq
  <1>4. TypeOK'
    BY <1>1, <1>3 DEF IInv, TypeOK
  <1>5. \E p \in Pairs' : Broken(p)'
    BY <1>1, <1>2, SamePage
  <1>6. OutcomeRight'
    BY <1>1, <1>5 DEF IInv, OutcomeRight, Answered
  <1> QED
    BY <1>1, <1>3, <1>4, <1>6 DEF IInv, ItemsFromRows, ItemsSoFar

(* The pairs of a finished row are all before the next row. *)
LEMMA NextRowStep ==
  ASSUME IInv, NextRow
  PROVE  IInv'
  <1>1. /\ outcome = "running" /\ row <= Len(page) /\ next > Len(config.maps)
        /\ row' = row + 1 /\ next' = 1
        /\ UNCHANGED <<config, page, ret, outcome>>
    BY DEF NextRow
  <1>2. TypeOK'
    BY <1>1, SizesType DEF IInv, TypeOK
  <1>3. ASSUME NEW p \in Pairs PROVE Reached(p)' <=> Reached(p)
    <2>1. /\ p[1] \in Nat /\ p[2] \in 1 .. Len(config.maps)
          /\ row \in Nat /\ next \in Nat /\ Len(config.maps) \in Nat
      BY SizesType DEF IInv, Pairs
    <2> QED
      BY <1>1, <2>1 DEF Reached, Before
  <1>4. ItemsFromRows'
    BY <1>1, SamePage DEF IInv, ItemsFromRows, PairOf
  <1>5. ItemsSoFar'
    <2>1. {PairOf(i) : i \in 1 .. Len(ret)}' = {PairOf(i) : i \in 1 .. Len(ret)}
      BY <1>1 DEF PairOf
    <2>2. {p \in Pairs : Reached(p) /\ ConditionOf(p) # "true"}'
            = {p \in Pairs : Reached(p) /\ ConditionOf(p) # "true"}
      BY <1>1, <1>3, SamePage
    <2>3. \A p \in Pairs' : Reached(p)' => ~Broken(p)'
      BY <1>1, <1>3, SamePage DEF IInv, ItemsSoFar
    <2>4. \A i, j \in 1 .. Len(ret') : i < j => Before(PairOf(i), PairOf(j))'
      BY <1>1 DEF IInv, ItemsSoFar, PairOf, Before
    <2> QED
      BY <1>1, <2>1, <2>2, <2>3, <2>4 DEF IInv, ItemsSoFar
  <1>6. OutcomeRight'
    BY <1>1 DEF OutcomeRight, Answered
  <1> QED
    BY <1>2, <1>4, <1>5, <1>6 DEF IInv

(* The answer and what the driver makes of it change no item. *)
LEMMA AnswerStep ==
  ASSUME IInv, Return \/ Store \/ RefuseTraits \/ UNCHANGED vars
  PROVE  IInv'
  <1>1. UNCHANGED <<config, page, row, next, ret>> /\ (outcome' = "error" => outcome = "error")
    BY DEF Return, Store, RefuseTraits, vars
  <1>2. TypeOK'
    BY <1>1 DEF IInv, TypeOK, Return, Store, RefuseTraits, vars
  <1>3. ItemsFromRows'
    BY <1>1, SamePage DEF IInv, ItemsFromRows, PairOf
  <1>4. ItemsSoFar'
    <2>1. outcome = "error" => outcome' = "error"
      BY DEF Return, Store, RefuseTraits, vars
    <2>2. {PairOf(i) : i \in 1 .. Len(ret)}' = {PairOf(i) : i \in 1 .. Len(ret)}
      BY <1>1 DEF PairOf
    <2>3. {p \in Pairs : Reached(p) /\ ConditionOf(p) # "true"}'
            = {p \in Pairs : Reached(p) /\ ConditionOf(p) # "true"}
      BY <1>1, SamePage DEF Reached, Before
    <2>4. \A p \in Pairs' : Reached(p)' => Reached(p) /\ p \in Pairs /\ (Broken(p)' <=> Broken(p))
      BY <1>1, SamePage DEF Reached, Before
    <2>5. \A i, j \in 1 .. Len(ret') : i < j /\ outcome # "error" => Before(PairOf(i), PairOf(j))'
      BY <1>1 DEF IInv, ItemsSoFar, PairOf, Before
    <2> QED
      BY <2>1, <2>2, <2>3, <2>4, <2>5, <1>1 DEF IInv, ItemsSoFar
  <1>5. OutcomeRight'
    <2>1. Missing' <=> Missing
      BY <1>1, SamePage DEF Missing, DeclaredTraits
    <2>2. (\E p \in Pairs : Broken(p)) => \E p \in Pairs' : Broken(p)'
      BY <1>1, SamePage
    <2>3. Answered' => Answered \/ row > Len(page)
      BY DEF Return, Store, RefuseTraits, vars, Answered
    <2>4. row > Len(page) => row = Len(page) + 1
      BY SizesType DEF IInv, TypeOK
    <2>5. outcome' = "refused" => Missing
      BY DEF Return, Store, RefuseTraits, vars, IInv, OutcomeRight
    <2> QED
      BY <1>1, <2>1, <2>2, <2>3, <2>4, <2>5 DEF IInv, OutcomeRight
  <1> QED
    BY <1>2, <1>3, <1>4, <1>5 DEF IInv

(* The inductive invariant of the mapping of a page. *)
THEOREM MappingInvariant == Spec => []IInv
  <1>1. IInv /\ [Next]_vars => IInv'
    BY SkipStep, MapStep, FailPageStep, NextRowStep, AnswerStep DEF Next
  <1> QED
    BY <1>1, IInvInit, PTL DEF Spec

(* An answered page has exactly one item for each row and mapping that is    *)
(* not skipped, in their order.                                              *)
THEOREM MappingComplete == Spec => []EachMappingOfEachRow
  <1>1. ASSUME IInv, Answered PROVE EachMappingOfEachRow
    <2>1. \A p \in Pairs : Reached(p)
      <3>1. row = Len(page) + 1 /\ DOMAIN page = 1 .. Len(page) /\ Len(page) \in Nat
        BY <1>1, SizesType DEF IInv, OutcomeRight
      <3> QED
        BY <3>1 DEF Pairs, Reached, Before
    <2>2. outcome # "error" /\ DOMAIN ret = 1 .. Len(ret)
      BY <1>1, SizesType DEF Answered, IInv
    <2>3. {PairOf(i) : i \in DOMAIN ret} = {p \in Pairs : ConditionOf(p) # "true"}
      BY <1>1, <2>1, <2>2 DEF IInv, ItemsSoFar
    <2>4. \A i, j \in DOMAIN ret : i < j => Before(PairOf(i), PairOf(j))
      BY <1>1, <2>2 DEF IInv, ItemsSoFar
    <2> QED
      BY <2>3, <2>4 DEF EachMappingOfEachRow
  <1>2. IInv => EachMappingOfEachRow
    BY <1>1 DEF EachMappingOfEachRow
  <1> QED
    BY <1>2, MappingInvariant, PTL

(* A page is dropped whole, when and only when some row of it cannot be      *)
(* mapped.                                                                   *)
THEOREM MappingWholePageOrError == Spec => []WholePageOrError
  <1>1. ASSUME IInv, Answered PROVE \A p \in Pairs : ~Broken(p)
    <2>1. \A p \in Pairs : Reached(p)
      <3>1. row = Len(page) + 1 /\ DOMAIN page = 1 .. Len(page) /\ Len(page) \in Nat
        BY <1>1, SizesType DEF IInv, OutcomeRight
      <3> QED
        BY <3>1 DEF Pairs, Reached, Before
    <2> QED
      BY <1>1, <2>1 DEF IInv, ItemsSoFar, Answered
  <1>2. IInv => WholePageOrError
    BY <1>1 DEF WholePageOrError, IInv, OutcomeRight
  <1> QED
    BY <1>2, MappingInvariant, PTL

(* Integer, text and bytes that read the same make the same ID, and only     *)
(* they do.                                                                  *)
THEOREM MappingSameID == Spec => []SameIDForSameText
  <1>1. ASSUME NEW expr, NEW cols, Evaluate(expr, cols).type \in {"int", "text", "bytes"}
        PROVE  EvaluateString(expr, cols).text = Evaluate(expr, cols).text
    <2> DEFINE cell == Evaluate(expr, cols)
    <2>1. Failed.type = "error"
      BY DEF Failed, Value
    <2>2. cell # Failed /\ StringOf(cell) = cell.text
      BY <1>1, <2>1 DEF StringOf
    <2>3. EvaluateString(expr, cols) = Value("text", cell.text)
      BY <2>2 DEF EvaluateString
    <2> QED
      BY <2>3 DEF Value
  <1>2. ASSUME IInv, config.kind # "static", NEW i \in DOMAIN ret,
               Evaluate(config.maps[ret[i].mapping].exprs[1], page[ret[i].row]).type
                 \in {"int", "text", "bytes"}
        PROVE  ret[i].id = Evaluate(config.maps[ret[i].mapping].exprs[1], page[ret[i].row]).text
    <2>1. ret[i].id = IDOf(config.maps[ret[i].mapping], page[ret[i].row])
      BY <1>2, SizesType DEF IInv, ItemsFromRows
    <2> QED
      BY <1>1, <1>2, <2>1 DEF IDOf
  <1>3. IInv => SameIDForSameText
    BY <1>2 DEF SameIDForSameText
  <1> QED
    BY <1>3, MappingInvariant, PTL

(* The trait a resource type declares is the one its resources have, as long *)
(* as it declares one.                                                       *)
THEOREM MappingOneTrait == Spec => []OneTraitAccepted
  <1>1. ASSUME IInv, outcome = "refused" PROVE Cardinality(config.traits) > 1
    <2>1. PICK i \in DOMAIN ret : ~(config.traits \subseteq FetchTraits)
      <3>1. Missing
        BY <1>1 DEF IInv, OutcomeRight
      <3> QED
        BY <1>1, <3>1, SizesType DEF Missing, DeclaredTraits, IInv, ItemsFromRows
    <2>2. PICK a \in config.traits, b \in config.traits : a # b
      BY <2>1 DEF FetchTraits
    <2>3. IsFiniteSet(config.traits)
      <3>1. IsFiniteSet(TraitTypes)
        <4>1. \A t \in TraitTypes : IsFiniteSet({t})
          BY FS_Singleton
        <4>2. IsFiniteSet({"user"} \cup {"group"}) /\ IsFiniteSet({"role"} \cup {"app"})
          BY <4>1, FS_Union DEF TraitTypes
        <4>3. TraitTypes = ({"user"} \cup {"group"}) \cup ({"role"} \cup {"app"})
          BY DEF TraitTypes
        <4> QED
          BY <4>2, <4>3, FS_Union
      <3>2. config.traits \subseteq TraitTypes
        BY <1>1, SizesType DEF IInv, IsConfig
      <3> QED
        BY <3>1, <3>2, FS_Subset
    <2>4. Cardinality({a}) = 1 /\ IsFiniteSet({a})
      BY FS_Singleton
    <2>5. Cardinality({a} \cup {b}) = 2
      <3>1. b \notin {a}
        BY <2>2
      <3>2. Cardinality({a} \cup {b}) = Cardinality({a}) + 1
        BY <2>4, <3>1, FS_AddElement
      <3> QED
        BY <2>4, <3>2
    <2>6. Cardinality({a} \cup {b}) <= Cardinality(config.traits)
      BY <2>2, <2>3, FS_Subset
    <2>7. Cardinality(config.traits) \in Nat
      BY <2>3, FS_CardinalityType
    <2> QED
      BY <2>5, <2>6, <2>7
  <1>2. IInv => OneTraitAccepted
    BY <1>1 DEF OneTraitAccepted
  <1> QED
    BY <1>2, MappingInvariant, PTL
=============================================================================
