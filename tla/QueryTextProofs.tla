-------------------------- MODULE QueryTextProofs --------------------------
(* Proofs about QueryText, for queries of every length, every engine and     *)
(* every section: what a statement that is sent means to the database.       *)
EXTENDS QueryText, FiniteSetTheorems, TLAPS

(* What is replaced so far reads its value, if no token was wrong.           *)
ReplacedRight ==
    \A k \in 1 .. Len(statement) :
        /\ ~IsToken(query[k]) => statement[k] = Text
        /\ IsToken(query[k]) /\ ~failed =>
              /\ Known(query[k])
              /\ Reads(k, values[KeyOf(query[k])])

Counted == Cardinality(MarksUpTo(Len(statement))) = Len(args)

(* A token that is kept is known to be wrong. *)
WrongIfFailed == failed => \E k \in DOMAIN query : IsToken(query[k]) /\ ~Known(query[k])

Noted == paged <=> kind = "page" /\ \E k \in 1 .. Len(statement) : IsToken(query[k]) /\ Known(query[k])

Whole ==
    /\ pc = "start" => statement = <<>> /\ args = <<>> /\ ~failed /\ ~paged
    /\ pc = "sent" => Len(statement) = Len(query) /\ ~failed

IInv == TypeOK /\ ReplacedRight /\ Counted /\ WrongIfFailed /\ Noted /\ Whole

-----------------------------------------------------------------------------
(* The marks among the first pieces do not change when another is added.     *)
LEMMA MarksKept ==
  ASSUME NEW form, statement \in Seq(Forms), statement' = Append(statement, form)
  PROVE  /\ \A k \in 0 .. Len(statement) : MarksUpTo(k)' = MarksUpTo(k)
         /\ Len(statement') = Len(statement) + 1
         /\ \A k \in 1 .. Len(statement) : statement'[k] = statement[k]
         /\ statement'[Len(statement) + 1] = form
  <1>1. /\ Len(statement) \in Nat
        /\ Len(statement') = Len(statement) + 1
        /\ \A k \in 1 .. Len(statement) : statement'[k] = statement[k]
        /\ statement'[Len(statement) + 1] = form
    OBVIOUS
  <1>2. ASSUME NEW k \in 0 .. Len(statement) PROVE MarksUpTo(k)' = MarksUpTo(k)
    BY <1>1 DEF MarksUpTo
  <1> QED
    BY <1>1, <1>2

(* The number of marks grows by one with a mark, and by none otherwise.      *)
LEMMA MarksCounted ==
  ASSUME NEW form, statement \in Seq(Forms), statement' = Append(statement, form)
  PROVE  /\ Cardinality(MarksUpTo(Len(statement))) \in Nat
         /\ Cardinality(MarksUpTo(Len(statement))') =
              Cardinality(MarksUpTo(Len(statement)))
                + (IF form.form = "mark" THEN 1 ELSE 0)
  <1> DEFINE n == Len(statement)
             M == MarksUpTo(n)
  <1>1. n \in Nat /\ n + 1 \notin M /\ M \subseteq 1 .. n
    BY DEF MarksUpTo
  <1>2. IsFiniteSet(M)
    <2> HIDE DEF M
    <2>1. IsFiniteSet(1 .. n)
      BY <1>1, FS_Interval
    <2> QED
      BY <1>1, <2>1, FS_Subset
  <1>3. MarksUpTo(Len(statement))' = IF form.form = "mark" THEN M \cup {n + 1} ELSE M
    <2>1. /\ n' = n + 1
          /\ \A k \in 1 .. n : statement'[k] = statement[k]
          /\ statement'[n + 1] = form
      BY MarksKept
    <2> QED
      BY <1>1, <2>1 DEF MarksUpTo
  <1>4. Cardinality(M) \in Nat /\ Cardinality(M \cup {n + 1}) = Cardinality(M) + 1
    <2> HIDE DEF M
    <2> QED
      BY <1>1, <1>2, FS_CardinalityType, FS_AddElement
  <1> QED
    BY <1>3, <1>4

-----------------------------------------------------------------------------
LEMMA IInvInit == Init => IInv
  <1> SUFFICES ASSUME Init PROVE IInv
    OBVIOUS
  <1>1. query \in Seq(Pieces)
    BY QueryTextAssumption DEF Init
  <1>2. TypeOK
    <2>1. /\ DOMAIN values \subseteq Names
          /\ values \in [DOMAIN values -> Values]
      BY DEF Init
    <2>2. \A S : <<>> \in Seq(S)
      OBVIOUS
    <2>3. Len(<<>>) = 0 /\ Len(query) \in Nat
      BY <1>1
    <2>4. statement \in Seq(Forms) /\ args \in Seq(Values) /\ Len(statement) <= Len(query)
      BY <1>1, <2>2, <2>3 DEF Init
    <2>5. /\ pc \in {"start", "replace", "sent", "verbatim", "refused"}
          /\ kind \in {"page", "provisioning"} /\ engine \in Engines
          /\ failed \in BOOLEAN /\ paged \in BOOLEAN
      BY DEF Init
    <2> QED
      BY <1>1, <2>1, <2>4, <2>5 DEF TypeOK
  <1>3. MarksUpTo(0) = {} /\ Cardinality({}) = 0
    BY FS_EmptySet DEF MarksUpTo
  <1>4. Len(statement) = 0 /\ Len(args) = 0
    BY DEF Init
  <1>5. Counted
    BY <1>3, <1>4 DEF Counted
  <1> QED
    BY <1>2, <1>4, <1>5 DEF Init, IInv, ReplacedRight, WrongIfFailed, Noted, Whole

(* The values are chosen before anything is replaced. *)
LEMMA StartStep ==
  ASSUME IInv, SetupPagination \/ SendAsIs \/ PrepareVars \/ RefuseInputs
  PROVE  IInv'
  <1>1. /\ pc = "start" /\ pc' \in {"replace", "verbatim", "refused"}
        /\ UNCHANGED <<kind, engine, query, statement, args, failed, paged>>
        /\ statement = <<>> /\ args = <<>> /\ ~failed /\ ~paged
    BY DEF SetupPagination, SendAsIs, PrepareVars, RefuseInputs, Given, IInv, Whole
  <1>2. DOMAIN values' \subseteq Names /\ values' \in [DOMAIN values' -> Values]
    BY QueryTextAssumption
    DEF SetupPagination, SendAsIs, PrepareVars, RefuseInputs, IInv, TypeOK
  <1>3. TypeOK'
    BY <1>1, <1>2 DEF IInv, TypeOK, Forms, Marks
  <1>4. Counted'
    BY <1>1 DEF IInv, Counted, MarksUpTo
  <1> QED
    BY <1>1, <1>3, <1>4 DEF IInv, ReplacedRight, WrongIfFailed, Noted, Whole

(* What was replaced before reads what it read before. *)
LEMMA ReadsKept ==
  ASSUME TypeOK, NEW form, statement' = Append(statement, form),
         UNCHANGED <<engine, query, values>>,
         Len(args') >= Len(args), args' \in Seq(Values),
         \A i \in 1 .. Len(args) : args'[i] = args[i],
         NEW k \in 1 .. Len(statement), NEW v, Reads(k, v)
  PROVE  Reads(k, v)'
  <1>1. statement'[k] = statement[k] /\ MarksUpTo(k)' = MarksUpTo(k)
    BY MarksKept DEF TypeOK
  <1>2. ArgumentOf(k)' = ArgumentOf(k)
    BY <1>1 DEF ArgumentOf
  <1> QED
    BY <1>1, <1>2 DEF Reads, TypeOK

(* The next piece of the query, and what is kept of the ones before. *)
LEMMA NextPiece ==
  ASSUME IInv, TypeOK', NEW form, Replacing, statement' = Append(statement, form),
         UNCHANGED <<pc, kind, engine, query, values>>,
         failed => failed',
         Len(args') >= Len(args), \A i \in 1 .. Len(args) : args'[i] = args[i]
  PROVE  /\ \A k \in 1 .. Len(statement) :
              /\ ~IsToken(query[k]) => statement'[k] = Text
              /\ IsToken(query[k]) /\ ~failed' =>
                    Known(query[k])' /\ Reads(k, values[KeyOf(query[k])])'
         /\ Here = query[Len(statement) + 1]
         /\ Len(statement) + 1 \in DOMAIN query
         /\ Len(statement') = Len(statement) + 1
         /\ statement'[Len(statement) + 1] = form
  <1>1. /\ Len(statement') = Len(statement) + 1
        /\ \A k \in 1 .. Len(statement) : statement'[k] = statement[k]
        /\ statement'[Len(statement) + 1] = form
    BY MarksKept DEF IInv, TypeOK
  <1>2. Len(statement) + 1 \in DOMAIN query
    BY DEF Replacing, IInv, TypeOK
  <1>3. ASSUME NEW k \in 1 .. Len(statement), IsToken(query[k]), ~failed'
        PROVE  Known(query[k])' /\ Reads(k, values[KeyOf(query[k])])'
    <2>1. Known(query[k]) /\ Reads(k, values[KeyOf(query[k])])
      BY <1>3 DEF IInv, ReplacedRight
    <2>2. Reads(k, values[KeyOf(query[k])])'
      BY <2>1, ReadsKept DEF IInv, TypeOK, KeyOf
    <2> QED
      BY <2>1, <2>2 DEF Known, OptionKnown, KeyOf
  <1> QED
    BY <1>1, <1>2, <1>3 DEF IInv, ReplacedRight, Here

LEMMA CopyTextStep ==
  ASSUME IInv, TypeOK', CopyText
  PROVE  IInv'
  <1>1. /\ Replacing /\ ~IsToken(Here) /\ statement' = Append(statement, Text)
        /\ UNCHANGED <<pc, kind, engine, query, values, args, failed, paged>>
    BY DEF CopyText, Given
  <1>2. args \in Seq(Values) /\ Len(args) \in Nat
    BY DEF IInv, TypeOK
  <1>3. /\ \A k \in 1 .. Len(statement) :
             /\ ~IsToken(query[k]) => statement'[k] = Text
             /\ IsToken(query[k]) /\ ~failed' =>
                   Known(query[k])' /\ Reads(k, values[KeyOf(query[k])])'
        /\ Here = query[Len(statement) + 1] /\ Len(statement) + 1 \in DOMAIN query
        /\ Len(statement') = Len(statement) + 1 /\ Len(statement) \in Nat
        /\ statement'[Len(statement) + 1] = Text
    BY <1>1, <1>2, NextPiece DEF IInv, TypeOK
  <1>4. ReplacedRight'
    BY <1>1, <1>3 DEF ReplacedRight, KeyOf
  <1>5. Counted'
    BY <1>1, <1>2, MarksCounted DEF IInv, TypeOK, Counted, Text
  <1>6. WrongIfFailed' /\ Whole'
    BY <1>1 DEF IInv, WrongIfFailed, Whole, Replacing, Known, OptionKnown, KeyOf
  <1>7. Noted'
    BY <1>1, <1>3 DEF IInv, Noted, Known, OptionKnown, KeyOf
  <1> QED
    BY <1>4, <1>5, <1>6, <1>7 DEF IInv

LEMMA RejectStep ==
  ASSUME IInv, TypeOK', Reject
  PROVE  IInv'
  <1>1. /\ Replacing /\ IsToken(Here) /\ ~Known(Here) /\ failed'
        /\ statement' = Append(statement, Text)
        /\ UNCHANGED <<pc, kind, engine, query, values, args, paged>>
    BY DEF Reject, Given
  <1>2. args \in Seq(Values) /\ Len(args) \in Nat
    BY DEF IInv, TypeOK
  <1>3. /\ \A k \in 1 .. Len(statement) : ~IsToken(query[k]) => statement'[k] = Text
        /\ Here = query[Len(statement) + 1] /\ Len(statement) + 1 \in DOMAIN query
        /\ Len(statement') = Len(statement) + 1 /\ Len(statement) \in Nat
    BY <1>1, <1>2, NextPiece DEF IInv, TypeOK
  <1>4. ReplacedRight'
    BY <1>1, <1>3 DEF ReplacedRight
  <1>5. Counted'
    BY <1>1, <1>2, MarksCounted DEF IInv, TypeOK, Counted, Text
  <1>6. WrongIfFailed' /\ Whole'
    BY <1>1, <1>3 DEF IInv, WrongIfFailed, Whole, Replacing, Known, OptionKnown, KeyOf
  <1>7. Noted'
    BY <1>1, <1>3 DEF IInv, Noted, Known, OptionKnown, KeyOf
  <1> QED
    BY <1>4, <1>5, <1>6, <1>7 DEF IInv

LEMMA InlineStep ==
  ASSUME IInv, TypeOK', Inline
  PROVE  IInv'
  <1> DEFINE form == Inlined(values[KeyOf(Here)])
  <1>1. /\ Replacing /\ IsToken(Here) /\ Known(Here) /\ statement' = Append(statement, form)
        /\ UNCHANGED <<pc, kind, engine, query, values, args, failed>>
        /\ paged' = (paged \/ kind = "page")
    BY DEF Inline, Given, Noticed
  <1>2. args \in Seq(Values) /\ Len(args) \in Nat
    BY DEF IInv, TypeOK
  <1>f. form.form = "inline" /\ form.value = values[KeyOf(Here)]
    BY DEF Inlined
  <1> HIDE DEF form
  <1>3. /\ \A k \in 1 .. Len(statement) :
             /\ ~IsToken(query[k]) => statement'[k] = Text
             /\ IsToken(query[k]) /\ ~failed' =>
                   Known(query[k])' /\ Reads(k, values[KeyOf(query[k])])'
        /\ Here = query[Len(statement) + 1] /\ Len(statement) + 1 \in DOMAIN query
        /\ Len(statement') = Len(statement) + 1 /\ Len(statement) \in Nat
        /\ statement'[Len(statement) + 1] = form
    BY <1>1, <1>2, NextPiece DEF IInv, TypeOK
  <1>4. ReplacedRight'
    <2>1. ASSUME NEW k, k = Len(statement) + 1
          PROVE  Reads(k, values[KeyOf(query[k])])' /\ Known(query[k])'
      <3>1. Known(query[k])' /\ statement'[k] = form /\ query'[k] = Here
        BY <1>1, <1>3, <2>1 DEF Known, OptionKnown, KeyOf
      <3>2. values'[KeyOf(query'[k])] = values[KeyOf(Here)]
        BY <1>1, <3>1
      <3> QED
        BY <1>f, <3>1, <3>2 DEF Reads, KeyOf
    <2> QED
      BY <1>1, <1>3, <2>1 DEF ReplacedRight, KeyOf
  <1>5. Counted'
    BY <1>1, <1>2, <1>f, MarksCounted DEF IInv, TypeOK, Counted
  <1>6. WrongIfFailed' /\ Whole'
    BY <1>1 DEF IInv, WrongIfFailed, Whole, Replacing, Known, OptionKnown, KeyOf
  <1>7. Noted'
    <2>1. ASSUME NEW k PROVE Known(query[k])' = Known(query[k])
      BY <1>1 DEF Known, OptionKnown, KeyOf
    <2>2. kind = "page" => paged'
      BY <1>1
    <2>3. kind # "page" => ~paged'
      BY <1>1 DEF IInv, Noted
    <2>4. \E k \in 1 .. Len(statement') : IsToken(query[k]) /\ Known(query[k])
      BY <1>1, <1>3
    <2> QED
      BY <1>1, <2>1, <2>2, <2>3, <2>4 DEF Noted
  <1> QED
    BY <1>4, <1>5, <1>6, <1>7 DEF IInv

(* A new argument is the last one: its number is their number, and so is its *)
(* place among the placeholders.                                             *)
LEMMA BindStep ==
  ASSUME IInv, TypeOK', Bind
  PROVE  IInv'
  <1> DEFINE v == values[KeyOf(Here)]
             form == Placeholder(args')
  <1>1. /\ Replacing /\ IsToken(Here) /\ Known(Here)
        /\ args' = Append(args, v) /\ statement' = Append(statement, form)
        /\ UNCHANGED <<pc, kind, engine, query, values, failed>>
        /\ paged' = (paged \/ kind = "page")
    BY DEF Bind, Given, Noticed, WithArg
  <1> HIDE DEF v
  <1>2. /\ args \in Seq(Values) /\ Len(args) \in Nat /\ Len(args') = Len(args) + 1
        /\ \A i \in 1 .. Len(args) : args'[i] = args[i]
        /\ args'[Len(args) + 1] = v
    BY <1>1 DEF IInv, TypeOK
  <1>f. /\ form.form = "mark"
        /\ form.number = IF engine \in Numbered THEN Len(args) + 1 ELSE 0
    BY <1>2 DEF Placeholder, Mark
  <1> HIDE DEF form
  <1>3. /\ \A k \in 1 .. Len(statement) :
             /\ ~IsToken(query[k]) => statement'[k] = Text
             /\ IsToken(query[k]) /\ ~failed' =>
                   Known(query[k])' /\ Reads(k, values[KeyOf(query[k])])'
        /\ Here = query[Len(statement) + 1] /\ Len(statement) + 1 \in DOMAIN query
        /\ Len(statement') = Len(statement) + 1 /\ Len(statement) \in Nat
        /\ statement'[Len(statement) + 1] = form
    BY <1>1, <1>2, NextPiece DEF IInv, TypeOK
  <1>5. Counted'
    BY <1>1, <1>2, <1>f, MarksCounted DEF IInv, TypeOK, Counted
  <1>4. ReplacedRight'
    <2>1. ASSUME NEW k, k = Len(statement) + 1 PROVE ArgumentOf(k)' = Len(args) + 1
      <3>1. Cardinality(MarksUpTo(k)') = Len(args) + 1
        BY <1>2, <1>3, <1>5, <2>1 DEF Counted
      <3> QED
        BY <1>1, <1>3, <1>f, <2>1, <3>1 DEF ArgumentOf
    <2>2. Len(args) + 1 \in DOMAIN args'
      BY <1>2 DEF TypeOK
    <2>3. ASSUME NEW k, k = Len(statement) + 1
          PROVE  Reads(k, values[KeyOf(query[k])])' /\ Known(query[k])'
      <3>1. Known(query[k])' /\ statement'[k] = form /\ query'[k] = Here
        BY <1>1, <1>3, <2>3 DEF Known, OptionKnown, KeyOf
      <3>2. values'[KeyOf(query'[k])] = v
        BY <1>1, <3>1 DEF v
      <3>3. ArgumentOf(k)' \in DOMAIN args' /\ args'[ArgumentOf(k)'] = v
        BY <1>2, <2>1, <2>2, <2>3
      <3> QED
        BY <1>f, <3>1, <3>2, <3>3 DEF Reads, KeyOf
    <2> QED
      BY <1>1, <1>3, <2>3 DEF ReplacedRight, KeyOf
  <1>6. WrongIfFailed' /\ Whole'
    BY <1>1 DEF IInv, WrongIfFailed, Whole, Replacing, Known, OptionKnown, KeyOf
  <1>7. Noted'
    <2>1. ASSUME NEW k PROVE Known(query[k])' = Known(query[k])
      BY <1>1 DEF Known, OptionKnown, KeyOf
    <2>2. kind = "page" => paged'
      BY <1>1
    <2>3. kind # "page" => ~paged'
      BY <1>1 DEF IInv, Noted
    <2>4. \E k \in 1 .. Len(statement') : IsToken(query[k]) /\ Known(query[k])
      BY <1>1, <1>3
    <2> QED
      BY <1>1, <2>1, <2>2, <2>3, <2>4 DEF Noted
  <1> QED
    BY <1>4, <1>5, <1>6, <1>7 DEF IInv

LEMMA ReturnStep ==
  ASSUME IInv, TypeOK', Return
  PROVE  IInv'
  <1>1. /\ Len(statement) = Len(query) /\ pc' # "start" /\ (pc' = "sent" => ~failed)
        /\ UNCHANGED <<kind, engine, query, values, statement, args, failed, paged>>
    BY DEF Return, Given
  <1>2. ReplacedRight' /\ Counted' /\ WrongIfFailed' /\ Noted'
    BY <1>1 DEF IInv, ReplacedRight, Counted, WrongIfFailed, Noted, Known, OptionKnown, KeyOf,
                Reads, ArgumentOf, MarksUpTo
  <1> QED
    BY <1>1, <1>2 DEF IInv, Whole

-----------------------------------------------------------------------------
(* Every step keeps the types: a new form is one of the engine's, and the    *)
(* numbers of the placeholders so far stay within the arguments.             *)
LEMMA TypeStep == TypeOK /\ [Next]_vars => TypeOK'
  <1> SUFFICES ASSUME TypeOK, [Next]_vars PROVE TypeOK'
    OBVIOUS
  <1>1. CASE UNCHANGED vars
    BY <1>1 DEF vars, TypeOK, Forms, Marks
  <1>2. CASE SetupPagination \/ SendAsIs \/ PrepareVars \/ RefuseInputs
    <2>1. DOMAIN values' \subseteq Names /\ values' \in [DOMAIN values' -> Values]
      BY <1>2, QueryTextAssumption
      DEF SetupPagination, SendAsIs, PrepareVars, RefuseInputs, TypeOK
    <2>2. /\ pc' \in {"replace", "verbatim", "refused"}
          /\ UNCHANGED <<kind, engine, query, statement, args, failed, paged>>
      BY <1>2 DEF SetupPagination, SendAsIs, PrepareVars, RefuseInputs, Given
    <2> QED
      BY <2>1, <2>2 DEF TypeOK, Forms, Marks
  <1>3. ASSUME NEW form, Replacing, statement' = Append(statement, form), form \in Forms',
               args' \in Seq(Values), Len(args') >= Len(args),
               failed' \in BOOLEAN, paged' \in BOOLEAN,
               UNCHANGED <<pc, kind, engine, query, values>>
        PROVE  TypeOK'
    <2>1. Forms \subseteq Forms'
      BY <1>3 DEF TypeOK, Forms, Marks
    <2>2. statement \in Seq(Forms')
      BY <2>1 DEF TypeOK
    <2>3. statement' \in Seq(Forms') /\ Len(statement') = Len(statement) + 1
      BY <1>3, <2>2
    <2>4. Len(statement') <= Len(query)
      BY <1>3, <2>3 DEF Replacing, TypeOK
    <2> QED
      BY <1>3, <2>3, <2>4 DEF TypeOK
  <1>4. CASE CopyText \/ Reject
    <2>1. /\ Replacing /\ statement' = Append(statement, Text)
          /\ failed' \in BOOLEAN /\ paged' \in BOOLEAN
          /\ UNCHANGED <<pc, kind, engine, query, values, args>>
      BY <1>4 DEF CopyText, Reject, Given, TypeOK
    <2>2. Text \in Forms' /\ args' \in Seq(Values) /\ Len(args') >= Len(args)
      BY <2>1 DEF Forms, TypeOK
    <2> QED
      BY <1>3, <2>1, <2>2
  <1>5. CASE Inline
    <2>1. values[KeyOf(Here)] \in Values
      BY <1>5 DEF Inline, Known, TypeOK
    <2> QED
      <3>1. /\ Replacing /\ statement' = Append(statement, Inlined(values[KeyOf(Here)]))
            /\ failed' \in BOOLEAN /\ paged' \in BOOLEAN
            /\ UNCHANGED <<pc, kind, engine, query, values, args>>
        BY <1>5 DEF Inline, Given, Noticed, TypeOK
      <3>2. /\ Inlined(values[KeyOf(Here)]) \in Forms'
            /\ args' \in Seq(Values) /\ Len(args') >= Len(args)
        BY <2>1, <3>1 DEF Forms, TypeOK
      <3> QED
        BY <1>3, <3>1, <3>2
  <1>6. CASE Bind
    <2>1. values[KeyOf(Here)] \in Values
      BY <1>6 DEF Bind, Known, TypeOK
    <2>2. args' \in Seq(Values) /\ Len(args') = Len(args) + 1 /\ Len(args) \in Nat
      BY <1>6, <2>1 DEF Bind, WithArg, TypeOK
    <2>3. Placeholder(args') \in Forms'
      BY <1>6, <2>2 DEF Placeholder, Mark, Forms, Marks, Bind, Given
    <2> QED
      BY <1>3, <1>6, <2>2, <2>3 DEF Bind, Given, Noticed, TypeOK
  <1>7. CASE Return
    BY <1>7 DEF Return, Given, TypeOK, Forms, Marks
  <1> QED
    BY <1>1, <1>2, <1>4, <1>5, <1>6, <1>7 DEF Next

LEMMA IInvStep == IInv /\ [Next]_vars => IInv'
  <1> SUFFICES ASSUME IInv, [Next]_vars PROVE IInv'
    OBVIOUS
  <1>1. TypeOK'
    BY TypeStep DEF IInv
  <1>2. CASE UNCHANGED vars
    <2>1. UNCHANGED <<pc, kind, engine, query, values, statement, args, failed, paged>>
      BY <1>2 DEF vars
    <2>2. ReplacedRight'
      BY <2>1 DEF IInv, ReplacedRight, Known, OptionKnown, KeyOf, Reads, ArgumentOf, MarksUpTo
    <2>3. Counted' /\ WrongIfFailed' /\ Noted' /\ Whole'
      BY <2>1 DEF IInv, Counted, MarksUpTo, WrongIfFailed, Noted, Whole, Known, OptionKnown, KeyOf
    <2> QED
      BY <1>1, <2>2, <2>3 DEF IInv
  <1> QED
    BY <1>1, <1>2, StartStep, CopyTextStep, RejectStep, InlineStep, BindStep, ReturnStep DEF Next

(* The inductive invariant of the replacement, for queries of any length.    *)
THEOREM QueryTextInvariant == Spec => []IInv
  <1> QED
    BY IInvInit, IInvStep, PTL DEF Spec

(* Type correctness: a numbered placeholder never names an argument that     *)
(* does not exist (getNextPlaceholder).                                      *)
THEOREM QueryTextTypeCorrect == Spec => []TypeOK
  <1>1. IInv => TypeOK
    BY DEF IInv
  <1> QED
    BY <1>1, QueryTextInvariant, PTL

(* Every token of a statement that is sent reads the value of its name.      *)
THEOREM QueryTextReadsItsValue == Spec => []EachReadsItsValue
  <1>1. IInv => EachReadsItsValue
    <2> SUFFICES ASSUME IInv, pc = "sent", NEW k \in DOMAIN query, IsToken(query[k])
                 PROVE  Reads(k, values[Lower[query[k].key]])
      BY DEF EachReadsItsValue
    <2>1. k \in 1 .. Len(statement) /\ ~failed
      BY DEF IInv, TypeOK, Whole
    <2> QED
      BY <2>1 DEF IInv, ReplacedRight, KeyOf
  <1> QED
    BY <1>1, QueryTextInvariant, PTL

(* A statement that is sent has as many arguments as placeholders.           *)
THEOREM QueryTextAllArgsUsed == Spec => []AllArgsUsed
  <1>1. IInv => AllArgsUsed
    BY DEF IInv, TypeOK, AllArgsUsed, Counted, ReplacedRight, Whole
  <1> QED
    BY <1>1, QueryTextInvariant, PTL

(* A query is sent or refused as a whole, by the meaning of its tokens.      *)
THEOREM QueryTextRefusedIfWrong == Spec => []RefusedIfWrong
  <1>1. IInv => RefusedIfWrong
    <2> SUFFICES ASSUME IInv PROVE RefusedIfWrong
      OBVIOUS
    <2>1. ASSUME pc = "sent", NEW k \in DOMAIN query, IsToken(query[k]) PROVE Means(query[k])
      <3>1. k \in 1 .. Len(statement) /\ ~failed
        BY <2>1 DEF IInv, TypeOK, Whole
      <3>2. Known(query[k])
        BY <2>1, <3>1 DEF IInv, ReplacedRight
      <3>3. query[k].key \in Names /\ Lower[Lower[query[k].key]] = Lower[query[k].key]
        BY <2>1, QueryTextAssumption DEF IInv, TypeOK, Pieces, IsToken
      <3> QED
        BY <3>2, <3>3 DEF Known, OptionKnown, KeyOf, Means
    <2>2. ASSUME failed, \A n \in DOMAIN values : Lower[n] = n
          PROVE  \E k \in DOMAIN query : IsToken(query[k]) /\ ~Means(query[k])
      <3>1. PICK k \in DOMAIN query : IsToken(query[k]) /\ ~Known(query[k])
        BY <2>2 DEF IInv, WrongIfFailed
      <3>2. ~Means(query[k])
        BY <2>2, <3>1 DEF Known, OptionKnown, KeyOf, Means
      <3> QED
        BY <3>1, <3>2
    <2> QED
      BY <2>1, <2>2 DEF RefusedIfWrong
  <1> QED
    BY <1>1, QueryTextInvariant, PTL

(* A page query is taken for paged exactly when a value of the page is in it. *)
THEOREM QueryTextPagedIfCut == Spec => []PagedIfCut
  <1>1. IInv => PagedIfCut
    BY DEF IInv, TypeOK, PagedIfCut, Noted, ReplacedRight, Whole
  <1> QED
    BY <1>1, QueryTextInvariant, PTL
=============================================================================
