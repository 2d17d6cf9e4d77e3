-------------------------- MODULE GrantPagesProofs --------------------------
(***************************************************************************)
(* What the grants paging guarantees for every number of grants queries,   *)
(* of pages in each, and of failures.                                      *)
(***************************************************************************)
EXTENDS GrantPages, SequenceTheorems, TLAPS

PageState == [query : Nat, token : Nat]

(* A bag holds the first queries in order, each with a page left to read;    *)
(* only the last one can have been started.                                  *)
GoodBag(bag) ==
    /\ bag \in Seq(PageState)
    /\ Len(bag) <= Len(PageCount)
    /\ \A i \in 1 .. Len(bag) :
          /\ bag[i].query = i
          /\ bag[i].token < PageCount[i]
          /\ bag[i].token > 0 => i = Len(bag)

TypeOK ==
    /\ pc \in {"idle", "reply", "half", "stopped", "done"}
    /\ GoodBag(token) /\ GoodBag(savedToken) /\ GoodBag(next)
    /\ popped \in BOOLEAN /\ savedPopped \in BOOLEAN
    /\ page \subseteq Pages /\ store \subseteq Pages
    /\ failures \in Nat

(* The place the driver works at passes no page that is not stored.          *)
PlaceSafe ==
    \A x \in Pages : x \in store \/ (~popped /\ x \in Remaining(Opened(token)))

(* The answer of Grants holds every page that its token passes.              *)
ReplySafe ==
    pc \in {"reply", "half"} =>
        /\ ~popped
        /\ \A x \in Remaining(Opened(token)) :
              x \in page \/ (next # <<>> /\ x \in Remaining(next))

(* Before the token moves, the page is stored; after the end, nothing is left. *)
PutDone ==
    /\ pc = "half" => page \subseteq store
    /\ pc = "done" => popped

IInv == TypeOK /\ BagResumeSafe /\ PlaceSafe /\ ReplySafe /\ PutDone

-----------------------------------------------------------------------------
(* The queries are numbered, and each has a page. *)
LEMMA PageCountType ==
  /\ Len(PageCount) \in Nat
  /\ Queries = 1 .. Len(PageCount)
  /\ \A q \in Queries : PageCount[q] \in Nat \ {0}
  <1>1. PageCount \in Seq(Nat \ {0})
    BY GrantPagesAssumption
  <1> QED
    BY <1>1, LenProperties, ElementOfSeq DEF Queries

(* A page is a query and the number of one of its pages. *)
LEMMA PagesType ==
  \A x : x \in Pages <=> \E q \in Queries : \E n \in 1 .. PageCount[q] : x = <<q, n>>
  BY DEF Pages

(* A page is left in a bag when its query is there with an earlier token. *)
LEMMA RemainingInBag ==
  ASSUME NEW bag, GoodBag(bag), NEW x \in Pages
  PROVE  x \in Remaining(bag) <=> x[1] \in 1 .. Len(bag) /\ bag[x[1]].token < x[2]
  <1>1. DOMAIN bag = 1 .. Len(bag)
    BY LenProperties DEF GoodBag
  <1> QED
    BY <1>1 DEF Remaining, GoodBag

(* The bag of all queries is good and leaves every page. *)
LEMMA AllQueriesGood ==
  /\ GoodBag(AllQueries)
  /\ \A x \in Pages : x \in Remaining(AllQueries)
  /\ Queries # {} => AllQueries # <<>>
  <1>1. AllQueries \in Seq(PageState) /\ Len(AllQueries) = Len(PageCount)
    BY PageCountType, SeqDef DEF AllQueries, PageState
  <1>2. \A i \in 1 .. Len(PageCount) : AllQueries[i].query = i /\ AllQueries[i].token = 0
    BY PageCountType DEF AllQueries
  <1>3. GoodBag(AllQueries)
    BY <1>1, <1>2, PageCountType DEF GoodBag
  <1>4. ASSUME NEW x \in Pages PROVE x \in Remaining(AllQueries)
    <2>1. PICK q \in Queries, n \in Nat : n \in 1 .. PageCount[q] /\ x = <<q, n>>
      BY PagesType
    <2>2. AllQueries[q].token < n /\ q \in 1 .. Len(AllQueries)
      BY <1>1, <1>2, <2>1, PageCountType
    <2> QED
      BY <1>3, <2>1, <2>2, RemainingInBag
  <1>5. Queries # {} => AllQueries # <<>>
    BY <1>1, PageCountType, EmptySeq
  <1> QED
    BY <1>3, <1>4, <1>5

LEMMA OpenedGood ==
  ASSUME NEW bag, GoodBag(bag)
  PROVE  /\ GoodBag(Opened(bag))
         /\ Queries # {} => Opened(bag) # <<>>
         /\ bag # <<>> => Opened(bag) = bag
  BY AllQueriesGood DEF Opened

(* The empty token is good: it stands for a listing not yet begun. *)
LEMMA EmptyGood == GoodBag(<<>>)
  BY PageCountType, EmptySeq DEF GoodBag

-----------------------------------------------------------------------------
(* One page of the current query: the next bag is good again, and leaves     *)
(* every page that was left except the one read.                             *)
LEMMA BagNextGood ==
  ASSUME NEW bag, GoodBag(bag), bag # <<>>,
         NEW current, current = Current(bag),
         NEW rest, rest = BagNext(bag, QueryToken(current))
  PROVE  /\ GoodBag(rest)
         /\ <<current.query, current.token + 1>> \in Pages
         /\ \A x \in Remaining(bag) :
               \/ x = <<current.query, current.token + 1>>
               \/ rest # <<>> /\ x \in Remaining(rest)
  <1> DEFINE n == Len(bag)
  <1>1. n \in Nat \ {0} /\ n <= Len(PageCount) /\ bag \in Seq(PageState)
    BY EmptySeq DEF GoodBag
  <1>2. \A i \in 1 .. n : bag[i] \in PageState
    BY <1>1, ElementOfSeq
  <1>3. /\ current = bag[n] /\ current.query = n
        /\ current.token \in Nat /\ current.token < PageCount[n]
    BY <1>1, <1>2 DEF Current, Last, GoodBag, PageState
  <1>4. n \in Queries /\ PageCount[n] \in Nat
    BY <1>1, PageCountType
  <1>5. <<current.query, current.token + 1>> \in Pages
    BY <1>3, <1>4, PagesType
  <1>6. /\ Front(bag) \in Seq(PageState)
        /\ Len(Front(bag)) = n - 1
        /\ \A i \in 1 .. n - 1 : Front(bag)[i] = bag[i]
    <2>1. \A i \in 1 .. n - 1 : bag[i] \in PageState
      BY <1>1, <1>2
    <2> HIDE DEF n
    <2>2. /\ SubSeq(bag, 1, n - 1) \in Seq(PageState)
          /\ Len(SubSeq(bag, 1, n - 1)) = IF 1 <= n - 1 THEN (n - 1) - 1 + 1 ELSE 0
          /\ \A i \in 1 .. (n - 1) - 1 + 1 : SubSeq(bag, 1, n - 1)[i] = bag[1 + i - 1]
      BY <1>1, <2>1, SubSeqProperties
    <2>3. Front(bag) = SubSeq(bag, 1, n - 1)
      BY DEF Front, n
    <2> QED
      BY <1>1, <2>2, <2>3
  <1>7. ASSUME NEW x \in Remaining(bag)
        PROVE  /\ x \in Pages /\ x = <<x[1], x[2]>>
               /\ x[1] \in 1 .. n /\ x[2] \in 1 .. PageCount[x[1]]
               /\ bag[x[1]].token < x[2]
    <2>1. x \in Pages
      BY DEF Remaining
    <2> QED
      BY <2>1, RemainingInBag, PagesType
  <1>8. CASE QueryToken(current) = 0
    <2>1. rest = Front(bag)
      BY <1>8 DEF BagNext
    <2>2. PageCount[n] <= current.token + 1
      BY <1>3, <1>4, <1>8 DEF QueryToken
    <2>3. \A i \in 1 .. n - 1 : bag[i].token = 0 /\ bag[i].query = i
      BY <1>1, <1>2 DEF GoodBag, PageState
    <2>4. GoodBag(rest)
      BY <1>1, <1>6, <2>1, <2>3, PageCountType DEF GoodBag
    <2>5. ASSUME NEW x \in Remaining(bag), x[1] # n
          PROVE  rest # <<>> /\ x \in Remaining(rest)
      <3>1. x[1] \in 1 .. n - 1
        BY <1>1, <1>7, <2>5
      <3>2. x[1] \in 1 .. Len(rest) /\ rest[x[1]].token < x[2]
        BY <1>6, <1>7, <2>1, <3>1
      <3> QED
        BY <1>1, <1>7, <2>4, <3>2, RemainingInBag, EmptySeq
    <2>6. ASSUME NEW x \in Remaining(bag), x[1] = n
          PROVE  x = <<current.query, current.token + 1>>
      BY <1>3, <1>4, <1>7, <2>2, <2>6
    <2> QED
      BY <1>5, <2>4, <2>5, <2>6
  <1>9. CASE QueryToken(current) # 0
    <2> DEFINE state == [query |-> n, token |-> current.token + 1]
    <2>1. rest = Append(Front(bag), state) /\ current.token + 1 < PageCount[n]
      BY <1>3, <1>9 DEF BagNext, Push, QueryToken, Current
    <2>2. state \in PageState /\ state.query = n /\ state.token = current.token + 1
      BY <1>1, <1>3 DEF PageState
    <2> HIDE DEF state
    <2>3. /\ rest \in Seq(PageState) /\ rest # <<>> /\ Len(rest) = n
          /\ \A i \in 1 .. n - 1 : rest[i] = bag[i]
          /\ rest[n] = state
      BY <1>1, <1>6, <2>1, <2>2, AppendProperties
    <2>4. GoodBag(rest)
      <3>1. ASSUME NEW i \in 1 .. n, i # n
            PROVE  rest[i].query = i /\ rest[i].token = 0 /\ 0 < PageCount[i]
        <4>1. i \in 1 .. n - 1 /\ rest[i] = bag[i] /\ bag[i].token \in Nat
          BY <1>1, <1>2, <2>3, <3>1 DEF PageState
        <4>2. bag[i].query = i /\ ~(bag[i].token > 0)
          BY <3>1 DEF GoodBag
        <4>3. PageCount[i] \in Nat \ {0}
          BY <1>1, PageCountType
        <4> QED
          BY <4>1, <4>2, <4>3
      <3> QED
        BY <1>1, <2>1, <2>2, <2>3, <3>1 DEF GoodBag
    <2>5. ASSUME NEW x \in Remaining(bag), x # <<current.query, current.token + 1>>
          PROVE  x \in Remaining(rest)
      <3>1. x[1] \in 1 .. Len(rest)
        BY <1>7, <2>3
      <3>2. rest[x[1]].token < x[2]
        <4>1. CASE x[1] = n
          <5>1. x[2] # current.token + 1
            BY <1>3, <1>7, <2>5, <4>1
          <5>2. x[2] \in Nat /\ current.token < x[2]
            BY <1>3, <1>4, <1>7, <4>1
          <5> QED
            BY <1>3, <2>2, <2>3, <4>1, <5>1, <5>2
        <4>2. CASE x[1] # n
          BY <1>1, <1>7, <2>3, <4>2
        <4> QED
          BY <4>1, <4>2
      <3> QED
        BY <1>7, <2>4, <3>1, <3>2, RemainingInBag
    <2> QED
      BY <1>5, <2>3, <2>4, <2>5
  <1> QED
    BY <1>8, <1>9

-----------------------------------------------------------------------------
LEMMA IInvInit == Init => IInv
  <1> SUFFICES ASSUME Init PROVE IInv
    OBVIOUS
  <1>1. TypeOK
    BY EmptyGood DEF Init, TypeOK
  <1>2. Opened(token) = AllQueries /\ Opened(savedToken) = AllQueries
    BY DEF Init, Opened
  <1> QED
    BY <1>1, <1>2, AllQueriesGood DEF Init, IInv, BagResumeSafe, PlaceSafe, ReplySafe, PutDone

(* The answer of Grants accounts for every page its place leaves.            *)
LEMMA GrantsStep ==
  ASSUME IInv, Grants
  PROVE  IInv'
  <1>1. CASE Queries = {}
    <2>1. Pages = {}
      BY <1>1, PagesType
    <2>2. page' = {} /\ next' = <<>>
      BY <1>1 DEF Grants
    <2> QED
      BY <2>1, <2>2, EmptyGood
      DEF Grants, IInv, TypeOK, BagResumeSafe, PlaceSafe, ReplySafe, PutDone, Remaining, saved
  <1>2. CASE Queries # {}
    <2> DEFINE bag == Opened(token)
               current == Current(bag)
    <2>1. GoodBag(bag) /\ bag # <<>>
      BY <1>2, OpenedGood DEF IInv, TypeOK
    <2>2. page' = {<<current.query, current.token + 1>>} /\ next' = BagNext(bag, QueryToken(current))
      BY <1>2 DEF Grants
    <2>3. pc' = "reply" /\ ~popped /\ UNCHANGED <<token, popped, savedToken, savedPopped, store, failures>>
      BY DEF Grants, saved
    <2> HIDE DEF current
    <2>4. /\ GoodBag(next') /\ page' \subseteq Pages
          /\ \A x \in Remaining(bag) : x \in page' \/ (next' # <<>> /\ x \in Remaining(next'))
      BY <2>1, <2>2, BagNextGood DEF current
    <2> QED
      BY <2>3, <2>4 DEF IInv, TypeOK, BagResumeSafe, PlaceSafe, ReplySafe, PutDone, GoodBag
  <1> QED
    BY <1>1, <1>2

LEMMA PutStep ==
  ASSUME IInv, Put
  PROVE  IInv'
  BY DEF Put, PutPage, saved, IInv, TypeOK, BagResumeSafe, PlaceSafe, ReplySafe, PutDone, GoodBag

(* The token moves only over pages that are stored. *)
LEMMA AdvanceStep ==
  ASSUME IInv, Advance
  PROVE  IInv'
  <1>1. /\ pc = "half" /\ pc' = "idle" /\ page \subseteq store /\ ~popped
        /\ UNCHANGED <<savedToken, savedPopped, page, next, store, failures>>
    BY DEF Advance, IInv, PutDone, ReplySafe, saved
  <1>2. \A x \in Pages : x \in store \/ (next # <<>> /\ x \in Remaining(next))
    BY <1>1 DEF IInv, PlaceSafe, ReplySafe
  <1>3. CASE next = <<>>
    BY <1>1, <1>2, <1>3
    DEF Advance, IInv, TypeOK, BagResumeSafe, PlaceSafe, ReplySafe, PutDone, GoodBag
  <1>4. CASE next # <<>>
    <2>1. token' = next /\ UNCHANGED popped
      BY <1>4 DEF Advance
    <2>2. Opened(token') = token'
      BY <1>4, <2>1 DEF Opened
    <2>3. PlaceSafe'
      BY <1>1, <1>2, <2>1, <2>2 DEF PlaceSafe
    <2> QED
      BY <1>1, <2>1, <2>3
      DEF IInv, TypeOK, BagResumeSafe, ReplySafe, PutDone, GoodBag
  <1> QED
    BY <1>3, <1>4

(* Checkpoints and resumes copy a place that is already safe. *)
LEMMA ControlStep ==
  ASSUME IInv, Checkpoint \/ Finish \/ Fail \/ Resume
  PROVE  IInv'
  <1> USE DEF IInv, TypeOK, BagResumeSafe, PlaceSafe, ReplySafe, PutDone, GoodBag, saved
  <1>1. CASE Checkpoint
    BY <1>1 DEF Checkpoint
  <1>2. CASE Finish
    BY <1>2 DEF Finish
  <1>3. CASE Fail
    BY <1>3 DEF Fail
  <1>4. CASE Resume
    BY <1>4 DEF Resume, Resumed
  <1> QED
    BY <1>1, <1>2, <1>3, <1>4

LEMMA IInvStep == IInv /\ [Next]_vars => IInv'
  <1> SUFFICES ASSUME IInv, [Next]_vars PROVE IInv'
    OBVIOUS
  <1>1. CASE UNCHANGED vars
    BY <1>1 DEF vars, saved, IInv, TypeOK, BagResumeSafe, PlaceSafe, ReplySafe, PutDone, GoodBag
  <1> QED
    BY <1>1, GrantsStep, PutStep, AdvanceStep, ControlStep DEF Next, SyncStep

(* The inductive invariant of the grants paging. *)
THEOREM GrantsInvariant == Spec => []IInv
  BY IInvInit, IInvStep, PTL DEF Spec

(* Whatever checkpoint a sync resumes from, it reads every page that is not  *)
(* stored: of the current query and of the queries below it in the bag.      *)
THEOREM GrantsResumeSafe == Spec => []BagResumeSafe
  <1>1. IInv => BagResumeSafe
    BY DEF IInv
  <1> QED
    BY <1>1, GrantsInvariant, PTL

(* The bag takes the queries one at a time: a query is in it at most once,   *)
(* and only the current one has been started.                                *)
THEOREM GrantsOneQueryAtATime == Spec => []OneQueryAtATime
  <1>1. ASSUME NEW bag, GoodBag(bag)
        PROVE  \A i \in DOMAIN bag :
                  /\ \A j \in DOMAIN bag : bag[i].query = bag[j].query => i = j
                  /\ bag[i].token > 0 => i = Len(bag)
    <2>1. DOMAIN bag = 1 .. Len(bag)
      BY <1>1, LenProperties DEF GoodBag
    <2>2. \A i \in 1 .. Len(bag) : bag[i].query = i /\ (bag[i].token > 0 => i = Len(bag))
      BY <1>1 DEF GoodBag
    <2> SUFFICES ASSUME NEW i \in 1 .. Len(bag)
                 PROVE  /\ \A j \in 1 .. Len(bag) : bag[i].query = bag[j].query => i = j
                        /\ bag[i].token > 0 => i = Len(bag)
      BY <2>1, Zenon
    <2>3. ASSUME NEW j \in 1 .. Len(bag), bag[i].query = bag[j].query PROVE i = j
      <3>1. bag[i].query = i /\ bag[j].query = j
        BY <2>2
      <3> QED
        BY <3>1, <2>3
    <2> QED
      BY <2>2, <2>3
  <1>2. IInv => OneQueryAtATime
    BY <1>1 DEF IInv, TypeOK, OneQueryAtATime
  <1> QED
    BY <1>2, GrantsInvariant, PTL

(* The queries of a resource, taken together, implement the contract of one  *)
(* unpaged listing of its grants.                                            *)
THEOREM GrantsImplementContract == Spec => ImplementsContract
  <1>1. Init => Contract!Init
    BY DEF Init, Contract!Init
  <1>2. IInv /\ [Next]_vars => [Contract!Next]_(Contract!vars)
    <2> SUFFICES ASSUME IInv, [Next]_vars PROVE [Contract!Next]_(Contract!vars)
      OBVIOUS
    <2> USE DEF Contract!vars
    <2>1. CASE Put
      <3>1. page \in SUBSET Pages
        BY DEF IInv, TypeOK
      <3>2. Contract!Collect(page)
        BY <2>1 DEF Put, PutPage, Contract!Collect
      <3> QED
        BY <3>1, <3>2 DEF Contract!Next
    <2>2. CASE Finish
      <3>1. Pages \subseteq store
        BY <2>2 DEF Finish, IInv, PlaceSafe
      <3>2. Contract!Finish
        BY <2>2, <3>1 DEF Finish, Contract!Finish
      <3> QED
        BY <3>2 DEF Contract!Next
    <2>3. CASE Grants \/ Advance \/ Checkpoint \/ Fail \/ Resume
      BY <2>3 DEF Grants, Advance, Checkpoint, Fail, Resume, IInv, PutDone
    <2>4. CASE UNCHANGED vars
      BY <2>4 DEF vars
    <2> QED
      BY <2>1, <2>2, <2>3, <2>4 DEF Next, SyncStep
  <1> QED
    BY <1>1, <1>2, GrantsInvariant, PTL DEF Spec, ImplementsContract, Contract!Spec
=============================================================================
