--------------------------- MODULE ListingProofs ---------------------------
(***************************************************************************)
(* What a cursor listing guarantees for every table, page size, order of   *)
(* the driver's two updates, and number of writes and failures.            *)
(***************************************************************************)
EXTENDS Listing, FiniteSetTheorems, TLAPS

(* A cursor query as the documentation writes it: it compares the key with  *)
(* ?<Cursor>, sorts by the key, and may mention ?<Limit>.                    *)
CursorListing ==
    /\ Strategy = "cursor"
    /\ "cursor" \in Tokens /\ "offset" \notin Tokens
    /\ Ordered = TRUE

-----------------------------------------------------------------------------
(* Every lasting row that the token has passed is stored, or waits in the    *)
(* page between syncResources' two updates.                                  *)
Held == IF advanceFirst /\ pc = "half" THEN store \cup page ELSE store

TokenSafe ==
    pc # "stopped" => \A r \in stable : popped \/ r <= token => r \in Held

(* The rows of a scan: fetched before unfetched, all after the token.        *)
ScanOrder ==
    pc \in {"scan", "drained"} =>
        /\ ~popped
        /\ \A q \in page, r \in rest : q < r
        /\ \A q \in page \cup rest : token < q
        /\ \A q \in page : q <= lastRow
        /\ rowCount > 0 => lastRow \in page

(* A lasting row after the token is in the result, or past its end.          *)
ScanCovers ==
    pc \in {"scan", "drained"} =>
        \A r \in stable : token < r =>
            r \in page \cup rest \/ \A q \in page \cup rest : q < r

ScanWhole == \A r \in stable : token < r => r \in page \cup rest

(* A result that LIMIT cut short has one row more than the page.             *)
ScanCount ==
    /\ pc = "scan" =>
          /\ rowCount <= limit
          /\ ScanWhole \/ rowCount + Cardinality(rest) = limit + 1
    /\ pc = "drained" =>
          \/ rowCount <= limit /\ rest = {} /\ ScanWhole
          \/ rowCount = limit + 1

(* What the syncer answered, until the driver moves its token.               *)
ReplySafe ==
    pc \in {AdvancePC, "reply"} =>
        /\ ~popped
        /\ next = NoToken => \A r \in stable : token < r => r \in page
        /\ next # NoToken =>
              /\ token < next
              /\ \A r \in stable : token < r /\ r <= next => r \in page

PutDone ==
    /\ pc = "half" /\ ~advanceFirst => page \subseteq store
    /\ pc = "done" => popped

IInv ==
    /\ TypeOK /\ ResumeSafe /\ TokenSafe
    /\ ScanOrder /\ ScanCovers /\ ScanCount
    /\ ReplySafe /\ PutDone
-----------------------------------------------------------------------------
(* A clamped page size is one the code accepts. *)
LEMMA ClampInLimits == \A size \in Int : ClampPageSize(size) \in Limits
  BY PageSizeAssumption DEF ClampPageSize, Limits

(* Tokens are numbers, whatever the strategy. *)
LEMMA ReturnedTokenType == TypeOK => ReturnedToken \in Nat
  <1> SUFFICES ASSUME TypeOK PROVE ReturnedToken \in Nat
    OBVIOUS
  <1>1. token \in Nat /\ limit \in Nat /\ lastRow \in Nat
    BY PageSizeAssumption, ListingAssumption DEF TypeOK, Limits, NoToken
  <1>2. token * limit + limit \in Nat
    BY <1>1
  <1>3. limit \in Nat /\ 0 * limit + limit \in Nat
    BY <1>1
  <1> QED
    BY <1>1, <1>2, <1>3 DEF ReturnedToken, NextPageToken, OffsetOf, NoToken

LEMMA TypeInit == Init => TypeOK
  <1>1. DefaultPageSize \in Limits
    BY PageSizeAssumption DEF Limits
  <1>2. 0 \in 0 .. MaxWrites /\ 0 \in 0 .. MaxFailures
    BY ListingAssumption
  <1> SUFFICES ASSUME Init PROVE TypeOK
    OBVIOUS
  <1>3. rows \subseteq Keys /\ stable \subseteq rows /\ rows \subseteq ever /\ ever \subseteq Keys
    BY DEF Init
  <1>4. pc \in PCs /\ popped \in BOOLEAN /\ savedPopped \in BOOLEAN
    BY DEF Init, PCs
  <1> QED
    BY <1>1, <1>2, <1>3, <1>4 DEF Init, TypeOK, NoToken

LEMMA TypeStep == TypeOK /\ [Next]_vars => TypeOK'
  <1> SUFFICES ASSUME TypeOK, [Next]_vars PROVE TypeOK'
    OBVIOUS
  <1> USE ListingAssumption DEF TypeOK, dbVars, savedVars, scanVars, syncVars, PCs
  <1>1. ASSUME NEW r \in Keys, Insert(r) PROVE TypeOK'
    BY <1>1 DEF Insert
  <1>2. ASSUME NEW r \in Keys, Delete(r) PROVE TypeOK'
    BY <1>2 DEF Delete
  <1>3. ASSUME NEW size \in Sizes, Query(size) PROVE TypeOK'
    <2>1. limit' \in Limits
      BY <1>3, ClampInLimits DEF Query
    <2> QED
      BY <1>3, <2>1 DEF Query, NoToken
  <1>4. ASSUME NEW r \in Keys, FetchRow(r) PROVE TypeOK'
    BY <1>4 DEF FetchRow
  <1>5. CASE FetchExtraRow
    BY <1>5 DEF FetchExtraRow
  <1>6. CASE Exhausted
    BY <1>6 DEF Exhausted
  <1>7. CASE Return
    BY <1>7, ReturnedTokenType DEF Return
  <1>8. CASE RefuseSameToken
    BY <1>8 DEF RefuseSameToken
  <1>9. CASE Put
    BY <1>9 DEF Put, PutPC, After
  <1>10. CASE Advance
    BY <1>10 DEF Advance, AdvancePC, After
  <1>11. CASE Finish
    BY <1>11 DEF Finish
  <1>12. CASE Resume
    BY <1>12 DEF Resume
  <1>13. CASE Checkpoint
    BY <1>13 DEF Checkpoint
  <1>14. CASE Fail
    BY <1>14 DEF Fail
  <1>15. CASE Retry
    BY <1>15 DEF Retry, AfterTimeout
  <1>16. CASE UNCHANGED vars
    BY <1>16 DEF vars
  <1> QED
    BY <1>1, <1>2, <1>3, <1>4, <1>5, <1>6, <1>7, <1>8, <1>9, <1>10, <1>11,
       <1>12, <1>13, <1>14, <1>15, <1>16
    DEF Next, SyncStep, RunQuery

(* Type correctness: page sizes stay in their range, and nothing is stored   *)
(* that was never in the table.                                              *)
THEOREM TypeCorrect == Spec => []TypeOK
  BY TypeInit, TypeStep, PTL DEF Spec

-----------------------------------------------------------------------------
LEMMA IInvInit == CursorListing /\ Init => IInv
  <1> SUFFICES ASSUME CursorListing, Init PROVE IInv
    OBVIOUS
  <1>1. TypeOK
    BY TypeInit
  <1>2. \A r \in stable : ~(r <= NoToken)
    BY ListingAssumption DEF Init, NoToken
  <1>3. AdvancePC \in {"reply", "half"}
    BY DEF AdvancePC
  <1> QED
    BY <1>1, <1>2, <1>3
    DEF Init, IInv, ResumeSafe, TokenSafe, ScanOrder, ScanCovers, ScanCount, ReplySafe, PutDone

(* The steps that leave the sync alone: a lasting row can only cease to be one. *)
LEMMA WriteStep ==
  ASSUME CursorListing, IInv, TypeOK',
         NEW r \in Keys, Insert(r) \/ Delete(r)
  PROVE  IInv'
  <1>1. stable' \subseteq stable
    BY DEF Insert, Delete
  <1>2. UNCHANGED <<savedVars, scanVars, syncVars, pc>>
    BY DEF Insert, Delete
  <1> USE DEF savedVars, scanVars, syncVars
  <1>3. ResumeSafe'
    BY <1>1, <1>2 DEF IInv, ResumeSafe
  <1>4. TokenSafe'
    BY <1>1, <1>2 DEF IInv, TokenSafe, Held
  <1>5. ScanOrder' /\ PutDone'
    BY <1>2 DEF IInv, ScanOrder, PutDone
  <1>6. ScanCovers'
    BY <1>1, <1>2 DEF IInv, ScanCovers
  <1>7. ScanCount'
    BY <1>1, <1>2 DEF IInv, ScanCount, ScanWhole
  <1>8. ReplySafe'
    BY <1>1, <1>2 DEF IInv, ReplySafe, AdvancePC
  <1> QED
    BY <1>3, <1>4, <1>5, <1>6, <1>7, <1>8 DEF IInv

(* A page query returns the rows after the cursor, or the first limit + 1 of them. *)
LEMMA QueryStep ==
  ASSUME CursorListing, IInv, TypeOK', NEW size \in Sizes, Query(size)
  PROVE  IInv'
  <1>1. PICK S \in SUBSET rows : IsResult(S, rows, token, limit') /\ rest' = S
    BY DEF Query
  <1> DEFINE T == {r \in rows : r > token}
  <1>2. Cut(S, T, limit')
    <2>1. PICK D \in SUBSET rows : D = {} /\ Cut(S, Selected(rows, D, CursorOf(token)), limit')
      BY <1>1 DEF IsResult, CursorListing
    <2>2. Selected(rows, {}, CursorOf(token)) = T
      BY DEF Selected, CursorOf, CursorListing
    <2> QED
      BY <2>1, <2>2
  <1>3. /\ page' = {} /\ rowCount' = 0 /\ pc = "idle" /\ pc' = "scan" /\ ~popped
        /\ UNCHANGED <<stable, token, popped, savedToken, savedPopped, store, next>>
    BY DEF Query, dbVars, savedVars, syncVars
  <1>4. S \subseteq T /\ \A q \in S, r \in T \ S : q < r
    BY <1>2 DEF Cut, Leading, CursorListing
  <1>5. \A r \in stable : token < r => r \in T
    BY ListingAssumption DEF IInv, TypeOK
  <1>6. ResumeSafe' /\ PutDone'
    BY <1>3 DEF IInv, ResumeSafe, PutDone
  <1>7. TokenSafe'
    BY <1>3 DEF IInv, TokenSafe, Held
  <1>8. ScanOrder'
    <2>1. \A q \in S : token < q
      BY <1>4, ListingAssumption DEF IInv, TypeOK
    <2> QED
      BY <1>1, <1>3, <2>1 DEF ScanOrder
  <1>9. ScanCovers'
    BY <1>1, <1>3, <1>4, <1>5 DEF ScanCovers
  <1>10. ScanCount'
    <2>1. limit' \in Nat \ {0}
      BY PageSizeAssumption DEF TypeOK, Limits
    <2>2. S = T \/ Cardinality(S) = limit' + 1
      BY <1>2 DEF Cut, LimitValue
    <2>3. CASE S = T
      BY <1>1, <1>3, <1>5, <2>1, <2>3 DEF ScanCount, ScanWhole
    <2>4. CASE Cardinality(S) = limit' + 1
      BY <1>1, <1>3, <2>1, <2>4 DEF ScanCount
    <2> QED
      BY <2>2, <2>3, <2>4
  <1>11. ReplySafe'
    BY <1>3 DEF ReplySafe, AdvancePC
  <1> QED
    BY <1>6, <1>7, <1>8, <1>9, <1>10, <1>11 DEF IInv

(* The row loop keeps the fetched rows below the unfetched ones. *)
LEMMA FetchRowStep ==
  ASSUME CursorListing, IInv, TypeOK', NEW r \in Keys, FetchRow(r)
  PROVE  IInv'
  <1>1. /\ pc = "scan" /\ pc' = "scan" /\ r \in rest /\ \A q \in rest : r <= q
        /\ rest' = rest \ {r} /\ page' = page \cup {r} /\ lastRow' = r
        /\ rowCount' = rowCount + 1 /\ limit' = limit
        /\ UNCHANGED <<stable, token, popped, savedToken, savedPopped, store, next>>
    BY DEF FetchRow, CursorListing, dbVars, savedVars, syncVars
  <1>2. rowCount \in Nat /\ limit \in Nat /\ token \in Nat /\ rowCount + 1 <= limit
    <2>1. Paged
      BY DEF Paged, CursorListing
    <2> QED
      BY <2>1, PageSizeAssumption DEF FetchRow, PageFull, IInv, TypeOK, Limits
  <1>3. rest \subseteq Nat /\ page \subseteq Nat /\ stable \subseteq Nat /\ IsFiniteSet(rest)
    BY ListingAssumption, FS_Subset DEF IInv, TypeOK
  <1>4. page' \cup rest' = page \cup rest
    BY <1>1
  <1>5. ResumeSafe' /\ PutDone'
    BY <1>1 DEF IInv, ResumeSafe, PutDone
  <1>6. TokenSafe'
    BY <1>1 DEF IInv, TokenSafe, Held
  <1>7. ScanOrder'
    <2>1. \A q \in rest \ {r} : r < q
      BY <1>1, <1>3
    <2>2. ~popped /\ \A q \in page, t \in rest : q < t
      BY <1>1 DEF IInv, ScanOrder
    <2>3. \A q \in page \cup rest : token < q
      BY <1>1 DEF IInv, ScanOrder
    <2>4. \A q \in page' : q <= r
      BY <1>1, <1>3, <2>2
    <2> QED
      BY <1>1, <1>4, <2>1, <2>2, <2>3, <2>4 DEF ScanOrder
  <1>8. ScanCovers'
    BY <1>1, <1>4 DEF IInv, ScanCovers
  <1>9. ScanCount'
    <2>1. Cardinality(rest') = Cardinality(rest) - 1 /\ Cardinality(rest) \in Nat
      BY <1>1, <1>3, FS_RemoveElement, FS_CardinalityType
    <2>2. ScanWhole \/ rowCount + Cardinality(rest) = limit + 1
      BY <1>1 DEF IInv, ScanCount
    <2>3. ScanWhole => ScanWhole'
      BY <1>1, <1>4 DEF ScanWhole
    <2>4. rowCount + Cardinality(rest) = limit + 1 => rowCount' + Cardinality(rest') = limit' + 1
      BY <1>1, <1>2, <2>1
    <2> QED
      BY <1>1, <1>2, <2>2, <2>3, <2>4 DEF ScanCount
  <1>10. ReplySafe'
    BY <1>1 DEF ReplySafe, AdvancePC
  <1> QED
    BY <1>5, <1>6, <1>7, <1>8, <1>9, <1>10 DEF IInv

(* The loop ends: with the extra row, or with a result that had no more rows. *)
LEMMA LoopEndStep ==
  ASSUME CursorListing, IInv, TypeOK', FetchExtraRow \/ Exhausted
  PROVE  IInv'
  <1>1. /\ pc = "scan" /\ pc' = "drained"
        /\ UNCHANGED <<stable, token, popped, savedToken, savedPopped, store, next,
                        limit, rest, page, lastRow>>
    BY DEF FetchExtraRow, Exhausted, dbVars, savedVars, syncVars, scanVars
  <1>2. rowCount \in Nat /\ limit \in Nat \ {0} /\ rowCount <= limit
    BY <1>1, PageSizeAssumption DEF IInv, TypeOK, Limits, ScanCount
  <1>3. \/ rowCount' = limit + 1 /\ rowCount = limit
        \/ rowCount' = rowCount /\ rest = {}
    BY <1>2 DEF FetchExtraRow, Exhausted, PageFull, scanVars
  <1>4. ResumeSafe' /\ PutDone'
    BY <1>1 DEF IInv, ResumeSafe, PutDone
  <1>5. TokenSafe'
    BY <1>1 DEF IInv, TokenSafe, Held
  <1>6. ScanOrder'
    <2>1. rowCount' > 0 => lastRow \in page
      BY <1>1, <1>2, <1>3 DEF IInv, ScanOrder
    <2> QED
      BY <1>1, <2>1 DEF IInv, ScanOrder
  <1>7. ScanCovers'
    BY <1>1 DEF IInv, ScanCovers
  <1>8. ScanCount'
    <2>1. CASE rowCount' = limit + 1
      BY <1>1, <2>1 DEF ScanCount
    <2>2. CASE rowCount' = rowCount /\ rest = {}
      <3>1. Cardinality(rest) = 0
        BY <2>2, FS_EmptySet
      <3>2. ScanWhole
        BY <1>1, <1>2, <3>1 DEF IInv, ScanCount
      <3>3. ScanWhole'
        BY <1>1, <3>2 DEF ScanWhole
      <3> QED
        BY <1>1, <1>2, <2>2, <3>3 DEF ScanCount
    <2> QED
      BY <1>3, <2>1, <2>2
  <1>9. ReplySafe'
    BY <1>1 DEF ReplySafe, AdvancePC
  <1> QED
    BY <1>4, <1>5, <1>6, <1>7, <1>8, <1>9 DEF IInv

(* runQuery answers with the last key of the page when it saw an extra row:  *)
(* that key is past the token, and no lasting row in between is left out.    *)
LEMMA ReturnStep ==
  ASSUME CursorListing, IInv, TypeOK', Return
  PROVE  IInv'
  <1>1. /\ pc = "drained" /\ pc' = "reply" /\ next' = ReturnedToken
        /\ UNCHANGED <<stable, token, popped, savedToken, savedPopped, store,
                        limit, rest, page, rowCount, lastRow>>
    BY DEF Return, dbVars, savedVars, scanVars
  <1>2. rowCount \in Nat /\ limit \in Nat \ {0} /\ token \in Nat
    BY PageSizeAssumption DEF IInv, TypeOK, Limits
  <1>3. page \subseteq Nat \ {0} /\ rest \subseteq Nat \ {0} /\ stable \subseteq Nat \ {0}
    BY ListingAssumption DEF IInv, TypeOK
  <1>4. Paged
    BY DEF Paged, CursorListing
  <1>5. ResumeSafe' /\ PutDone'
    BY <1>1 DEF IInv, ResumeSafe, PutDone
  <1>6. TokenSafe'
    BY <1>1 DEF IInv, TokenSafe, Held
  <1>7. ScanOrder' /\ ScanCovers' /\ ScanCount'
    BY <1>1 DEF ScanOrder, ScanCovers, ScanCount
  <1>8. ReplySafe'
    <2>1. CASE rowCount <= limit
      <3>1. next' = NoToken
        BY <1>1, <1>2, <2>1 DEF ReturnedToken, MorePages
      <3>2. rest = {} /\ ScanWhole
        BY <1>1, <1>2, <2>1 DEF IInv, ScanCount
      <3>3. ~popped
        BY <1>1 DEF IInv, ScanOrder
      <3> QED
        BY <1>1, <3>1, <3>2, <3>3 DEF ReplySafe, ScanWhole
    <2>2. CASE rowCount = limit + 1
      <3>1. next' = lastRow
        BY <1>1, <1>2, <1>4, <2>2 DEF ReturnedToken, MorePages, NextPageToken, CursorListing
      <3>2. /\ ~popped
            /\ lastRow \in page
            /\ \A q \in page, r \in rest : q < r
            /\ \A q \in page \cup rest : token < q
        BY <1>1, <1>2, <2>2 DEF IInv, ScanOrder
      <3>3. next' # NoToken /\ token < next'
        BY <1>3, <3>1, <3>2 DEF NoToken
      <3>4. ASSUME NEW r \in stable, token < r, r <= lastRow PROVE r \in page
        <4>1. r \in page \cup rest \/ \A q \in page \cup rest : q < r
          BY <1>1, <3>4 DEF IInv, ScanCovers
        <4>2. ~(lastRow < r) /\ lastRow \in page \cup rest
          BY <1>3, <3>2, <3>4
        <4>3. r \notin rest
          BY <3>2, <4>2
        <4> QED
          BY <4>1, <4>2, <4>3
      <3> QED
        BY <1>1, <3>1, <3>2, <3>3, <3>4 DEF ReplySafe
    <2> QED
      BY <1>1, <2>1, <2>2 DEF IInv, ScanCount
  <1> QED
    BY <1>5, <1>6, <1>7, <1>8 DEF IInv

(* Storing the page settles what the token already promised (syncResources), *)
(* or prepares what it is about to promise (entitlements, grants).           *)
LEMMA PutStep ==
  ASSUME CursorListing, IInv, TypeOK', Put
  PROVE  IInv'
  <1>1. /\ pc = PutPC /\ pc' = After(PutPC) /\ store' = store \cup page
        /\ UNCHANGED <<stable, token, popped, savedToken, savedPopped, advanceFirst, next, page>>
    BY DEF Put, dbVars, savedVars, scanVars
  <1>2. ResumeSafe'
    BY <1>1 DEF IInv, ResumeSafe
  <1>3. CASE advanceFirst
    <2>1. pc = "half" /\ pc' = "idle"
      BY <1>1, <1>3 DEF PutPC, After
    <2>2. TokenSafe'
      BY <1>1, <1>3, <2>1 DEF IInv, TokenSafe, Held
    <2> QED
      BY <1>2, <1>3, <2>1, <2>2
      DEF IInv, ScanOrder, ScanCovers, ScanCount, ReplySafe, PutDone, AdvancePC
  <1>4. CASE ~advanceFirst
    <2>1. pc = "reply" /\ pc' = "half"
      BY <1>1, <1>4 DEF PutPC, After
    <2>2. TokenSafe'
      BY <1>1, <1>4, <2>1 DEF IInv, TokenSafe, Held
    <2>3. ReplySafe'
      BY <1>1, <1>4, <2>1 DEF IInv, ReplySafe, AdvancePC
    <2>4. PutDone'
      BY <1>1, <2>1 DEF PutDone
    <2> QED
      BY <1>2, <2>1, <2>2, <2>3, <2>4 DEF IInv, ScanOrder, ScanCovers, ScanCount
  <1> QED
    BY <1>3, <1>4

(* Moving the token extends its promise by the page that was just answered.  *)
LEMMA AdvanceStep ==
  ASSUME CursorListing, IInv, TypeOK', Advance
  PROVE  IInv'
  <1>1. /\ pc = AdvancePC /\ pc' = After(AdvancePC)
        /\ UNCHANGED <<stable, savedToken, savedPopped, advanceFirst, next, page, store>>
    BY DEF Advance, dbVars, savedVars, scanVars
  <1>2. /\ ~popped
        /\ next = NoToken => popped' /\ token' = token
        /\ next # NoToken => ~popped' /\ token' = next
    BY <1>1 DEF Advance, IInv, ReplySafe
  <1>3. token \in Nat /\ token' \in Nat /\ stable \subseteq Nat
    BY ListingAssumption DEF IInv, TypeOK
  <1>4. \A r \in stable : popped' \/ r <= token' => r <= token \/ r \in page
    <2> SUFFICES ASSUME NEW r \in stable, popped' \/ r <= token', ~(r <= token)
                 PROVE  r \in page
      OBVIOUS
    <2>1. token < r
      BY <1>3
    <2>2. CASE next = NoToken
      BY <1>1, <2>1, <2>2 DEF IInv, ReplySafe
    <2>3. CASE next # NoToken
      BY <1>1, <1>2, <2>1, <2>3 DEF IInv, ReplySafe
    <2> QED
      BY <2>2, <2>3
  <1>5. ResumeSafe'
    BY <1>1 DEF IInv, ResumeSafe
  <1>6. CASE advanceFirst
    <2>1. pc = "reply" /\ pc' = "half"
      BY <1>1, <1>6 DEF AdvancePC, After
    <2>2. \A r \in stable : r <= token => r \in store
      BY <2>1 DEF IInv, TokenSafe, Held
    <2>3. TokenSafe'
      BY <1>1, <1>4, <1>6, <2>1, <2>2 DEF TokenSafe, Held
    <2> QED
      BY <1>1, <1>5, <1>6, <2>1, <2>3
      DEF IInv, ScanOrder, ScanCovers, ScanCount, ReplySafe, PutDone, AdvancePC
  <1>7. CASE ~advanceFirst
    <2>1. pc = "half" /\ pc' = "idle" /\ page \subseteq store
      BY <1>1, <1>7 DEF IInv, AdvancePC, After, PutDone
    <2>2. \A r \in stable : r <= token => r \in store
      BY <1>7, <2>1 DEF IInv, TokenSafe, Held
    <2>3. TokenSafe'
      BY <1>1, <1>4, <1>7, <2>1, <2>2 DEF TokenSafe, Held
    <2> QED
      BY <1>1, <1>5, <1>7, <2>1, <2>3
      DEF IInv, ScanOrder, ScanCovers, ScanCount, ReplySafe, PutDone, AdvancePC
  <1> QED
    BY <1>6, <1>7

(* Checkpoints, failures, retries and resumes only copy or drop state that   *)
(* is already safe.                                                          *)
LEMMA ControlStep ==
  ASSUME CursorListing, IInv, TypeOK',
         Checkpoint \/ Finish \/ Fail \/ Retry \/ Resume \/ RefuseSameToken
  PROVE  IInv'
  <1> USE DEF IInv, ResumeSafe, TokenSafe, Held, ScanOrder, ScanCovers, ScanCount,
              ReplySafe, PutDone, AdvancePC, dbVars, savedVars, scanVars, syncVars
  <1>1. CASE Checkpoint
    BY <1>1 DEF Checkpoint, CheckpointPlace
  <1>2. CASE Finish
    BY <1>2 DEF Finish
  <1>3. CASE Fail
    BY <1>3 DEF Fail
  <1>4. CASE Retry
    BY <1>4 DEF Retry, AfterTimeout
  <1>5. CASE Resume
    BY <1>5 DEF Resume
  <1>6. CASE RefuseSameToken
    BY <1>6 DEF RefuseSameToken
  <1> QED
    BY <1>1, <1>2, <1>3, <1>4, <1>5, <1>6

LEMMA IInvStep == CursorListing /\ IInv /\ [Next]_vars => IInv'
  <1> SUFFICES ASSUME CursorListing, IInv, [Next]_vars PROVE IInv'
    OBVIOUS
  <1>1. TypeOK'
    BY TypeStep DEF IInv
  <1>2. CASE UNCHANGED vars
    BY <1>2 DEF vars, dbVars, savedVars, scanVars, syncVars, IInv, TypeOK, ResumeSafe,
                TokenSafe, Held, ScanOrder, ScanCovers, ScanWhole, ScanCount, ReplySafe, PutDone,
                AdvancePC
  <1> QED
    BY <1>1, <1>2, WriteStep, QueryStep, FetchRowStep, LoopEndStep, ReturnStep, PutStep,
       AdvanceStep, ControlStep
    DEF Next, SyncStep, RunQuery

(* The inductive invariant of a cursor listing. *)
THEOREM CursorInvariant == CursorListing => (Spec => []IInv)
  <1> SUFFICES ASSUME CursorListing PROVE Spec => []IInv
    OBVIOUS
  <1>1. Init => IInv
    BY IInvInit
  <1>2. IInv /\ [Next]_vars => IInv'
    BY IInvStep
  <1> QED
    BY <1>1, <1>2, PTL DEF Spec

(* A cursor listing that reports its end has stored every row that was in    *)
(* the table from start to end.                                              *)
THEOREM CursorComplete == CursorListing => (Spec => []Complete)
  <1> SUFFICES ASSUME CursorListing PROVE Spec => []Complete
    OBVIOUS
  <1>1. IInv => Complete
    BY DEF IInv, Complete, TokenSafe, Held, PutDone
  <1> QED
    BY <1>1, CursorInvariant, PTL

(* No checkpoint of a cursor listing runs ahead of the store. *)
THEOREM CursorResumeSafe == CursorListing => (Spec => []ResumeSafe)
  <1> SUFFICES ASSUME CursorListing PROVE Spec => []ResumeSafe
    OBVIOUS
  <1>1. IInv => ResumeSafe
    BY DEF IInv
  <1> QED
    BY <1>1, CursorInvariant, PTL

(* The token of a running cursor listing only moves forward. *)
THEOREM CursorAdvances == CursorListing => (Spec => TokenAdvances)
  <1> SUFFICES ASSUME CursorListing PROVE Spec => TokenAdvances
    OBVIOUS
  <1>1. IInv /\ [Next]_vars => [pc # "stopped" /\ token' # token => token' > token]_vars
    <2> SUFFICES ASSUME IInv, Next, pc # "stopped", token' # token PROVE token' > token
      OBVIOUS
    <2>1. Advance
      BY DEF Next, SyncStep, RunQuery, Insert, Delete, Query, FetchRow, FetchExtraRow, Exhausted,
             Return, RefuseSameToken, Put, Finish, Resume, Checkpoint, Fail, Retry, syncVars
    <2>2. pc = AdvancePC /\ next # NoToken /\ token' = next
      BY <2>1 DEF Advance
    <2>3. token < next
      BY <2>2 DEF IInv, ReplySafe
    <2> QED
      BY <2>2, <2>3 DEF IInv, TypeOK
  <1> QED
    BY <1>1, CursorInvariant, PTL DEF Spec, TokenAdvances

(* A cursor listing implements the contract of an unpaged listing. *)
THEOREM CursorImplementsContract == CursorListing => (Spec => ImplementsContract)
  <1> SUFFICES ASSUME CursorListing PROVE Spec => ImplementsContract
    OBVIOUS
  <1>1. Init => Contract!Init
    BY DEF Init, Contract!Init
  <1>2. IInv /\ [Next]_vars => [Contract!Next]_(Contract!vars)
    <2> SUFFICES ASSUME IInv, [Next]_vars PROVE [Contract!Next]_(Contract!vars)
      OBVIOUS
    <2> USE DEF dbVars, savedVars, scanVars, syncVars, Contract!vars
    <2>1. ASSUME NEW r \in Keys, Insert(r) PROVE Contract!Next
      BY <2>1 DEF Insert, Contract!Next, Contract!Insert
    <2>2. ASSUME NEW r \in Keys, Delete(r) PROVE Contract!Next
      BY <2>2 DEF Delete, Contract!Next, Contract!Delete
    <2>3. CASE Put
      <3>1. page \in SUBSET ever /\ pc # "done" /\ pc' # "done"
        BY <2>3 DEF Put, PutPC, After, IInv, TypeOK
      <3> QED
        BY <2>3, <3>1 DEF Put, Contract!Next, Contract!Collect
    <2>4. CASE Finish
      <3>1. stable \subseteq store
        BY <2>4 DEF Finish, IInv, TokenSafe, Held
      <3> QED
        BY <2>4, <3>1 DEF Finish, Contract!Next, Contract!Finish
    <2>5. CASE RunQuery
      BY <2>5 DEF RunQuery, Query, FetchRow, FetchExtraRow, Exhausted, Return, RefuseSameToken
    <2>6. CASE Advance
      BY <2>6 DEF Advance, AdvancePC, After
    <2>7. CASE Resume \/ Checkpoint \/ Fail \/ Retry
      BY <2>7 DEF Resume, Checkpoint, CheckpointPlace, Fail, Retry, AfterTimeout
    <2>8. CASE UNCHANGED vars
      BY <2>8 DEF vars
    <2> QED
      BY <2>1, <2>2, <2>3, <2>4, <2>5, <2>6, <2>7, <2>8 DEF Next, SyncStep
  <1> QED
    BY <1>1, <1>2, CursorInvariant, PTL DEF Spec, ImplementsContract, Contract!Spec

-----------------------------------------------------------------------------
(* Without failures the sync is never stopped, and what it has stored lies   *)
(* behind the token, or behind the one it is about to take.                  *)
StoreBehind ==
    pc \in {"idle", "scan", "drained"} /\ ~popped => \A r \in store : r <= token

AnswerBehind ==
    pc \in {"reply", AdvancePC} /\ next # NoToken => \A r \in store \cup page : r <= next

MovedBehind ==
    pc = "half" /\ advanceFirst /\ ~popped => \A r \in store \cup page : r <= token

FreshPage == pc \in {"reply", PutPC} => page \cap store = {}

OnceInv ==
    failures = 0 => pc # "stopped" /\ StoreBehind /\ AnswerBehind /\ MovedBehind /\ FreshPage

LEMMA OnceInit == Init => OnceInv
  BY DEF Init, OnceInv, StoreBehind, AnswerBehind, MovedBehind, FreshPage, AdvancePC, PutPC

(* A cursor page with an extra row ends past its token, so that the          *)
(* connector builder never refuses it.                                       *)
LEMMA NeverRefused == CursorListing /\ IInv => ~RefuseSameToken
  <1> SUFFICES ASSUME CursorListing, IInv, pc = "drained", token # NoToken, ReturnedToken = token
               PROVE  FALSE
    BY DEF RefuseSameToken, SameToken
  <1>1. MorePages /\ ReturnedToken = lastRow
    BY DEF ReturnedToken, NextPageToken, CursorListing
  <1>2. rowCount > 0
    BY <1>1, PageSizeAssumption DEF MorePages, IInv, TypeOK, Limits
  <1>3. token < lastRow
    BY <1>2 DEF IInv, ScanOrder
  <1> QED
    BY <1>1, <1>3 DEF IInv, TypeOK

(* The page that is answered lies between the token and the next one.        *)
LEMMA OnceReturn ==
  ASSUME CursorListing, IInv, OnceInv, Return, failures' = 0
  PROVE  OnceInv'
  <1>1. /\ pc = "drained" /\ pc' = "reply" /\ next' = ReturnedToken
        /\ UNCHANGED <<token, popped, store, advanceFirst, limit, page, rowCount, lastRow, failures>>
    BY DEF Return, savedVars, scanVars
  <1>2. ~popped /\ \A q \in page : token < q /\ q <= lastRow
    BY <1>1 DEF IInv, ScanOrder
  <1>3. \A r \in store : r <= token
    BY <1>1, <1>2 DEF OnceInv, StoreBehind
  <1>4. store \subseteq Nat /\ page \subseteq Nat /\ token \in Nat /\ lastRow \in Nat
    BY ListingAssumption DEF IInv, TypeOK, NoToken
  <1>5. page \cap store = {}
    BY <1>2, <1>3, <1>4
  <1>6. next' # NoToken => next' = lastRow /\ lastRow \in page
    <2> SUFFICES ASSUME next' # NoToken PROVE next' = lastRow /\ lastRow \in page
      OBVIOUS
    <2>1. MorePages /\ next' = lastRow
      BY <1>1 DEF ReturnedToken, NextPageToken, CursorListing
    <2>2. rowCount > 0
      BY <2>1, PageSizeAssumption DEF MorePages, IInv, TypeOK, Limits
    <2> QED
      BY <1>1, <2>1, <2>2 DEF IInv, ScanOrder
  <1>7. next' # NoToken => \A r \in store \cup page : r <= next'
    BY <1>2, <1>3, <1>4, <1>6
  <1> QED
    BY <1>1, <1>5, <1>7 DEF OnceInv, StoreBehind, AnswerBehind, MovedBehind, FreshPage

LEMMA OnceStep == CursorListing /\ IInv /\ OnceInv /\ [Next]_vars => OnceInv'
  <1> SUFFICES ASSUME CursorListing, IInv, OnceInv, [Next]_vars, failures' = 0
               PROVE  OnceInv'
    BY DEF OnceInv
  <1>1. failures = 0 /\ ~Fail /\ ~Retry /\ ~Resume /\ ~RefuseSameToken
    <2>1. failures \in Nat
      BY ListingAssumption DEF IInv, TypeOK
    <2>2. ~Fail /\ ~Retry
      BY <2>1 DEF Fail, Retry
    <2>3. UNCHANGED failures
      BY <2>2 DEF Next, SyncStep, RunQuery, Insert, Delete, Query, FetchRow, FetchExtraRow,
         Exhausted, Return, RefuseSameToken, Put, Advance, Finish, Resume, Checkpoint, syncVars, vars
    <2> QED
      BY <2>2, <2>3, NeverRefused DEF OnceInv, Resume
  <1> USE <1>1
      DEF OnceInv, StoreBehind, AnswerBehind, MovedBehind, FreshPage, PutPC, AdvancePC, After,
          dbVars, savedVars, scanVars, syncVars
  <1>2. ASSUME NEW r \in Keys, Insert(r) \/ Delete(r) PROVE OnceInv'
    BY <1>2 DEF Insert, Delete
  <1>3. ASSUME NEW size \in Sizes, Query(size) PROVE OnceInv'
    BY <1>3 DEF Query
  <1>4. ASSUME NEW r \in Keys, FetchRow(r) PROVE OnceInv'
    BY <1>4 DEF FetchRow
  <1>5. CASE FetchExtraRow \/ Exhausted
    BY <1>5 DEF FetchExtraRow, Exhausted
  <1>6. CASE Return
    BY <1>6, OnceReturn
  <1>7. CASE Put
    BY <1>7 DEF Put
  <1>8. CASE Advance
    BY <1>8 DEF Advance
  <1>9. CASE Finish \/ Checkpoint
    BY <1>9 DEF Finish, Checkpoint, CheckpointPlace
  <1>10. CASE UNCHANGED vars
    BY <1>10 DEF vars
  <1> QED
    BY <1>2, <1>3, <1>4, <1>5, <1>6, <1>7, <1>8, <1>9, <1>10 DEF Next, SyncStep, RunQuery

(* A cursor listing that meets no failure stores no row twice, whatever is   *)
(* inserted and deleted around its page boundaries.                          *)
THEOREM CursorEachRowOnce == CursorListing => (Spec => []EachRowOnce)
  <1> SUFFICES ASSUME CursorListing PROVE Spec => []EachRowOnce
    OBVIOUS
  <1>1. OnceInv => EachRowOnce
    BY DEF OnceInv, FreshPage, EachRowOnce
  <1>2. IInv /\ OnceInv /\ [Next]_vars => OnceInv'
    BY OnceStep
  <1> QED
    BY <1>1, <1>2, OnceInit, CursorInvariant, PTL DEF Spec

-----------------------------------------------------------------------------
(* A query that mentions neither ?<Cursor> nor ?<Offset>, or has no           *)
(* pagination at all, returns its first rows whatever the page token says.   *)
StartsOver == Tokens \cap {"cursor", "offset"} = {}

TableHeld ==
    /\ savedPopped => stable \subseteq store
    /\ popped /\ pc # "stopped" => stable \subseteq Held

(* Either the result is the whole table, or it shows that there is more. *)
TableScanned ==
    /\ pc \in {"scan", "drained"} /\ rowCount > 0 => lastRow # NoToken
    /\ pc = "scan" =>
          /\ Paged => rowCount <= limit
          /\ \/ stable \subseteq page \cup rest
             \/ Paged /\ rowCount + Cardinality(rest) = limit + 1
    /\ pc = "drained" => MorePages \/ stable \subseteq page

TableReplied ==
    /\ pc \in {AdvancePC, "reply"} /\ next = NoToken => stable \subseteq page
    /\ pc = "half" /\ ~advanceFirst => page \subseteq store
    /\ pc = "done" => popped

TableInv == TypeOK /\ TableHeld /\ TableScanned /\ TableReplied

LEMMA TableInit == Init => TableInv
  <1> SUFFICES ASSUME Init PROVE TableInv
    OBVIOUS
  <1>1. /\ TypeOK /\ pc = "idle" /\ ~popped /\ ~savedPopped
        /\ AdvancePC \in {"reply", "half"}
    BY TypeInit DEF Init, AdvancePC
  <1> QED
    BY <1>1 DEF TableInv, TableHeld, TableScanned, TableReplied

LEMMA TableWrite ==
  ASSUME TableInv, TypeOK', NEW r \in Keys, Insert(r) \/ Delete(r)
  PROVE  TableInv'
  <1>1. stable' \subseteq stable
    BY DEF Insert, Delete
  <1>2. UNCHANGED <<savedVars, scanVars, syncVars, pc>>
    BY DEF Insert, Delete
  <1> USE DEF savedVars, scanVars, syncVars
  <1>3. TableHeld'
    BY <1>1, <1>2 DEF TableInv, TableHeld, Held
  <1>4. TableScanned'
    BY <1>1, <1>2 DEF TableInv, TableScanned, MorePages
  <1>5. TableReplied'
    BY <1>1, <1>2 DEF TableInv, TableReplied, AdvancePC
  <1> QED
    BY <1>3, <1>4, <1>5 DEF TableInv

(* Without a limit the result is the table; with one it has limit + 1 rows,  *)
(* or is the table.                                                          *)
LEMMA TableQuery ==
  ASSUME StartsOver, TableInv, TypeOK', NEW size \in Sizes, Query(size)
  PROVE  TableInv'
  <1>1. PICK S \in SUBSET rows : IsResult(S, rows, token, limit') /\ rest' = S
    BY DEF Query
  <1>2. Cut(S, rows, limit')
    <2>1. PICK D \in SUBSET rows : D = {} /\ Cut(S, Selected(rows, D, CursorOf(token)), limit')
      BY <1>1 DEF IsResult, StartsOver
    <2>2. Selected(rows, {}, CursorOf(token)) = rows
      BY DEF Selected, StartsOver
    <2> QED
      BY <2>1, <2>2
  <1>3. /\ page' = {} /\ rowCount' = 0 /\ pc = "idle" /\ pc' = "scan" /\ ~popped
        /\ UNCHANGED <<stable, popped, savedPopped, advanceFirst, store, next>>
    BY DEF Query, dbVars, savedVars, syncVars
  <1>4. limit' \in Nat \ {0} /\ stable \subseteq rows
    BY PageSizeAssumption DEF TableInv, TypeOK, Limits
  <1>5. \/ S = rows
        \/ Paged /\ Cardinality(S) = limit' + 1
    <2>1. CASE "limit" \in Tokens
      BY <1>2, <2>1, QueryAssumption DEF Cut, LimitValue, Paged
    <2>2. CASE "limit" \notin Tokens
      BY <1>2, <2>2 DEF Cut
    <2> QED
      BY <2>1, <2>2
  <1>6. TableHeld'
    BY <1>3 DEF TableInv, TableHeld
  <1>7. TableScanned'
    <2>1. CASE S = rows
      BY <1>1, <1>3, <1>4, <2>1 DEF TableScanned
    <2>2. CASE Paged /\ Cardinality(S) = limit' + 1
      BY <1>1, <1>3, <1>4, <2>2 DEF TableScanned
    <2> QED
      BY <1>5, <2>1, <2>2
  <1>8. TableReplied'
    BY <1>3 DEF TableReplied, AdvancePC
  <1> QED
    BY <1>6, <1>7, <1>8 DEF TableInv

LEMMA TableFetch ==
  ASSUME TableInv, TypeOK', NEW r \in Keys, FetchRow(r)
  PROVE  TableInv'
  <1>1. /\ pc = "scan" /\ pc' = "scan" /\ r \in rest /\ ~PageFull
        /\ rest' = rest \ {r} /\ page' = page \cup {r} /\ lastRow' = r
        /\ rowCount' = rowCount + 1 /\ limit' = limit
        /\ UNCHANGED <<stable, popped, savedPopped, store, next, advanceFirst>>
    BY DEF FetchRow, dbVars, savedVars, syncVars
  <1>2. rowCount \in Nat /\ limit \in Nat /\ (Paged => rowCount + 1 <= limit)
    BY <1>1, PageSizeAssumption DEF PageFull, TableInv, TypeOK, Limits
  <1>3. Cardinality(rest') = Cardinality(rest) - 1 /\ Cardinality(rest) \in Nat
    <2>1. IsFiniteSet(rest)
      BY ListingAssumption, FS_Subset DEF TableInv, TypeOK
    <2> QED
      BY <1>1, <2>1, FS_RemoveElement, FS_CardinalityType
  <1>4. TableHeld'
    BY <1>1 DEF TableInv, TableHeld, Held
  <1>5. TableScanned'
    <2>1. r # NoToken
      BY ListingAssumption DEF NoToken
    <2>2. page' \cup rest' = page \cup rest
      BY <1>1
    <2>3. \/ stable \subseteq page \cup rest
          \/ Paged /\ rowCount + Cardinality(rest) = limit + 1
      BY <1>1 DEF TableInv, TableScanned
    <2>4. rowCount + Cardinality(rest) = limit + 1 => rowCount' + Cardinality(rest') = limit' + 1
      BY <1>1, <1>2, <1>3
    <2> QED
      BY <1>1, <1>2, <2>1, <2>2, <2>3, <2>4 DEF TableScanned
  <1>6. TableReplied'
    BY <1>1 DEF TableReplied, AdvancePC
  <1> QED
    BY <1>4, <1>5, <1>6 DEF TableInv

(* The loop ends with the extra row, or with a result that was the table: a  *)
(* result that shows that there is more has a row left at the page's end.    *)
LEMMA TableLoopEnd ==
  ASSUME TableInv, TypeOK', FetchExtraRow \/ Exhausted
  PROVE  TableInv'
  <1>1. /\ pc = "scan" /\ pc' = "drained"
        /\ UNCHANGED <<stable, popped, savedPopped, advanceFirst, store, next,
                        limit, rest, page, lastRow>>
    BY DEF FetchExtraRow, Exhausted, dbVars, savedVars, syncVars, scanVars
  <1>2. /\ rowCount \in Nat /\ limit \in Nat \ {0}
        /\ Paged => rowCount <= limit
    BY <1>1, PageSizeAssumption DEF TableInv, TypeOK, Limits, TableScanned
  <1>3. \/ Paged /\ rowCount' = rowCount + 1 /\ rowCount >= limit
        \/ rowCount' = rowCount /\ rest = {}
    BY <1>2 DEF FetchExtraRow, Exhausted, PageFull, scanVars
  <1>4. TableHeld'
    BY <1>1 DEF TableInv, TableHeld, Held
  <1>5. TableScanned'
    <2>1. CASE Paged /\ rowCount' = rowCount + 1 /\ rowCount >= limit
      BY <1>1, <1>2, <2>1 DEF TableInv, TableScanned, MorePages
    <2>2. CASE rowCount' = rowCount /\ rest = {}
      <3>1. Cardinality(rest) = 0
        BY <2>2, FS_EmptySet
      <3>2. stable \subseteq page
        BY <1>1, <1>2, <2>2, <3>1 DEF TableInv, TableScanned
      <3> QED
        BY <1>1, <2>2, <3>2 DEF TableInv, TableScanned
    <2> QED
      BY <1>3, <2>1, <2>2
  <1>6. TableReplied'
    BY <1>1 DEF TableReplied, AdvancePC
  <1> QED
    BY <1>4, <1>5, <1>6 DEF TableInv

(* The empty token is answered only when no row was seen past the page. *)
LEMMA TableReturn ==
  ASSUME TableInv, TypeOK', Return
  PROVE  TableInv'
  <1>1. /\ pc = "drained" /\ pc' = "reply" /\ next' = ReturnedToken
        /\ UNCHANGED <<stable, popped, savedPopped, advanceFirst, store, limit, page, lastRow>>
    BY DEF Return, dbVars, savedVars, scanVars
  <1>2. MorePages => ReturnedToken # NoToken
    <2> SUFFICES ASSUME MorePages PROVE ReturnedToken # NoToken
      OBVIOUS
    <2>1. /\ rowCount > 0 /\ limit \in Nat \ {0} /\ token \in Nat
          /\ lastRow # NoToken
      BY <1>1, PageSizeAssumption DEF TableInv, TypeOK, Limits, TableScanned, MorePages
    <2>2. token * limit \in Nat
      BY <2>1
    <2>3. token * limit + limit # 0 /\ 0 * limit + limit # 0
      BY <2>1, <2>2
    <2> QED
      BY <2>1, <2>3 DEF ReturnedToken, NextPageToken, OffsetOf, NoToken
  <1>3. next' = NoToken => stable \subseteq page
    BY <1>1, <1>2 DEF TableInv, TableScanned
  <1>4. TableHeld'
    BY <1>1 DEF TableInv, TableHeld, Held
  <1>5. TableScanned' /\ TableReplied'
    BY <1>1, <1>3 DEF TableScanned, TableReplied
  <1> QED
    BY <1>4, <1>5 DEF TableInv

LEMMA TableDriver ==
  ASSUME TableInv, TypeOK',
         Put \/ Advance \/ Checkpoint \/ Finish \/ Fail \/ Retry \/ Resume \/ RefuseSameToken
  PROVE  TableInv'
  <1> USE DEF TableInv, TableHeld, Held, TableScanned, TableReplied, AdvancePC,
              dbVars, savedVars, scanVars, syncVars
  <1>1. CASE Put
    BY <1>1 DEF Put, PutPC, After
  <1>2. CASE Advance
    BY <1>2 DEF Advance, After
  <1>3. CASE Checkpoint
    BY <1>3 DEF Checkpoint, CheckpointPlace
  <1>4. CASE Finish
    BY <1>4 DEF Finish
  <1>5. CASE Fail
    BY <1>5 DEF Fail
  <1>6. CASE Retry
    BY <1>6 DEF Retry, AfterTimeout
  <1>7. CASE Resume
    BY <1>7 DEF Resume
  <1>8. CASE RefuseSameToken
    BY <1>8 DEF RefuseSameToken
  <1> QED
    BY <1>1, <1>2, <1>3, <1>4, <1>5, <1>6, <1>7, <1>8

LEMMA TableStep == StartsOver /\ TableInv /\ [Next]_vars => TableInv'
  <1> SUFFICES ASSUME StartsOver, TableInv, [Next]_vars PROVE TableInv'
    OBVIOUS
  <1>1. TypeOK'
    BY TypeStep DEF TableInv
  <1>2. CASE UNCHANGED vars
    BY <1>2 DEF vars, dbVars, savedVars, scanVars, syncVars, TableInv, TypeOK, TableHeld, Held,
                TableScanned, TableReplied, MorePages, AdvancePC
  <1> QED
    BY <1>1, <1>2, TableWrite, TableQuery, TableFetch, TableLoopEnd, TableReturn, TableDriver
    DEF Next, SyncStep, RunQuery

(* A listing whose query starts over with every page, or has no pagination,  *)
(* may go on for ever or be refused, but it never reports a false end: when  *)
(* it does report one, every row that was there throughout is stored, for    *)
(* every strategy and order.                                                 *)
THEOREM UnboundComplete == StartsOver => (Spec => []Complete)
  <1> SUFFICES ASSUME StartsOver PROVE Spec => []Complete
    OBVIOUS
  <1>1. TableInv /\ [Next]_vars => TableInv'
    BY TableStep
  <1>2. TableInv => Complete
    BY DEF TableInv, TableHeld, Held, TableReplied, Complete
  <1> QED
    BY <1>1, <1>2, TableInit, PTL DEF Spec
=============================================================================
