------------------------------ MODULE Listing ------------------------------
(***************************************************************************)
(* One paginated listing of one table: the sync driver of baton-sdk asks   *)
(* the SQL syncer for a page (runQuery, row by row), stores it and         *)
(* advances its page token, until the syncer answers without a token.      *)
(* Meanwhile other clients of the database insert and delete rows; a page  *)
(* query, a row or a store operation may fail; the sync may stop and be    *)
(* run again from its last checkpoint.                                     *)
(***************************************************************************)
EXTENDS Paging

CONSTANTS
    Keys,          \* the primary keys rows can have
    Sizes,         \* the page sizes a request may carry (the sync driver sends 0)
    MaxWrites,     \* bound: writes by other clients of the database
    MaxFailures    \* bound: failures and interruptions of the sync

ASSUME ListingAssumption ==
    /\ Keys \subseteq Nat \ {0} /\ IsFiniteSet(Keys)
    /\ Sizes \subseteq Int
    /\ MaxWrites \in Nat /\ MaxFailures \in Nat

VARIABLES
    rows, stable, ever,        \* the table, and its history since the listing began
    pc,                        \* where the sync is
    token, popped,             \* its action: page token, and whether it is finished
    savedToken, savedPopped,   \* the last checkpoint of the two
    advanceFirst,              \* the token moves before the page is stored
                               \*   (syncResources), or after (entitlements, grants)
    limit,                     \* page size of the request being served
    rest,                      \* rows of the result that are not fetched yet
    page, rowCount, lastRow,   \* runQuery's locals
    next,                      \* the next page token it returned
    store,                     \* rows stored by the sync
    writes, failures           \* how much of the bounds is used up

dbVars == <<rows, stable, ever, writes>>
savedVars == <<savedToken, savedPopped, advanceFirst>>
scanVars == <<limit, rest, page, rowCount, lastRow>>
syncVars == <<token, popped, next, store, failures>>
vars == <<dbVars, savedVars, scanVars, syncVars, pc>>

PCs == {"idle", "scan", "drained", "reply", "half", "stopped", "done"}

Init ==
    /\ rows \in SUBSET Keys /\ stable = rows /\ ever = rows
    /\ pc = "idle"
    /\ token = NoToken /\ popped = FALSE
    /\ savedToken = NoToken /\ savedPopped = FALSE
    /\ advanceFirst \in BOOLEAN
    /\ limit = DefaultPageSize
    /\ rest = {} /\ page = {} /\ rowCount = 0 /\ lastRow = NoToken
    /\ next = NoToken
    /\ store = {}
    /\ writes = 0 /\ failures = 0

-----------------------------------------------------------------------------
(* The other clients of the database. *)
Insert(r) ==
    /\ writes < MaxWrites
    /\ r \notin rows
    /\ rows' = rows \cup {r} /\ ever' = ever \cup {r}
    /\ writes' = writes + 1
    /\ UNCHANGED <<stable, savedVars, scanVars, syncVars, pc>>

Delete(r) ==
    /\ writes < MaxWrites
    /\ r \in rows
    /\ rows' = rows \ {r} /\ stable' = stable \ {r}
    /\ writes' = writes + 1
    /\ UNCHANGED <<ever, savedVars, scanVars, syncVars, pc>>

-----------------------------------------------------------------------------
(* runQuery: the query, its row loop and its result. *)
Query(size) ==
    /\ pc = "idle" /\ ~popped
    /\ limit' = ClampPageSize(size)
    /\ \E S \in SUBSET rows :
          /\ IsResult(S, rows, token, limit')
          /\ rest' = S
    /\ page' = {} /\ rowCount' = 0 /\ lastRow' = NoToken
    /\ pc' = "scan"
    /\ UNCHANGED <<dbVars, savedVars, syncVars>>

\* Faulty variant: the row loop stops one row late.
PageFullLate == Paged /\ rowCount > limit

(* The row about to be fetched is the extra one, past the page. *)
PageFull == Paged /\ rowCount + 1 > limit

FetchRow(r) ==
    /\ pc = "scan"
    /\ r \in rest
    /\ Ordered => \A q \in rest : r <= q
    /\ ~PageFull
    /\ rest' = rest \ {r}
    /\ rowCount' = rowCount + 1
    /\ page' = page \cup {r}
    /\ lastRow' = r
    /\ UNCHANGED <<dbVars, savedVars, syncVars, limit, pc>>

FetchExtraRow ==
    /\ pc = "scan"
    /\ rest # {}
    /\ PageFull
    /\ rowCount' = rowCount + 1
    /\ pc' = "drained"
    /\ UNCHANGED <<dbVars, savedVars, syncVars, limit, rest, page, lastRow>>

Exhausted ==
    /\ pc = "scan"
    /\ rest = {}
    /\ pc' = "drained"
    /\ UNCHANGED <<dbVars, savedVars, syncVars, scanVars>>

\* Faulty variant: the last page is the one that is not full.
MorePagesWhenFull == Paged /\ rowCount >= limit

MorePages == Paged /\ rowCount > limit

ReturnedToken == IF MorePages THEN NextPageToken(token, limit, lastRow) ELSE NoToken

(* The connector builder refuses a page whose next token is its own token. *)
SameToken == token # NoToken /\ ReturnedToken = token

Return ==
    /\ pc = "drained"
    /\ ~SameToken
    /\ next' = ReturnedToken
    /\ pc' = "reply"
    /\ UNCHANGED <<dbVars, savedVars, scanVars, token, popped, store, failures>>

RefuseSameToken ==
    /\ pc = "drained"
    /\ SameToken
    /\ pc' = "stopped"
    /\ UNCHANGED <<dbVars, savedVars, scanVars, syncVars>>

-----------------------------------------------------------------------------
(* The sync driver.  It stores the page and moves its token in one of two   *)
(* orders: "half" is the moment between the two.                            *)
PutPC == IF advanceFirst THEN "half" ELSE "reply"
AdvancePC == IF advanceFirst THEN "reply" ELSE "half"
After(here) == IF here = "reply" THEN "half" ELSE "idle"

Put ==
    /\ pc = PutPC
    /\ store' = store \cup page
    /\ pc' = After(PutPC)
    /\ UNCHANGED <<dbVars, savedVars, scanVars, token, popped, next, failures>>

Advance ==
    /\ pc = AdvancePC
    /\ IF next = NoToken
       THEN popped' = TRUE /\ UNCHANGED token
       ELSE token' = next /\ UNCHANGED popped
    /\ pc' = After(AdvancePC)
    /\ UNCHANGED <<dbVars, savedVars, scanVars, next, store, failures>>

\* Faulty variant: the state is checkpointed wherever the sync happens to be.
CheckpointAnywhere == {"idle", "half"}

(* The checkpoint is taken at the head of the sync's loop only. *)
CheckpointPlace == {"idle"}

(* Taken or not: checkpoints less than minCheckpointInterval apart are skipped. *)
Checkpoint ==
    /\ pc \in CheckpointPlace
    /\ <<savedToken, savedPopped>> # <<token, popped>>
    /\ savedToken' = token /\ savedPopped' = popped
    /\ UNCHANGED <<dbVars, advanceFirst, scanVars, syncVars, pc>>

Finish ==
    /\ pc = "idle" /\ popped
    /\ pc' = "done"
    /\ UNCHANGED <<dbVars, savedVars, scanVars, syncVars>>

(* An error of the query, of a row, of the mapping of a row, or of the       *)
(* store, and an interruption: runQuery drops its page, the sync returns.    *)
Fail ==
    /\ failures < MaxFailures
    /\ pc \in {"idle", "scan", "drained", "reply", "half"}
    /\ failures' = failures + 1
    /\ pc' = "stopped"
    /\ UNCHANGED <<dbVars, savedVars, scanVars, token, popped, next, store>>

\* Faulty variant: a page that failed half way is taken for a whole one.
AfterTimeoutKeepPage == "reply"

AfterTimeout == "idle"

(* A page whose query ran into a deadline is asked for again, in place. *)
Retry ==
    /\ failures < MaxFailures
    /\ pc \in {"scan", "drained"}
    /\ failures' = failures + 1
    /\ pc' = AfterTimeout
    /\ UNCHANGED <<dbVars, savedVars, scanVars, token, popped, next, store>>

(* The sync is run again: StartSync finds it unfinished. *)
Resume ==
    /\ pc = "stopped"
    /\ token' = savedToken /\ popped' = savedPopped
    /\ pc' = "idle"
    /\ UNCHANGED <<dbVars, savedVars, scanVars, next, store, failures>>

-----------------------------------------------------------------------------
RunQuery ==
    \/ \E size \in Sizes : Query(size)
    \/ \E r \in Keys : FetchRow(r)
    \/ FetchExtraRow \/ Exhausted \/ Return \/ RefuseSameToken

SyncStep == RunQuery \/ Put \/ Advance \/ Finish \/ Resume

Next ==
    \/ \E r \in Keys : Insert(r) \/ Delete(r)
    \/ SyncStep
    \/ Checkpoint \/ Fail \/ Retry

Spec == Init /\ [][Next]_vars

(* The sync is one loop, and a stopped sync is run again; nothing forces a   *)
(* write, a checkpoint, or a failure.                                        *)
FairSpec == Spec /\ WF_vars(SyncStep)

-----------------------------------------------------------------------------
TypeOK ==
    /\ rows \subseteq Keys /\ stable \subseteq rows /\ rows \subseteq ever /\ ever \subseteq Keys
    /\ pc \in PCs
    /\ token \in Nat /\ popped \in BOOLEAN
    /\ savedToken \in Nat /\ savedPopped \in BOOLEAN /\ advanceFirst \in BOOLEAN
    /\ limit \in Limits
    /\ rest \subseteq ever /\ page \subseteq ever /\ store \subseteq ever
    /\ rowCount \in Nat /\ lastRow \in Keys \cup {NoToken}
    /\ next \in Nat
    /\ writes \in 0 .. MaxWrites /\ failures \in 0 .. MaxFailures

(* A sync that reports the end has stored every row that was in the table    *)
(* from its start to its end, whatever else was written, failed or was run   *)
(* again meanwhile (runQuery's extra row, nextPageToken, NextPage).          *)
Complete == pc = "done" => stable \subseteq store

(* A cursor checkpoint never runs ahead of the store: every lasting row up   *)
(* to the saved token is stored, so that a sync resumed from it misses none, *)
(* although syncResources moves its token before it stores the page.         *)
ResumeSafe ==
    \A r \in stable : savedPopped \/ r <= savedToken => r \in store

(* Without failures no row is stored twice, in spite of rows inserted and    *)
(* deleted around the page boundary: the extra row of a page is the first    *)
(* one of the next page, not one of both.                                    *)
EachRowOnce == failures = 0 /\ pc = PutPC => page \cap store = {}

(* A running sync never goes back: a token is only replaced by a later one,  *)
(* until a resume returns to the checkpoint.                                 *)
TokenAdvances == [][pc # "stopped" /\ token' # token => token' > token]_vars

(* However the pages are cut, a sync that is run again after each of its     *)
(* finitely many failures comes to its end.                                  *)
Terminates == <>(pc = "done")

Contract == INSTANCE ListingContract WITH done <- (pc = "done")

(* The paged listing, with its checkpoints and retries, does what the        *)
(* contract of an unpaged listing promises.                                  *)
ImplementsContract == Contract!Spec
=============================================================================
