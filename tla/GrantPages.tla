----------------------------- MODULE GrantPages -----------------------------
(***************************************************************************)
(* The grants of one resource: SQLSyncer.Grants works through every        *)
(* configured grants query, one page a call, and keeps its place in a      *)
(* pagination.Bag that travels as the page token.  The sync driver stores  *)
(* each page, then moves its token; it may stop and resume from its last   *)
(* checkpoint.                                                             *)
(*                                                                         *)
(* A bag is the stack of its page states, the current one last: a query    *)
(* and its own page token.  The empty bag is marshalled as the empty       *)
(* token.                                                                  *)
(***************************************************************************)
EXTENDS Integers, FiniteSets, SequencesExt

CONSTANTS
    PageCount,    \* the pages of each grants query; the queries are its domain
    MaxFailures   \* bound: failures and interruptions

Queries == DOMAIN PageCount

ASSUME GrantPagesAssumption ==
    /\ PageCount \in Seq(Nat \ {0})
    /\ MaxFailures \in Nat

Pages == UNION {{q} \X (1 .. PageCount[q]) : q \in Queries}

VARIABLES
    pc,                        \* "idle", "reply", "half", "stopped" or "done"
    token, popped,             \* the driver's action: page token, finished or not
    savedToken, savedPopped,   \* its last checkpoint
    page, next,                \* the answer of Grants: its grants and its token
    store,                     \* pages stored
    failures

saved == <<savedToken, savedPopped>>
vars == <<pc, token, popped, saved, page, next, store, failures>>

-----------------------------------------------------------------------------
(* pagination.Bag *)
Push(bag, state) == Append(bag, state)
Current(bag) == Last(bag)

\* Faulty variant: a query without further pages goes back in the bag.
BagNextKeepsFinished(bag, pageToken) ==
    Push(Front(bag), [query |-> Current(bag).query, token |-> pageToken])

\* Faulty variant: the current state stays under its successor.
BagNextWithoutPop(bag, pageToken) ==
    IF pageToken = 0 THEN Front(bag)
    ELSE Push(bag, [query |-> Current(bag).query, token |-> pageToken])

\* Faulty variant: the state below the current one is lost with it.
BagNextDropsBelow(bag, pageToken) ==
    IF pageToken = 0
    THEN IF Len(bag) > 1 THEN Front(Front(bag)) ELSE <<>>
    ELSE Push(Front(bag), [query |-> Current(bag).query, token |-> pageToken])

(* Next: pop the current state and push it back with its new token, if any. *)
BagNext(bag, pageToken) ==
    IF pageToken = 0 THEN Front(bag)
    ELSE Push(Front(bag), [query |-> Current(bag).query, token |-> pageToken])

(* A first call puts every query in the bag, from its first page. *)
AllQueries == [q \in Queries |-> [query |-> q, token |-> 0]]

Opened(bag) == IF bag = <<>> THEN AllQueries ELSE bag

(* The page token of a query that has shown t of its pages, as runQuery      *)
(* returns it after one page more; 0 is the empty token.                     *)
QueryToken(state) ==
    IF state.token + 1 < PageCount[state.query] THEN state.token + 1 ELSE 0

Init ==
    /\ pc = "idle"
    /\ token = <<>> /\ popped = FALSE
    /\ savedToken = <<>> /\ savedPopped = FALSE
    /\ page = {} /\ next = <<>>
    /\ store = {}
    /\ failures = 0

(* SQLSyncer.Grants: one page of the current query; without grants queries   *)
(* the answer is empty.                                                      *)
Grants ==
    /\ pc = "idle" /\ ~popped
    /\ LET bag == Opened(token)
           current == Current(bag)
       IN  IF Queries = {}
           THEN page' = {} /\ next' = <<>>
           ELSE /\ page' = {<<current.query, current.token + 1>>}
                /\ next' = BagNext(bag, QueryToken(current))
    /\ pc' = "reply"
    /\ UNCHANGED <<token, popped, saved, store, failures>>

\* Faulty variant: an error in the middle of storing a page is ignored.
PutLosesPage == store

PutPage == store \cup page

(* syncGrantsForResource: PutGrants, then NextPage or FinishAction. *)
Put ==
    /\ pc = "reply"
    /\ store' = PutPage
    /\ pc' = "half"
    /\ UNCHANGED <<token, popped, saved, page, next, failures>>

Advance ==
    /\ pc = "half"
    /\ IF next = <<>>
       THEN popped' = TRUE /\ UNCHANGED token
       ELSE token' = next /\ UNCHANGED popped
    /\ pc' = "idle"
    /\ UNCHANGED <<saved, page, next, store, failures>>

Checkpoint ==
    /\ pc = "idle"
    /\ saved # <<token, popped>>
    /\ savedToken' = token /\ savedPopped' = popped
    /\ UNCHANGED <<pc, token, popped, page, next, store, failures>>

Finish ==
    /\ pc = "idle" /\ popped
    /\ pc' = "done"
    /\ UNCHANGED <<token, popped, saved, page, next, store, failures>>

Fail ==
    /\ failures < MaxFailures
    /\ pc \in {"idle", "reply", "half"}
    /\ pc' = "stopped"
    /\ failures' = failures + 1
    /\ UNCHANGED <<token, popped, saved, page, next, store>>

\* Faulty variant: a resumed sync takes its action for finished.
ResumedFinished == savedPopped \/ savedToken # <<>>

Resumed == savedPopped

Resume ==
    /\ pc = "stopped"
    /\ token' = savedToken /\ popped' = Resumed
    /\ pc' = "idle"
    /\ UNCHANGED <<saved, page, next, store, failures>>

SyncStep == Grants \/ Put \/ Advance \/ Finish \/ Resume

Next == SyncStep \/ Checkpoint \/ Fail

Spec == Init /\ [][Next]_vars

(* One loop, and a stopped sync is run again. *)
FairSpec == Spec /\ WF_vars(SyncStep)

-----------------------------------------------------------------------------
(* The pages that a bag leaves to be read. *)
Remaining(bag) ==
    {x \in Pages : \E i \in DOMAIN bag : bag[i].query = x[1] /\ bag[i].token < x[2]}

(* A page token speaks for the pages it does not lead to any more: they are  *)
(* stored, those of the queries under the current one and of its own, at     *)
(* every point a sync can resume from.                                       *)
BagResumeSafe ==
    \A x \in Pages :
        \/ x \in store
        \/ ~savedPopped /\ x \in Remaining(Opened(savedToken))

(* A query is in the bag at most once, and the queries under the current one *)
(* have not been started: no two of them are ever half read.                 *)
OneQueryAtATime ==
    \A bag \in {token, savedToken, next} :
        \A i \in DOMAIN bag :
            /\ \A j \in DOMAIN bag : bag[i].query = bag[j].query => i = j
            /\ bag[i].token > 0 => i = Len(bag)

Terminates == <>(pc = "done")

Contract == INSTANCE ListingContract
              WITH Keys <- Pages, rows <- Pages, stable <- Pages, ever <- Pages,
                   done <- (pc = "done")

(* The queries together are one listing: its end is reported only when every *)
(* page of every query is stored.                                            *)
ImplementsContract == Contract!Spec
=============================================================================
