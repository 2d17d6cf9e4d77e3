------------------------- MODULE ProvisioningProofs -------------------------
(***************************************************************************)
(* What Grant and Revoke guarantee for every set of calls and users, every *)
(* list of statements, every engine and pool, and any number of failures.  *)
(***************************************************************************)
EXTENDS Provisioning, FiniteSetTheorems, TLAPS

(* The statements of c before its next one. *)
Executed(c) == 1 .. (step[c] - 1)

(* A call on its way: nothing is answered.  With a transaction nothing is    *)
(* durable either, and the transaction holds what was executed; without one, *)
(* what was executed is durable.                                             *)
OnItsWay(c) ==
    /\ pc[c] \in {"idle", "begin", "exec", "commit", "unwind", "crashed"} => reply[c] = "none"
    /\ pc[c] \in {"idle", "begin", "exec", "commit"} /\ UsesTx(c) => durable[c] = {}
    /\ pc[c] \in {"idle", "begin"} => durable[c] = {}
    /\ pc[c] \in {"begin", "commit", "unwind"} => UsesTx(c)
    /\ pc[c] = "exec" =>
          /\ step[c] \in 1 .. Len(QueriesOf(c)) + 1
          /\ IF UsesTx(c) THEN pending[c] = Executed(c) ELSE durable[c] = Executed(c)
    /\ pc[c] \in {"idle", "begin"} => step[c] = 1
    /\ pc[c] = "commit" => pending[c] = Statements(c) /\ step[c] = Len(QueriesOf(c)) + 1

(* What is durable of a call, at any time. *)
Whole(c) ==
    /\ UsesTx(c) => durable[c] \in {{}, Statements(c)}
    /\ UsesTx(c) /\ pc[c] = "unwind" /\ c \notin lost => durable[c] = {}
    /\ ~UsesTx(c) => c \notin conns /\ pending[c] = {} /\ \E k \in 0 .. Len(QueriesOf(c)) : durable[c] = 1 .. k

(* A call given up while it waited for a connection never gets to a statement. *)
GivenUp(c) ==
    c \in early =>
        /\ c \in cancelled /\ UsesTx(c) /\ durable[c] = {} /\ reply[c] # "ok"
        /\ pc[c] \notin {"idle", "commit"}
        /\ pc[c] = "exec" => step[c] = 1

(* The parts of HonestReply and Released about one call. *)
Honest(c) ==
    /\ reply[c] = "ok" => durable[c] = Statements(c)
    /\ UsesTx(c) /\ reply[c] = "error" /\ c \notin lost => durable[c] = {}

Free(c) ==
    pc[c] \in {"idle", "begin", "done", "crashed"} => c \notin conns /\ pending[c] = {}

CallInv(c) == OnItsWay(c) /\ Whole(c) /\ GivenUp(c) /\ Honest(c) /\ Free(c)

(* The rows that open transactions have deleted are there, and those of one  *)
(* user are locked by one transaction.                                       *)
Held(c) ==
    /\ taken[c] <= access[UserOf[c]]
    /\ \A d \in Calls \ {c} : UserOf[d] = UserOf[c] => taken[c] = 0 \/ taken[d] = 0

RowsHeld == \A c \in Calls : Held(c)

PInv == TypeOK /\ RowsHeld /\ \A c \in Calls : CallInv(c)

-----------------------------------------------------------------------------
LEMMA QueriesType ==
  \A c \in Calls :
      /\ QueriesOf(c) \in Seq({"insert", "delete"})
      /\ Len(QueriesOf(c)) \in Nat \ {0}
      /\ IsFiniteSet(Statements(c))
  <1> SUFFICES ASSUME NEW c \in Calls
               PROVE  /\ QueriesOf(c) \in Seq({"insert", "delete"})
                      /\ Len(QueriesOf(c)) \in Nat \ {0}
                      /\ IsFiniteSet(Statements(c))
    OBVIOUS
  <1>1. QueriesOf(c) \in Seq({"insert", "delete"}) /\ QueriesOf(c) # <<>>
    BY ProvisioningAssumption DEF QueriesOf
  <1>2. Len(QueriesOf(c)) \in Nat \ {0}
    BY <1>1
  <1>3. IsFiniteSet(Statements(c))
    BY <1>2, FS_Interval DEF Statements
  <1> QED
    BY <1>1, <1>2, <1>3

LEMMA TypeInit == Init => TypeOK /\ RowsHeld
  <1> SUFFICES ASSUME Init PROVE TypeOK /\ RowsHeld
    OBVIOUS
  <1>1. access \in [Users -> Nat] /\ failures \in 0 .. MaxFailures
    BY ProvisioningAssumption DEF Init
  <1>2. pc \in [Calls -> PCs] /\ reply \in [Calls -> Replies]
    BY DEF Init, PCs, Replies
  <1>3. /\ pending \in [Calls -> SUBSET Nat] /\ durable \in [Calls -> SUBSET Nat]
        /\ \A c \in Calls : pending[c] \subseteq Statements(c)
    BY DEF Init
  <1>4. taken \in [Calls -> Nat] /\ added \in [Calls -> Nat] /\ unseen \in [Calls -> Nat]
    BY DEF Init
  <1>5. RowsHeld
    BY <1>1, ProvisioningAssumption DEF Init, RowsHeld, Held
  <1> QED
    BY <1>1, <1>2, <1>3, <1>4, <1>5 DEF Init, TypeOK

LEMMA FailureType == TypeOK /\ Failure => failures' \in 0 .. MaxFailures
  BY ProvisioningAssumption DEF TypeOK, Failure

-----------------------------------------------------------------------------
(* The four kinds of steps, by what they do to the database: a statement in  *)
(* a transaction, one without, a commit, or the end of transactions.         *)
ClosesAll ==
    /\ pending' = [c \in Calls |-> {}]
    /\ taken' = [c \in Calls |-> 0] /\ added' = [c \in Calls |-> 0]

Closes == UNCHANGED open \/ ClosesAll \/ \E c \in Calls : CloseTx(c)

Writes(c, n) ==
    /\ UsesTx(c) /\ Executable(c) /\ n \in Takes(c)
    /\ UNCHANGED <<access, unseen, durable>>
    /\ pending' = [pending EXCEPT ![c] = @ \cup {step[c]}]
    /\ taken' = [taken EXCEPT ![c] = @ + n]
    /\ added' = [added EXCEPT ![c] = IF NextQuery(c) = "insert" THEN @ + 1 ELSE 0]
    /\ \/ pc' = pc /\ step' = [step EXCEPT ![c] = @ + 1] /\ ~TooMany(RowsAffected(c, n))
       \/ pc' = [pc EXCEPT ![c] = "unwind"]

WritesBare(c, n) ==
    /\ ~UsesTx(c) /\ Executable(c) /\ n \in Takes(c)
    /\ ChangeRows(c, n, IF NextQuery(c) = "insert" THEN 1 ELSE 0)
    /\ durable' = [durable EXCEPT ![c] = @ \cup {step[c]}]
    /\ UNCHANGED <<pending, taken, added>>

Commits(c) ==
    /\ pc[c] = "commit" /\ pc'[c] \notin {"exec", "commit"}
    /\ ChangeRows(c, taken[c], added[c])
    /\ durable' = [durable EXCEPT ![c] = @ \cup pending[c]]
    /\ CloseTx(c) \/ ClosesAll

WritesNothing == UNCHANGED <<access, unseen, durable>> /\ Closes

LEMMA FourWays ==
  ASSUME TypeOK, [Next]_vars
  PROVE  \/ WritesNothing
         \/ \E c \in Calls : Commits(c) \/ \E n \in Takes(c) : Writes(c, n) \/ WritesBare(c, n)
  <1> USE DEF database, control, history, rows
  <1>1. CASE UNCHANGED vars
    BY <1>1 DEF vars, WritesNothing, Closes
  <1>2. CASE Crash
    <2>1. ClosesAll
      BY <1>2 DEF Crash, ClosesAll
    <2>2. CASE UNCHANGED <<rows, durable>>
      BY <2>1, <2>2 DEF WritesNothing, Closes
    <2>3. CASE ~UNCHANGED <<rows, durable>>
      <3>1. PICK c \in Calls :
               /\ pc[c] = "commit"
               /\ ChangeRows(c, taken[c], added[c])
               /\ durable' = [durable EXCEPT ![c] = @ \cup pending[c]]
        BY <1>2, <2>3 DEF Crash
      <3>2. pc'[c] = "crashed"
        BY <1>2, <3>1 DEF Crash
      <3> QED
        BY <2>1, <3>1, <3>2 DEF Commits
    <2> QED
      BY <2>2, <2>3
  <1>3. ASSUME NEW c \in Calls,
               Start(c) \/ Reject(c) \/ Begin(c) \/ BeginFails(c) \/ ExecFails(c) \/ EndLoop(c) \/ Cancel(c)
        PROVE  WritesNothing
    BY <1>3 DEF Start, Reject, Begin, BeginFails, ExecFails, EndLoop, Cancel, WritesNothing, Closes
  <1>4. ASSUME NEW c \in Calls, Rollback(c) PROVE WritesNothing
    BY <1>4 DEF Rollback, CommitNothing, WritesNothing, Closes
  <1>5. ASSUME NEW c \in Calls, Exec(c)
        PROVE  \E n \in Takes(c) : Writes(c, n) \/ WritesBare(c, n)
    BY <1>5 DEF Exec, ExecEffect, RunsInTx, Writes, WritesBare, open
  <1>6. ASSUME NEW c \in Calls, ExecTooMany(c)
        PROVE  \E n \in Takes(c) : Writes(c, n) \/ WritesBare(c, n)
    BY <1>6 DEF ExecTooMany, ExecEffect, RunsInTx, LeaveLoop, Goto, Writes, WritesBare, open
  <1>7. ASSUME NEW c \in Calls, ExecUnacknowledged(c) PROVE \E n \in Takes(c) : WritesBare(c, n)
    BY <1>7 DEF ExecUnacknowledged, ExecEffect, RunsInTx, WritesBare, open
  <1>8. ASSUME NEW c \in Calls, Commit(c) \/ CommitFails(c) PROVE WritesNothing \/ Commits(c)
    <2>1. pc[c] = "commit" /\ pc'[c] \in {"done", "unwind"}
      BY <1>8 DEF Commit, CommitFails, Answer, Goto, TypeOK
    <2>2. CASE CommitEffect(c)
      BY <2>1, <2>2 DEF CommitEffect, Commits
    <2>3. CASE CommitNothing(c)
      BY <2>3 DEF CommitNothing, WritesNothing, Closes
    <2> QED
      BY <1>8, <2>2, <2>3 DEF Commit, CommitFails
  <1> QED
    BY <1>1, <1>2, <1>3, <1>4, <1>5, <1>6, <1>7, <1>8 DEF Next, Step

(* What becomes of the transaction of one call when others end. *)
Keeps(c) == pending'[c] = pending[c] /\ taken'[c] = taken[c] /\ added'[c] = added[c]
Drops(c) == pending'[c] = {} /\ taken'[c] = 0 /\ added'[c] = 0

LEMMA ClosesType ==
  ASSUME TypeOK, Closes
  PROVE  /\ pending' \in [Calls -> SUBSET Nat]
         /\ taken' \in [Calls -> Nat] /\ added' \in [Calls -> Nat]
         /\ \A c \in Calls : Keeps(c) \/ Drops(c)
  <1>1. CASE UNCHANGED open
    BY <1>1 DEF open, TypeOK, Keeps
  <1>2. CASE ClosesAll
    BY <1>2 DEF ClosesAll, TypeOK, Drops
  <1>3. ASSUME NEW c \in Calls, CloseTx(c)
        PROVE  /\ pending' \in [Calls -> SUBSET Nat]
               /\ taken' \in [Calls -> Nat] /\ added' \in [Calls -> Nat]
               /\ \A d \in Calls : Keeps(d) \/ Drops(d)
    BY <1>3 DEF CloseTx, TypeOK, Keeps, Drops
  <1> QED
    BY <1>1, <1>2, <1>3 DEF Closes

LEMMA TakesType ==
  ASSUME TypeOK, NEW c \in Calls, NEW n \in Takes(c)
  PROVE  /\ n \in Nat /\ (taken[c] + n <= access[UserOf[c]] \/ n = 0)
         /\ NextQuery(c) = "insert" => n = 0
         /\ NextQuery(c) # "insert" =>
               access[UserOf[c]] - taken[c] - n <= unseen[c] /\ taken[c] + n <= access[UserOf[c]]
  <1>1. taken[c] \in Nat /\ access[UserOf[c]] \in Nat /\ unseen[c] \in Nat
    BY ProvisioningAssumption DEF TypeOK
  <1> QED
    BY <1>1 DEF Takes

(* The rows change only by what a transaction has deleted and inserted, and *)
(* never below zero.                                                         *)
LEMMA ChangeType ==
  ASSUME TypeOK, NEW c \in Calls, NEW r \in Nat, NEW i \in Nat,
         r <= access[UserOf[c]], ChangeRows(c, r, i)
  PROVE  /\ access' \in [Users -> Nat] /\ unseen' \in [Calls -> Nat]
         /\ access'[UserOf[c]] = access[UserOf[c]] - r + i
         /\ \A u \in Users \ {UserOf[c]} : access'[u] = access[u]
  <1>1. UserOf[c] \in Users /\ access[UserOf[c]] \in Nat
    BY ProvisioningAssumption DEF TypeOK
  <1>2. access[UserOf[c]] - r + i \in Nat
    BY <1>1
  <1>3. unseen' \in [Calls -> Nat]
    BY DEF ChangeRows, TypeOK
  <1> QED
    BY <1>1, <1>2, <1>3 DEF ChangeRows, TypeOK

LEMMA RowsStep ==
  ASSUME TypeOK, RowsHeld, [Next]_vars
  PROVE  /\ access' \in [Users -> Nat] /\ unseen' \in [Calls -> Nat]
         /\ taken' \in [Calls -> Nat] /\ added' \in [Calls -> Nat]
         /\ RowsHeld'
  <1> DEFINE Goal == /\ access' \in [Users -> Nat] /\ unseen' \in [Calls -> Nat]
                     /\ taken' \in [Calls -> Nat] /\ added' \in [Calls -> Nat]
                     /\ RowsHeld'
  <1>0. /\ \A c \in Calls : UserOf[c] \in Users /\ access[UserOf[c]] \in Nat
                            /\ taken[c] \in Nat /\ added[c] \in Nat /\ taken[c] <= access[UserOf[c]]
        /\ \A c \in Calls, d \in Calls :
              c # d /\ UserOf[d] = UserOf[c] => taken[c] = 0 \/ taken[d] = 0
    BY ProvisioningAssumption DEF TypeOK, RowsHeld, Held
  <1>1. CASE WritesNothing
    <2>1. \A c \in Calls : taken'[c] \in {taken[c], 0} /\ access'[UserOf[c]] = access[UserOf[c]]
      BY <1>1, ClosesType DEF WritesNothing, Keeps, Drops
    <2>2. RowsHeld'
      BY <1>0, <2>1 DEF RowsHeld, Held
    <2> QED
      BY <1>1, <2>2, ClosesType DEF WritesNothing, TypeOK
  <1>2. ASSUME NEW c \in Calls, NEW n \in Takes(c), Writes(c, n) PROVE Goal
    <2>1. n \in Nat /\ taken[c] + n <= access[UserOf[c]] /\ (NextQuery(c) = "insert" => n = 0)
      BY <1>0, <1>2, TakesType
    <2>2. /\ access' = access /\ unseen' = unseen
          /\ taken' \in [Calls -> Nat] /\ added' \in [Calls -> Nat]
          /\ taken'[c] = taken[c] + n /\ \A d \in Calls \ {c} : taken'[d] = taken[d]
      BY <1>0, <1>2, <2>1 DEF Writes, TypeOK
    <2>3. n > 0 => \A d \in Calls \ {c} : UserOf[d] = UserOf[c] => taken[d] = 0
      <3>1. NextQuery(c) \in {"insert", "delete"}
        BY <1>2, QueriesType DEF Writes, Executable, NextQuery, Statements
      <3>2. ~Blocked(c)
        BY <1>2 DEF Writes, Executable
      <3> QED
        BY <1>0, <2>1, <3>1, <3>2 DEF Blocked
    <2>4. RowsHeld'
      <3> SUFFICES ASSUME NEW d \in Calls PROVE Held(d)'
        BY DEF RowsHeld
      <3>1. taken'[d] <= access'[UserOf[d]]
        BY <1>0, <2>1, <2>2
      <3>2. ASSUME NEW e \in Calls \ {d}, UserOf[e] = UserOf[d]
            PROVE  taken'[d] = 0 \/ taken'[e] = 0
        <4>1. CASE n = 0
          BY <1>0, <2>2, <3>2, <4>1
        <4>2. CASE n > 0
          BY <1>0, <2>2, <2>3, <3>2, <4>2
        <4> QED
          BY <2>1, <4>1, <4>2
      <3> QED
        BY <3>1, <3>2 DEF Held
    <2> QED
      BY <2>2, <2>4 DEF TypeOK
  <1>3. ASSUME NEW c \in Calls, NEW n \in Takes(c), WritesBare(c, n) PROVE Goal
    <2> DEFINE i == IF NextQuery(c) = "insert" THEN 1 ELSE 0
    <2>1. n \in Nat /\ i \in Nat /\ n <= access[UserOf[c]] /\ (NextQuery(c) = "insert" => n = 0)
      BY <1>0, TakesType
    <2>2. ChangeRows(c, n, i) /\ taken' = taken /\ added' = added
      BY <1>3 DEF WritesBare
    <2> HIDE DEF i
    <2>3. /\ access' \in [Users -> Nat] /\ unseen' \in [Calls -> Nat]
          /\ access'[UserOf[c]] = access[UserOf[c]] - n + i
          /\ \A u \in Users \ {UserOf[c]} : access'[u] = access[u]
      BY <2>1, <2>2, ChangeType
    <2>4. ASSUME NEW d \in Calls PROVE taken[d] <= access'[UserOf[d]]
      <3>1. CASE UserOf[d] # UserOf[c] \/ taken[d] = 0
        BY <1>0, <2>3, <3>1
      <3>2. CASE UserOf[d] = UserOf[c] /\ n = 0
        BY <1>0, <2>1, <2>3, <3>2
      <3>3. CASE UserOf[d] = UserOf[c] /\ taken[d] > 0 /\ n # 0
        <4>1. NextQuery(c) = "delete" /\ ~Blocked(c)
          BY <1>3, <2>1, <3>3, QueriesType DEF WritesBare, Executable, NextQuery, Statements
        <4>2. d = c
          BY <3>3, <4>1 DEF Blocked
        <4>3. taken[c] + n <= access[UserOf[c]]
          BY <3>3, TakesType
        <4> QED
          BY <1>0, <2>1, <2>3, <4>2, <4>3
      <3> QED
        BY <1>0, <3>1, <3>2, <3>3
    <2>5. RowsHeld'
      BY <1>0, <2>2, <2>4 DEF RowsHeld, Held
    <2> QED
      BY <2>2, <2>3, <2>5 DEF TypeOK
  <1>4. ASSUME NEW c \in Calls, Commits(c) PROVE Goal
    <2>1. /\ access' \in [Users -> Nat] /\ unseen' \in [Calls -> Nat]
          /\ access'[UserOf[c]] = access[UserOf[c]] - taken[c] + added[c]
          /\ \A u \in Users \ {UserOf[c]} : access'[u] = access[u]
      BY <1>0, <1>4, ChangeType DEF Commits
    <2>2. /\ taken' \in [Calls -> Nat] /\ added' \in [Calls -> Nat]
          /\ \A d \in Calls : taken'[d] \in {taken[d], 0}
      BY <1>4, ClosesType DEF Commits, Closes, Keeps, Drops
    <2>3. taken'[c] = 0
      BY <1>4 DEF Commits, CloseTx, ClosesAll, TypeOK
    <2>4. ASSUME NEW d \in Calls PROVE taken'[d] <= access'[UserOf[d]]
      <3>1. CASE UserOf[d] # UserOf[c]
        BY <1>0, <2>1, <2>2, <3>1
      <3>2. CASE UserOf[d] = UserOf[c] /\ taken'[d] = 0
        BY <1>0, <2>1, <3>2
      <3>3. CASE UserOf[d] = UserOf[c] /\ taken'[d] # 0
        <4>1. taken[c] = 0 /\ taken'[d] = taken[d]
          BY <1>0, <2>2, <2>3, <3>3
        <4> QED
          BY <1>0, <2>1, <3>3, <4>1
      <3> QED
        BY <3>1, <3>2, <3>3
    <2>5. RowsHeld'
      BY <1>0, <2>2, <2>4 DEF RowsHeld, Held
    <2> QED
      BY <2>1, <2>2, <2>5
  <1> QED
    BY <1>1, <1>2, <1>3, <1>4, FourWays

LEMMA StatementsType ==
  ASSUME TypeOK, [Next]_vars
  PROVE  /\ pending' \in [Calls -> SUBSET Nat] /\ durable' \in [Calls -> SUBSET Nat]
         /\ \A c \in Calls : pending'[c] \subseteq Statements(c)
  <1>1. CASE WritesNothing
    BY <1>1, ClosesType DEF WritesNothing, TypeOK, Keeps, Drops
  <1>2. ASSUME NEW c \in Calls, Commits(c)
        PROVE  /\ pending' \in [Calls -> SUBSET Nat] /\ durable' \in [Calls -> SUBSET Nat]
               /\ \A d \in Calls : pending'[d] \subseteq Statements(d)
    BY <1>2, ClosesType DEF Commits, Closes, TypeOK, Keeps, Drops
  <1>3. ASSUME NEW c \in Calls, NEW n \in Takes(c), Writes(c, n) \/ WritesBare(c, n)
        PROVE  /\ pending' \in [Calls -> SUBSET Nat] /\ durable' \in [Calls -> SUBSET Nat]
               /\ \A d \in Calls : pending'[d] \subseteq Statements(d)
    BY <1>3 DEF Writes, WritesBare, Executable, TypeOK
  <1> QED
    BY <1>1, <1>2, <1>3, FourWays

LEMMA TypeStep == TypeOK /\ RowsHeld /\ [Next]_vars => TypeOK' /\ RowsHeld'
  <1> SUFFICES ASSUME TypeOK, RowsHeld, [Next]_vars PROVE TypeOK' /\ RowsHeld'
    OBVIOUS
  <1> DEFINE Control == /\ pc' \in [Calls -> PCs] /\ step' \in [Calls -> Nat \ {0}]
                        /\ reply' \in [Calls -> Replies]
                        /\ conns' \subseteq Calls /\ cancelled' \subseteq Calls
                        /\ early' \subseteq Calls /\ lost' \subseteq Calls
                        /\ failures' \in 0 .. MaxFailures
  <1> USE DEF control, history
  <1>1. ASSUME NEW c \in Calls, Start(c) \/ Reject(c) PROVE Control
    BY <1>1 DEF Start, Reject, Goto, Answer, FirstQuery, TypeOK, PCs, Replies
  <1>2. ASSUME NEW c \in Calls, Begin(c) \/ EndLoop(c) PROVE Control
    BY <1>2 DEF Begin, EndLoop, Goto, Answer, TypeOK, PCs, Replies
  <1>3. ASSUME NEW c \in Calls, BeginFails(c) PROVE Control
    BY <1>3, FailureType DEF BeginFails, Answer, TypeOK, PCs, Replies
  <1>4. ASSUME NEW c \in Calls, Exec(c) PROVE Control
    BY <1>4 DEF Exec, TypeOK
  <1>5. ASSUME NEW c \in Calls, ExecTooMany(c) PROVE Control
    BY <1>5 DEF ExecTooMany, LeaveLoop, Goto, Answer, TypeOK, PCs, Replies
  <1>6. ASSUME NEW c \in Calls, ExecFails(c) PROVE Control
    BY <1>6, FailureType DEF ExecFails, LeaveLoop, Goto, Answer, TypeOK, PCs, Replies
  <1>7. ASSUME NEW c \in Calls, ExecUnacknowledged(c) PROVE Control
    BY <1>7, FailureType DEF ExecUnacknowledged, Answer, TypeOK, PCs, Replies
  <1>8. ASSUME NEW c \in Calls, Commit(c) PROVE Control
    BY <1>8 DEF Commit, Answer, TypeOK, PCs, Replies
  <1>9. ASSUME NEW c \in Calls, CommitFails(c) PROVE Control
    <2>1. lost' \subseteq Calls
      BY <1>9 DEF CommitFails, TypeOK
    <2> QED
      BY <1>9, <2>1, FailureType DEF CommitFails, Goto, TypeOK, PCs, Replies
  <1>10. ASSUME NEW c \in Calls, Rollback(c) PROVE Control
    BY <1>10 DEF Rollback, ConnsAfterRollback, UnwindAnswer, Answer, TypeOK, PCs, Replies
  <1>11. ASSUME NEW c \in Calls, Cancel(c) PROVE Control
    BY <1>11 DEF Cancel, TypeOK
  <1>12. ASSUME Crash PROVE Control
    <2>1. pc' \in [Calls -> PCs]
      BY <1>12 DEF Crash, TypeOK, PCs
    <2>2. lost' \subseteq Calls
      BY <1>12 DEF Crash, TypeOK
    <2>3. failures' \in 0 .. MaxFailures
      BY <1>12, FailureType DEF Crash
    <2> QED
      BY <1>12, <2>1, <2>2, <2>3 DEF Crash, TypeOK
  <1>13. ASSUME UNCHANGED vars PROVE Control
    BY <1>13 DEF vars, TypeOK
  <1>14. Control
    BY <1>1, <1>2, <1>3, <1>4, <1>5, <1>6, <1>7, <1>8, <1>9, <1>10, <1>11, <1>12, <1>13
    DEF Next, Step
  <1> QED
    BY <1>14, RowsStep, StatementsType DEF TypeOK, Statements, QueriesOf

(* Type correctness: what a transaction has deleted is there when it commits, *)
(* so that row counts never go below zero, on any engine.                     *)
THEOREM ProvisioningTypeCorrect == Spec => []TypeOK
  <1>1. Spec => [](TypeOK /\ RowsHeld)
    BY TypeInit, TypeStep, PTL DEF Spec
  <1> QED
    BY <1>1, PTL

-----------------------------------------------------------------------------
(* A call is not touched by a step that leaves its own state alone. *)
Same(d) ==
    /\ pc'[d] = pc[d] /\ step'[d] = step[d] /\ reply'[d] = reply[d]
    /\ pending'[d] = pending[d] /\ durable'[d] = durable[d]
    /\ d \in conns' <=> d \in conns
    /\ d \in cancelled' <=> d \in cancelled
    /\ d \in early' <=> d \in early
    /\ d \in lost' <=> d \in lost

LEMMA Frame ==
  ASSUME NEW d \in Calls, CallInv(d), Same(d)
  PROVE  CallInv(d)'
  BY DEF Same, CallInv, OnItsWay, Executed, Whole, GivenUp, Honest, Free,
         UsesTx, Statements, QueriesOf

LEMMA PInvInit == Init => PInv
  <1> SUFFICES ASSUME Init PROVE PInv
    OBVIOUS
  <1>1. TypeOK /\ RowsHeld
    BY TypeInit
  <1>2. ASSUME NEW c \in Calls PROVE CallInv(c)
    <2>1. /\ pc[c] = "idle" /\ step[c] = 1 /\ pending[c] = {} /\ durable[c] = {}
          /\ reply[c] = "none" /\ c \notin early /\ c \notin conns
      BY DEF Init
    <2>2. Len(QueriesOf(c)) \in Nat \ {0}
      BY QueriesType
    <2>3. \E k \in 0 .. Len(QueriesOf(c)) : durable[c] = 1 .. k
      <3> WITNESS 0 \in 0 .. Len(QueriesOf(c))
      <3> QED
        BY <2>1
    <2> QED
      BY <2>1, <2>3 DEF CallInv, OnItsWay, Whole, GivenUp, Honest, Free
  <1> QED
    BY <1>1, <1>2 DEF PInv

(* The steps before and after the statements. *)
LEMMA EnterStep ==
  ASSUME PInv, TypeOK', NEW c \in Calls, Start(c) \/ Reject(c) \/ Begin(c) \/ BeginFails(c)
  PROVE  CallInv(c)' /\ \A d \in Calls \ {c} : Same(d)
  <1> USE DEF database, control, history, open
  <1>1. Len(QueriesOf(c)) \in Nat \ {0}
    BY QueriesType
  <1>2. CallInv(c)
    BY DEF PInv
  <1>3. ASSUME NEW d \in Calls \ {c} PROVE Same(d)
    BY <1>3 DEF PInv, TypeOK, Same, Start, Reject, Begin, BeginFails, Goto, Answer
  <1>4. UNCHANGED <<pending, durable, early, lost, cancelled>>
    BY DEF Start, Reject, Begin, BeginFails
  <1>5. CASE Start(c)
    <2>1. /\ pc[c] = "idle" /\ step'[c] = 1 /\ reply'[c] = reply[c] /\ conns' = conns
          /\ pc'[c] = IF UsesTx(c) THEN "begin" ELSE "exec"
      BY <1>5 DEF PInv, TypeOK, Start, FirstQuery, Goto
    <2>2. durable[c] = {} /\ reply[c] = "none" /\ pending[c] = {} /\ c \notin early /\ c \notin conns
      BY <1>2, <2>1 DEF CallInv, OnItsWay, Free, GivenUp
    <2>3. Executed(c)' = {}
      BY <2>1 DEF Executed
    <2>4. OnItsWay(c)'
      BY <1>1, <1>4, <2>1, <2>2, <2>3 DEF OnItsWay, UsesTx, QueriesOf
    <2>5. Whole(c)'
      BY <1>2, <1>4, <2>1 DEF CallInv, Whole, UsesTx, QueriesOf, Statements
    <2>6. GivenUp(c)' /\ Honest(c)' /\ Free(c)'
      BY <1>2, <1>4, <2>1, <2>2 DEF GivenUp, Honest, Free
    <2> QED
      BY <1>3, <2>4, <2>5, <2>6 DEF CallInv
  <1>6. CASE Begin(c)
    <2>1. /\ pc[c] = "begin" /\ pc'[c] = "exec" /\ step'[c] = step[c] /\ reply'[c] = reply[c]
      BY <1>6 DEF PInv, TypeOK, Begin, Goto
    <2>2. /\ durable[c] = {} /\ reply[c] = "none" /\ pending[c] = {} /\ step[c] = 1 /\ UsesTx(c)
          /\ c \in early => c \in cancelled
      BY <1>2, <2>1 DEF CallInv, OnItsWay, Free, GivenUp
    <2>3. Executed(c)' = {}
      BY <2>1, <2>2 DEF Executed
    <2>4. OnItsWay(c)'
      BY <1>1, <1>4, <2>1, <2>2, <2>3 DEF OnItsWay, UsesTx, QueriesOf
    <2>5. Whole(c)'
      BY <1>2, <1>4, <2>1, <2>2 DEF CallInv, Whole, UsesTx, QueriesOf, Statements
    <2>6. GivenUp(c)' /\ Honest(c)' /\ Free(c)'
      BY <1>2, <1>4, <2>1, <2>2 DEF GivenUp, Honest, Free, UsesTx
    <2> QED
      BY <1>3, <2>4, <2>5, <2>6 DEF CallInv
  <1>7. CASE Reject(c) \/ BeginFails(c)
    <2>1. /\ pc[c] \in {"idle", "begin"} /\ pc'[c] = "done" /\ reply'[c] = "error"
          /\ step'[c] = step[c] /\ conns' = conns
      BY <1>7 DEF PInv, TypeOK, Reject, BeginFails, Answer
    <2>2. durable[c] = {} /\ pending[c] = {} /\ c \notin conns
      BY <1>2, <2>1 DEF CallInv, OnItsWay, Free
    <2>3. OnItsWay(c)'
      BY <2>1 DEF OnItsWay
    <2>4. Whole(c)'
      BY <1>2, <1>4, <2>1 DEF CallInv, Whole, UsesTx, QueriesOf, Statements
    <2>5. GivenUp(c)' /\ Honest(c)' /\ Free(c)'
      BY <1>2, <1>4, <2>1, <2>2 DEF CallInv, GivenUp, Honest, Free, UsesTx
    <2> QED
      BY <1>3, <2>3, <2>4, <2>5 DEF CallInv
  <1> QED
    BY <1>5, <1>6, <1>7

(* What is known of a call about to run a statement. *)
LEMMA AtStatement ==
  ASSUME PInv, NEW c \in Calls, pc[c] = "exec", step[c] \in Statements(c)
  PROVE  /\ step[c] \in Nat \ {0} /\ Executed(c) \cup {step[c]} = 1 .. step[c]
         /\ step[c] <= Len(QueriesOf(c)) /\ Len(QueriesOf(c)) \in Nat \ {0}
         /\ reply[c] = "none"
         /\ UsesTx(c) => pending[c] = Executed(c) /\ durable[c] = {}
         /\ ~UsesTx(c) => durable[c] = Executed(c) /\ pending[c] = {} /\ c \notin conns /\ c \notin early
  <1>1. Len(QueriesOf(c)) \in Nat \ {0}
    BY QueriesType
  <1>2. step[c] \in Nat \ {0} /\ step[c] <= Len(QueriesOf(c))
    BY <1>1 DEF Statements
  <1>3. Executed(c) \cup {step[c]} = 1 .. step[c]
    BY <1>2 DEF Executed
  <1> QED
    BY <1>1, <1>2, <1>3 DEF PInv, CallInv, OnItsWay, Whole, GivenUp

LEMMA ExecStep ==
  ASSUME PInv, TypeOK', NEW c \in Calls, Exec(c)
  PROVE  CallInv(c)' /\ \A d \in Calls \ {c} : Same(d)
  <1> USE DEF history
  <1>1. pc[c] = "exec" /\ step[c] \in Statements(c) /\ c \notin cancelled
    BY DEF Exec, Executable, ContextDone
  <1>2. CallInv(c) /\ c \notin early
    BY <1>1 DEF PInv, CallInv, GivenUp
  <1>3. /\ UNCHANGED <<pc, reply, conns, cancelled, early, lost>>
        /\ step' = [step EXCEPT ![c] = @ + 1] /\ step'[c] = step[c] + 1
    BY DEF Exec, PInv, TypeOK
  <1>4. \/ UsesTx(c) /\ durable' = durable /\ pending' = [pending EXCEPT ![c] = @ \cup {step[c]}]
        \/ ~UsesTx(c) /\ pending' = pending /\ durable' = [durable EXCEPT ![c] = @ \cup {step[c]}]
    BY DEF Exec, ExecEffect, RunsInTx, open
  <1>5. ASSUME NEW d \in Calls \ {c} PROVE Same(d)
    BY <1>3, <1>4, <1>5 DEF PInv, TypeOK, Same
  <1>6. /\ step[c] \in Nat \ {0} /\ Executed(c) \cup {step[c]} = 1 .. step[c]
        /\ step[c] <= Len(QueriesOf(c)) /\ Len(QueriesOf(c)) \in Nat \ {0}
        /\ reply[c] = "none"
    BY <1>1, AtStatement
  <1>7. Executed(c)' = 1 .. step[c]
    BY <1>3, <1>6 DEF Executed
  <1>8. CASE UsesTx(c)
    <2>1. pending'[c] = 1 .. step[c] /\ durable'[c] = {}
      <3>1. pending'[c] = pending[c] \cup {step[c]} /\ durable'[c] = durable[c]
        BY <1>4, <1>8 DEF PInv, TypeOK
      <3> QED
        BY <1>1, <1>6, <1>8, <3>1, AtStatement
    <2>2. OnItsWay(c)'
      BY <1>1, <1>3, <1>6, <1>7, <1>8, <2>1 DEF OnItsWay, UsesTx, QueriesOf
    <2>3. Whole(c)' /\ GivenUp(c)' /\ Honest(c)' /\ Free(c)'
      BY <1>1, <1>2, <1>3, <1>6, <1>8, <2>1 DEF Whole, GivenUp, Honest, Free, UsesTx
    <2> QED
      BY <1>5, <2>2, <2>3 DEF CallInv
  <1>9. CASE ~UsesTx(c)
    <2>1. durable'[c] = 1 .. step[c] /\ pending'[c] = {}
      <3>1. durable'[c] = durable[c] \cup {step[c]} /\ pending'[c] = pending[c]
        BY <1>4, <1>9 DEF PInv, TypeOK
      <3> QED
        BY <1>1, <1>6, <1>9, <3>1, AtStatement
    <2>2. OnItsWay(c)'
      BY <1>1, <1>3, <1>6, <1>7, <1>9, <2>1 DEF OnItsWay, UsesTx, QueriesOf
    <2>3. step[c] \in 0 .. Len(QueriesOf(c))'
      BY <1>6 DEF QueriesOf
    <2>4. Whole(c)'
      BY <1>2, <1>3, <1>9, <2>1, <2>3 DEF CallInv, Whole, UsesTx
    <2>5. GivenUp(c)' /\ Honest(c)' /\ Free(c)'
      BY <1>1, <1>2, <1>3, <1>6, <1>9, <2>1 DEF GivenUp, Honest, Free, UsesTx
    <2> QED
      BY <1>5, <2>2, <2>4, <2>5 DEF CallInv
  <1> QED
    BY <1>8, <1>9

(* A statement that ends the loop: too many rows, or an error. *)
LEMMA LeaveStep ==
  ASSUME PInv, TypeOK', NEW c \in Calls,
         ExecTooMany(c) \/ ExecFails(c) \/ ExecUnacknowledged(c)
  PROVE  CallInv(c)' /\ \A d \in Calls \ {c} : Same(d)
  <1> USE DEF database, history, open
  <1>1. pc[c] = "exec" /\ step[c] \in Statements(c)
    BY DEF ExecTooMany, ExecFails, ExecUnacknowledged, Executable
  <1>2. CallInv(c)
    BY DEF PInv
  <1>3. /\ UNCHANGED <<step, conns, cancelled, early>>
        /\ lost' = lost \/ lost' = lost \cup {c}
    BY DEF ExecTooMany, ExecFails, ExecUnacknowledged
  <1>4. \/ pc' = [pc EXCEPT ![c] = "unwind"] /\ reply' = reply /\ UsesTx(c)
        \/ pc' = [pc EXCEPT ![c] = "done"] /\ reply' = [reply EXCEPT ![c] = "error"] /\ ~UsesTx(c)
    BY DEF ExecTooMany, ExecFails, ExecUnacknowledged, LeaveLoop, Goto, Answer
  <1>5. \/ durable' = durable /\ pending' = pending
        \/ UsesTx(c) /\ durable' = durable /\ pending' = [pending EXCEPT ![c] = @ \cup {step[c]}]
        \/ ~UsesTx(c) /\ pending' = pending /\ durable' = [durable EXCEPT ![c] = @ \cup {step[c]}]
    BY DEF ExecTooMany, ExecFails, ExecUnacknowledged, ExecEffect, RunsInTx, open
  <1>6. ASSUME NEW d \in Calls \ {c} PROVE Same(d)
    BY <1>3, <1>4, <1>5, <1>6 DEF PInv, TypeOK, Same
  <1>7. /\ step[c] \in Nat \ {0} /\ Executed(c) \cup {step[c]} = 1 .. step[c]
        /\ step[c] <= Len(QueriesOf(c)) /\ Len(QueriesOf(c)) \in Nat \ {0}
        /\ reply[c] = "none"
    BY <1>1, AtStatement
  <1>8. CASE UsesTx(c)
    <2>1. durable'[c] = {} /\ pc'[c] = "unwind" /\ reply'[c] = "none"
      BY <1>1, <1>4, <1>5, <1>7, <1>8, AtStatement DEF PInv, TypeOK
    <2> QED
      BY <1>2, <1>3, <1>6, <1>8, <2>1
      DEF CallInv, OnItsWay, Whole, GivenUp, Honest, Free, UsesTx
  <1>9. CASE ~UsesTx(c)
    <2>1. pc'[c] = "done" /\ reply'[c] = "error" /\ pending'[c] = {}
      BY <1>1, <1>4, <1>5, <1>9, AtStatement DEF PInv, TypeOK
    <2>2. \E k \in 0 .. Len(QueriesOf(c)) : durable'[c] = 1 .. k
      <3>1. CASE durable'[c] = durable[c]
        BY <1>2, <1>9, <3>1 DEF CallInv, Whole
      <3>2. CASE durable'[c] = durable[c] \cup {step[c]}
        <4>1. durable'[c] = 1 .. step[c]
          BY <1>1, <1>7, <1>9, <3>2, AtStatement
        <4>2. step[c] \in 0 .. Len(QueriesOf(c))
          BY <1>7
        <4> QED
          BY <4>1, <4>2
      <3> QED
        BY <1>5, <3>1, <3>2 DEF PInv, TypeOK
    <2>3. Whole(c)'
      BY <1>2, <1>3, <1>9, <2>1, <2>2 DEF CallInv, Whole, UsesTx, QueriesOf
    <2>4. OnItsWay(c)'
      BY <2>1 DEF OnItsWay
    <2>5. c \notin early
      BY <1>2, <1>9 DEF CallInv, GivenUp
    <2>6. GivenUp(c)' /\ Honest(c)' /\ Free(c)'
      BY <1>2, <1>3, <1>9, <2>1, <2>5 DEF CallInv, Whole, GivenUp, Honest, Free, UsesTx
    <2> QED
      BY <1>6, <2>3, <2>4, <2>6 DEF CallInv
  <1> QED
    BY <1>8, <1>9

LEMMA EndLoopStep ==
  ASSUME PInv, TypeOK', NEW c \in Calls, EndLoop(c)
  PROVE  CallInv(c)' /\ \A d \in Calls \ {c} : Same(d)
  <1> USE DEF database, history, open
  <1>1. pc[c] = "exec" /\ step[c] \notin Statements(c)
    BY DEF EndLoop
  <1>2. CallInv(c)
    BY DEF PInv
  <1>3. UNCHANGED <<step, pending, durable, conns, cancelled, early, lost>>
    BY DEF EndLoop
  <1>4. \/ pc' = [pc EXCEPT ![c] = "commit"] /\ reply' = reply /\ UsesTx(c)
        \/ pc' = [pc EXCEPT ![c] = "done"] /\ reply' = [reply EXCEPT ![c] = "ok"] /\ ~UsesTx(c)
    BY DEF EndLoop, Goto, Answer
  <1>5. ASSUME NEW d \in Calls \ {c} PROVE Same(d)
    BY <1>3, <1>4, <1>5 DEF PInv, TypeOK, Same
  <1>6. Len(QueriesOf(c)) \in Nat \ {0} /\ step[c] \in 1 .. Len(QueriesOf(c)) + 1
    BY <1>1, <1>2, QueriesType DEF CallInv, OnItsWay
  <1>7. step[c] = Len(QueriesOf(c)) + 1 /\ Executed(c) = Statements(c) /\ step[c] # 1
    BY <1>1, <1>6 DEF Executed, Statements
  <1>8. c \notin early
    BY <1>1, <1>2, <1>7 DEF CallInv, GivenUp
  <1>9. Statements(c)' = Statements(c) /\ (UsesTx(c)' <=> UsesTx(c)) /\ QueriesOf(c)' = QueriesOf(c)
    BY DEF Statements, UsesTx, QueriesOf
  <1>10. CASE UsesTx(c)
    <2>1. pc'[c] = "commit" /\ reply'[c] = "none" /\ durable[c] = {} /\ pending[c] = Statements(c)
      BY <1>1, <1>2, <1>4, <1>7, <1>10 DEF CallInv, OnItsWay, PInv, TypeOK
    <2> QED
      BY <1>2, <1>3, <1>5, <1>7, <1>8, <1>9, <1>10, <2>1
      DEF CallInv, OnItsWay, Whole, GivenUp, Honest, Free
  <1>11. CASE ~UsesTx(c)
    <2>1. pc'[c] = "done" /\ reply'[c] = "ok" /\ durable[c] = Statements(c)
      BY <1>1, <1>2, <1>4, <1>7, <1>11 DEF CallInv, OnItsWay, PInv, TypeOK
    <2> QED
      BY <1>2, <1>3, <1>5, <1>8, <1>9, <1>11, <2>1
      DEF CallInv, OnItsWay, Whole, GivenUp, Honest, Free
  <1> QED
    BY <1>10, <1>11

(* The end of a transaction: its commit, or its rollback. *)
LEMMA CommitStep ==
  ASSUME PInv, TypeOK', NEW c \in Calls, Commit(c) \/ CommitFails(c)
  PROVE  CallInv(c)' /\ \A d \in Calls \ {c} : Same(d)
  <1> USE DEF history
  <1>1. pc[c] = "commit" /\ conns' = conns \ {c} /\ UNCHANGED <<step, cancelled, early>>
    BY DEF Commit, CommitFails
  <1>2. CallInv(c)
    BY DEF PInv
  <1>3. /\ UsesTx(c) /\ durable[c] = {} /\ pending[c] = Statements(c) /\ reply[c] = "none"
        /\ c \notin early
    BY <1>1, <1>2 DEF CallInv, OnItsWay, GivenUp
  <1>4. pending' = [pending EXCEPT ![c] = {}]
    BY DEF Commit, CommitFails, CommitEffect, CommitNothing, CloseTx
  <1>5. Statements(c)' = Statements(c) /\ (UsesTx(c)' <=> UsesTx(c))
    BY DEF Statements, UsesTx, QueriesOf
  <1>6. CASE Commit(c)
    <2>1. /\ durable' = [durable EXCEPT ![c] = @ \cup pending[c]] /\ lost' = lost
          /\ pc' = [pc EXCEPT ![c] = "done"] /\ reply' = [reply EXCEPT ![c] = "ok"]
      BY <1>6 DEF Commit, CommitEffect, Answer
    <2>2. ASSUME NEW d \in Calls \ {c} PROVE Same(d)
      BY <1>1, <1>4, <2>1, <2>2 DEF PInv, TypeOK, Same
    <2>3. /\ durable'[c] = Statements(c) /\ pending'[c] = {} /\ pc'[c] = "done" /\ reply'[c] = "ok"
          /\ c \notin conns'
      BY <1>1, <1>3, <1>4, <2>1 DEF PInv, TypeOK
    <2> QED
      BY <1>1, <1>3, <1>5, <2>2, <2>3 DEF CallInv, OnItsWay, Whole, GivenUp, Honest, Free
  <1>7. CASE CommitFails(c)
    <2>1. /\ \/ durable' = durable /\ lost' = lost
             \/ durable' = [durable EXCEPT ![c] = @ \cup pending[c]] /\ lost' = lost \cup {c}
          /\ pc' = [pc EXCEPT ![c] = "unwind"] /\ reply' = reply
      BY <1>7 DEF CommitFails, CommitEffect, CommitNothing, Goto
    <2>2. ASSUME NEW d \in Calls \ {c} PROVE Same(d)
      BY <1>1, <1>4, <2>1, <2>2 DEF PInv, TypeOK, Same
    <2>3. /\ durable'[c] \in {{}, Statements(c)}
          /\ c \notin lost' => durable'[c] = {}
          /\ pending'[c] = {} /\ pc'[c] = "unwind" /\ reply'[c] = "none" /\ c \notin conns'
      BY <1>1, <1>3, <1>4, <2>1 DEF PInv, TypeOK
    <2> QED
      BY <1>1, <1>3, <1>5, <2>2, <2>3 DEF CallInv, OnItsWay, Whole, GivenUp, Honest, Free
  <1> QED
    BY <1>6, <1>7

LEMMA RollbackStep ==
  ASSUME PInv, TypeOK', NEW c \in Calls, Rollback(c)
  PROVE  CallInv(c)' /\ \A d \in Calls \ {c} : Same(d)
  <1>1. /\ pc[c] = "unwind" /\ conns' = conns \ {c}
        /\ UNCHANGED <<step, durable, cancelled, early, lost>>
        /\ pending' = [pending EXCEPT ![c] = {}]
        /\ pc' = [pc EXCEPT ![c] = "done"] /\ reply' = [reply EXCEPT ![c] = "error"]
    BY DEF Rollback, ConnsAfterRollback, UnwindAnswer, CommitNothing, CloseTx, Answer, history
  <1>2. CallInv(c)
    BY DEF PInv
  <1>3. ASSUME NEW d \in Calls \ {c} PROVE Same(d)
    BY <1>1, <1>3 DEF PInv, TypeOK, Same
  <1>4. Statements(c)' = Statements(c) /\ (UsesTx(c)' <=> UsesTx(c))
    BY DEF Statements, UsesTx, QueriesOf
  <1>5. UsesTx(c) /\ durable[c] \in {{}, Statements(c)} /\ (c \notin lost => durable[c] = {})
    BY <1>1, <1>2 DEF CallInv, OnItsWay, Whole
  <1>6. pending'[c] = {} /\ pc'[c] = "done" /\ reply'[c] = "error" /\ c \notin conns'
    BY <1>1 DEF PInv, TypeOK
  <1> QED
    BY <1>1, <1>2, <1>3, <1>4, <1>5, <1>6 DEF CallInv, OnItsWay, Whole, GivenUp, Honest, Free

(* A caller that gives up marks its call, and only its call. *)
LEMMA CancelStep ==
  ASSUME PInv, TypeOK', NEW c \in Calls, Cancel(c)
  PROVE  CallInv(c)' /\ \A d \in Calls \ {c} : Same(d)
  <1>1. /\ pc[c] \in {"begin", "exec", "commit", "unwind"}
        /\ UNCHANGED <<pc, step, pending, durable, reply, conns, lost>>
        /\ cancelled' = cancelled \cup {c}
        /\ early' = early \/ (pc[c] = "begin" /\ early' = early \cup {c})
    BY DEF Cancel, database, control, open
  <1>2. CallInv(c)
    BY DEF PInv
  <1>3. ASSUME NEW d \in Calls \ {c} PROVE Same(d)
    BY <1>1, <1>3 DEF Same
  <1>4. GivenUp(c)'
    BY <1>1, <1>2 DEF CallInv, GivenUp, OnItsWay, UsesTx
  <1>5. OnItsWay(c)' /\ Whole(c)' /\ Honest(c)' /\ Free(c)'
    BY <1>1, <1>2 DEF CallInv, OnItsWay, Executed, Whole, Honest, Free, UsesTx, Statements, QueriesOf
  <1> QED
    BY <1>3, <1>4, <1>5 DEF CallInv

(* A crash leaves of every call what is durable, and nothing else. *)
LEMMA CrashStep ==
  ASSUME PInv, TypeOK', Crash, NEW c \in Calls
  PROVE  CallInv(c)'
  <1>1. /\ conns' = {} /\ pending' = [d \in Calls |-> {}]
        /\ UNCHANGED <<step, reply, cancelled, early>>
        /\ pc'[c] = IF pc[c] \in {"idle", "done"} THEN pc[c] ELSE "crashed"
    BY DEF Crash
  <1>2. CallInv(c)
    BY DEF PInv
  <1>3. \/ durable'[c] = durable[c] /\ (c \in lost' <=> c \in lost)
        \/ /\ pc[c] = "commit" /\ durable'[c] = durable[c] \cup pending[c]
           /\ c \in lost'
    BY DEF Crash, PInv, TypeOK
  <1>4. Statements(c)' = Statements(c) /\ (UsesTx(c)' <=> UsesTx(c)) /\ QueriesOf(c)' = QueriesOf(c)
    BY DEF Statements, UsesTx, QueriesOf
  <1>5. CASE pc[c] = "commit"
    <2>1. /\ UsesTx(c) /\ durable'[c] \in {{}, Statements(c)} /\ reply[c] = "none"
          /\ pc'[c] = "crashed" /\ c \notin early
      BY <1>1, <1>2, <1>3, <1>5 DEF CallInv, OnItsWay, GivenUp
    <2> QED
      BY <1>1, <1>4, <2>1 DEF CallInv, OnItsWay, Whole, GivenUp, Honest, Free
  <1>6. CASE pc[c] # "commit"
    <2>1. durable'[c] = durable[c] /\ (c \in lost' <=> c \in lost)
      BY <1>3, <1>6
    <2>2. OnItsWay(c)'
      <3>1. pc[c] \in PCs
        BY DEF PInv, TypeOK
      <3>2. CASE pc'[c] = "idle"
        BY <1>1, <1>2, <1>4, <2>1, <3>2 DEF CallInv, OnItsWay
      <3>3. CASE pc'[c] = "done"
        BY <3>3 DEF OnItsWay
      <3>4. CASE pc'[c] = "crashed"
        BY <1>1, <1>2, <1>6, <3>1, <3>4 DEF CallInv, OnItsWay, PCs
      <3> QED
        BY <1>1, <3>2, <3>3, <3>4
    <2>3. Whole(c)'
      BY <1>1, <1>2, <1>4, <2>1 DEF CallInv, Whole
    <2>4. GivenUp(c)' /\ Honest(c)' /\ Free(c)'
      BY <1>1, <1>2, <1>4, <2>1 DEF CallInv, GivenUp, Honest, Free
    <2> QED
      BY <2>2, <2>3, <2>4 DEF CallInv
  <1> QED
    BY <1>5, <1>6

LEMMA PInvStep == PInv /\ [Next]_vars => PInv'
  <1> SUFFICES ASSUME PInv, [Next]_vars PROVE PInv'
    OBVIOUS
  <1>1. TypeOK' /\ RowsHeld'
    BY TypeStep DEF PInv
  <1>2. ASSUME NEW c \in Calls, CallInv(c)' /\ \A d \in Calls \ {c} : Same(d) PROVE PInv'
    BY <1>1, <1>2, Frame DEF PInv
  <1>3. CASE Crash
    BY <1>1, <1>3, CrashStep DEF PInv
  <1>4. CASE UNCHANGED vars
    <2>1. \A d \in Calls : Same(d)
      BY <1>4 DEF vars, database, control, history, open, Same
    <2> QED
      BY <1>1, <2>1, Frame DEF PInv
  <1>5. ASSUME NEW c \in Calls,
               Step(c) \/ Reject(c) \/ BeginFails(c) \/ ExecUnacknowledged(c)
                 \/ CommitFails(c) \/ Cancel(c)
        PROVE  PInv'
    <2>1. CallInv(c)' /\ \A d \in Calls \ {c} : Same(d)
      BY <1>1, <1>5, EnterStep, ExecStep, LeaveStep, EndLoopStep, CommitStep, RollbackStep, CancelStep
      DEF Step
    <2> QED
      BY <1>2, <2>1
  <1> QED
    BY <1>3, <1>4, <1>5 DEF Next

(* The inductive invariant: at every moment of every call, what is pending   *)
(* and what is durable of it are the statements the loop has been through.   *)
THEOREM ProvisioningInvariant == Spec => []PInv
  BY PInvInit, PInvStep, PTL DEF Spec

(* A transactional call is committed whole or not at all. *)
THEOREM ProvisioningAllOrNothing == Spec => []AllOrNothing
  <1>1. PInv => AllOrNothing
    BY DEF PInv, CallInv, Whole, AllOrNothing
  <1> QED
    BY <1>1, ProvisioningInvariant, PTL

(* The answer of a call tells what became of it. *)
THEOREM ProvisioningHonestReply == Spec => []HonestReply
  <1>1. PInv => HonestReply
    BY DEF PInv, CallInv, Honest, HonestReply
  <1> QED
    BY <1>1, ProvisioningInvariant, PTL

(* A finished call holds no connection and no pending writes. *)
THEOREM ProvisioningReleased == Spec => []Released
  <1>1. PInv => Released
    BY DEF PInv, CallInv, Free, Released
  <1> QED
    BY <1>1, ProvisioningInvariant, PTL

(* A call given up while it waited for a connection changes nothing. *)
THEOREM ProvisioningGivenUp == Spec => []GivenUpInTime
  <1>1. PInv => GivenUpInTime
    BY DEF PInv, CallInv, GivenUp, GivenUpInTime, TypeOK
  <1> QED
    BY <1>1, ProvisioningInvariant, PTL

(* Without a transaction, too, no statement is skipped. *)
THEOREM ProvisioningInOrder == Spec => []InOrder
  <1>1. PInv => InOrder
    <2> SUFFICES ASSUME PInv, NEW c \in Calls, NEW i \in durable[c], NEW j \in 1 .. i
                 PROVE  j \in durable[c]
      BY DEF InOrder
    <2>1. CallInv(c)
      BY DEF PInv
    <2>2. PICK k \in 0 .. Len(QueriesOf(c)) : durable[c] = 1 .. k
      <3>1. Len(QueriesOf(c)) \in Nat /\ {} = 1 .. 0
        BY QueriesType
      <3>2. CASE durable[c] = {}
        BY <3>2
      <3>3. CASE durable[c] = Statements(c)
        BY <3>1, <3>3 DEF Statements
      <3>4. CASE ~UsesTx(c)
        BY <2>1, <3>4 DEF CallInv, Whole
      <3> QED
        BY <2>1, <3>2, <3>3, <3>4 DEF CallInv, Whole
    <2> QED
      BY <2>2, QueriesType
  <1> QED
    BY <1>1, ProvisioningInvariant, PTL

-----------------------------------------------------------------------------
(* The rows that c has inserted and kept after its first i statements, and   *)
(* those it sees then on MySQL, of n that are committed.                     *)
Query(c, i) == QueriesOf(c)[i]
Emptied(c, i) == \E j \in 1 .. i : Query(c, j) = "delete"
Kept(c, i) == {k \in 1 .. i : Query(c, k) = "insert" /\ \A j \in 1 .. i : Query(c, j) = "delete" => j < k}

RowsSeen(c, n, i) == Cardinality(Kept(c, i)) + IF Emptied(c, i) THEN 0 ELSE n

LEMMA KeptType ==
  ASSUME NEW c \in Calls, NEW i \in Nat
  PROVE  /\ IsFiniteSet(Kept(c, i)) /\ Cardinality(Kept(c, i)) \in 0 .. i
         /\ i = 0 => Kept(c, i) = {} /\ Cardinality(Kept(c, i)) = 0 /\ ~Emptied(c, i)
  <1>1. IsFiniteSet(1 .. i) /\ Cardinality(1 .. i) = i
    BY FS_Interval
  <1>2. Kept(c, i) \in SUBSET (1 .. i)
    BY DEF Kept
  <1>3. IsFiniteSet(Kept(c, i)) /\ Cardinality(Kept(c, i)) <= i
    BY <1>1, <1>2, FS_Subset
  <1>4. Cardinality(Kept(c, i)) \in Nat
    BY <1>3, FS_CardinalityType
  <1>5. i = 0 => Kept(c, i) = {} /\ ~Emptied(c, i)
    BY DEF Kept, Emptied
  <1> QED
    BY <1>3, <1>4, <1>5, FS_EmptySet

LEMMA KeptNext ==
  ASSUME NEW c \in Calls, NEW i \in Statements(c)
  PROVE  /\ i \in Nat \ {0} /\ Query(c, i) \in {"insert", "delete"}
         /\ Cardinality(Kept(c, i)) =
              IF Query(c, i) = "insert" THEN Cardinality(Kept(c, i - 1)) + 1 ELSE 0
         /\ Emptied(c, i) <=> (Query(c, i) = "delete" \/ Emptied(c, i - 1))
  <1>1. i \in Nat \ {0} /\ Query(c, i) \in {"insert", "delete"}
    BY QueriesType DEF Statements, Query
  <1>2. 1 .. i = (1 .. i - 1) \cup {i} /\ i \notin 1 .. i - 1 /\ \A j \in 1 .. i - 1 : j < i /\ ~(i < j)
    BY <1>1
  <1>3. Emptied(c, i) <=> (Query(c, i) = "delete" \/ Emptied(c, i - 1))
    BY <1>2 DEF Emptied
  <1>4. CASE Query(c, i) = "insert"
    <2>1. Kept(c, i) = Kept(c, i - 1) \cup {i}
      BY <1>2, <1>4 DEF Kept
    <2>2. i \notin Kept(c, i - 1)
      BY <1>2 DEF Kept
    <2>3. i - 1 \in Nat
      BY <1>1
    <2>4. Cardinality(Kept(c, i)) = Cardinality(Kept(c, i - 1)) + 1
      BY <2>1, <2>2, <2>3, KeptType, FS_AddElement
    <2> QED
      BY <1>1, <1>3, <1>4, <2>4
  <1>5. CASE Query(c, i) = "delete"
    <2>1. Kept(c, i) = {}
      BY <1>2, <1>5 DEF Kept
    <2> QED
      BY <1>1, <1>3, <1>5, <2>1, FS_EmptySet
  <1> QED
    BY <1>1, <1>4, <1>5

LEMMA SeenType ==
  ASSUME NEW c \in Calls, NEW n \in Nat, NEW i \in Nat
  PROVE  /\ RowsSeen(c, n, i) \in Nat /\ RowsSeen(c, n, i) <= n + i
         /\ RowsSeen(c, n, 0) = n
  <1>1. Cardinality(Kept(c, 0)) = 0 /\ ~Emptied(c, 0)
    BY KeptType
  <1> QED
    BY <1>1, KeptType DEF RowsSeen

(* An insert adds a row to them, a delete takes all of them. *)
LEMMA SeenNext ==
  ASSUME NEW c \in Calls, NEW n \in Nat, NEW i \in Statements(c)
  PROVE  RowsSeen(c, n, i) = IF Query(c, i) = "insert" THEN RowsSeen(c, n, i - 1) + 1 ELSE 0
  <1>1. i - 1 \in Nat
    BY KeptNext
  <1>2. Cardinality(Kept(c, i - 1)) \in Nat
    BY <1>1, KeptType
  <1> QED
    BY <1>2, KeptNext DEF RowsSeen

-----------------------------------------------------------------------------
(* Open transactions.  Their counts are those of their statements, and after *)
(* a delete no committed row is left but those that it need not see.         *)
InTx(c) == UsesTx(c) /\ pc[c] \in {"exec", "commit"}

Blank(c) == pending[c] = {} => taken[c] = 0 /\ added[c] = 0

Tally(c) ==
    InTx(c) => /\ added[c] = Cardinality(Kept(c, step[c] - 1))
               /\ taken[c] <= Cardinality(Deletes(c))

LastDelete(c) ==
    InTx(c) /\ step[c] > 1 /\ Query(c, step[c] - 1) = "delete" =>
        access[UserOf[c]] - taken[c] <= unseen[c]

(* On MySQL a transaction that has deleted is alone with the gap it leaves,  *)
(* and nobody fills it.                                                      *)
SeesAll(c) == unseen[c] = 0

Alone(c) ==
    Deletes(c) # {} => \A d \in Calls \ {c} : UserOf[d] = UserOf[c] => Inserts(d) = {}

Gap(c) == InTx(c) /\ Deletes(c) # {} => taken[c] = access[UserOf[c]]

DeletesOne(c) ==
    InTx(c) => \A i \in Deletes(c) : RowsSeen(c, access[UserOf[c]], i - 1) <= 1

TxInv ==
    /\ PInv
    /\ \A c \in Calls : Blank(c) /\ Tally(c) /\ LastDelete(c)
    /\ Engine = "MySQL" => \A c \in Calls : SeesAll(c) /\ Alone(c) /\ Gap(c)

LInv == TxInv /\ (Engine = "MySQL" => \A c \in Calls : DeletesOne(c))

LEMMA InTxPending ==
  ASSUME PInv, NEW c \in Calls, InTx(c)
  PROVE  /\ pending[c] = 1 .. (step[c] - 1) /\ step[c] - 1 \in 0 .. Len(QueriesOf(c))
         /\ step[c] \in Nat \ {0} /\ Len(QueriesOf(c)) \in Nat \ {0}
         /\ Deletes(c) = {i \in 1 .. (step[c] - 1) : Query(c, i) = "delete"}
         /\ Inserts(c) = {i \in 1 .. (step[c] - 1) : Query(c, i) = "insert"}
         /\ IsFiniteSet(Deletes(c)) /\ Cardinality(Deletes(c)) \in Nat
  <1>1. /\ Len(QueriesOf(c)) \in Nat \ {0} /\ step[c] \in Nat \ {0}
        /\ CallInv(c)
    BY QueriesType DEF PInv, TypeOK
  <1>2. pending[c] = 1 .. (step[c] - 1) /\ step[c] - 1 \in 0 .. Len(QueriesOf(c))
    <2>1. CASE pc[c] = "exec"
      BY <1>1, <2>1 DEF CallInv, OnItsWay, Executed, InTx
    <2>2. CASE pc[c] = "commit"
      BY <1>1, <2>2 DEF CallInv, OnItsWay, Statements
    <2> QED
      BY <2>1, <2>2 DEF InTx
  <1>3. /\ Deletes(c) = {i \in 1 .. (step[c] - 1) : Query(c, i) = "delete"}
        /\ Inserts(c) = {i \in 1 .. (step[c] - 1) : Query(c, i) = "insert"}
    BY <1>2 DEF Deletes, Inserts, Query
  <1>4. IsFiniteSet(1 .. (step[c] - 1)) /\ Deletes(c) \in SUBSET (1 .. (step[c] - 1))
    <2>1. 1 \in Int /\ step[c] - 1 \in Int
      BY <1>1
    <2>2. IsFiniteSet(1 .. (step[c] - 1))
      BY <2>1, FS_Interval
    <2>3. Deletes(c) \subseteq 1 .. (step[c] - 1)
      BY <1>3
    <2> QED
      BY <2>2, <2>3
  <1>5. IsFiniteSet(Deletes(c)) /\ Cardinality(Deletes(c)) \in Nat
    BY <1>4, FS_Subset, FS_CardinalityType
  <1> QED
    BY <1>1, <1>2, <1>3, <1>5

(* A transaction in progress has just begun, or executes a statement, or     *)
(* waits while others go on.                                                 *)
Begins(c) == step'[c] = 1 /\ pending'[c] = {}

Stays(c) == InTx(c) /\ step'[c] = step[c] /\ Keeps(c)

Executes(c, n) ==
    /\ InTx(c) /\ step[c] \in Statements(c) /\ step'[c] = step[c] + 1
    /\ Writes(c, n) /\ ~TooMany(RowsAffected(c, n))

LEMMA InTxStep ==
  ASSUME PInv, [Next]_vars, NEW c \in Calls, InTx(c)'
  PROVE  Begins(c) \/ Stays(c) \/ \E n \in Takes(c) : Executes(c, n)
  <1> USE DEF Goto, Answer, database, control, history, open
  <1>1. /\ UsesTx(c) /\ pc'[c] \in {"exec", "commit"} /\ CallInv(c) /\ pc[c] \in PCs
        /\ pc \in [Calls -> PCs] /\ step \in [Calls -> Nat \ {0}]
        /\ pending \in [Calls -> SUBSET Nat] /\ taken \in [Calls -> Nat] /\ added \in [Calls -> Nat]
    BY DEF InTx, UsesTx, PInv, TypeOK
  <1>2. CASE UNCHANGED vars
    BY <1>1, <1>2 DEF vars, Stays, InTx, Keeps
  <1>3. CASE Crash
    BY <1>1, <1>3 DEF Crash
  <1>4. ASSUME NEW d \in Calls,
               Reject(d) \/ BeginFails(d) \/ Cancel(d) \/ EndLoop(d) \/ ExecFails(d)
        PROVE  Stays(c)
    BY <1>1, <1>4 DEF Reject, BeginFails, Cancel, EndLoop, ExecFails, LeaveLoop, Stays, InTx, Keeps
  <1>5. ASSUME NEW d \in Calls, Start(d) PROVE Stays(c)
    BY <1>1, <1>5 DEF Start, Stays, InTx, Keeps
  <1>6. ASSUME NEW d \in Calls, Begin(d) PROVE Begins(c) \/ Stays(c)
    <2>1. CASE d = c
      BY <1>1, <1>6, <2>1 DEF Begin, Begins, CallInv, OnItsWay, Free
    <2>2. CASE d # c
      BY <1>1, <1>6, <2>2 DEF Begin, Stays, InTx, Keeps
    <2> QED
      BY <2>1, <2>2
  <1>7. ASSUME NEW d \in Calls, Exec(d) PROVE Stays(c) \/ \E n \in Takes(c) : Executes(c, n)
    <2>1. PICK n \in Takes(d) : ~TooMany(RowsAffected(d, n)) /\ ExecEffect(d, n)
      BY <1>7 DEF Exec
    <2>2. /\ Executable(d) /\ pc[d] = "exec" /\ step[d] \in Statements(d)
          /\ pc' = pc /\ step' = [step EXCEPT ![d] = @ + 1]
      BY <1>7 DEF Exec, Executable
    <2>3. CASE d = c
      <3>1. Writes(c, n)
        BY <1>1, <2>1, <2>2, <2>3 DEF ExecEffect, RunsInTx, Writes, rows
      <3> QED
        BY <1>1, <2>1, <2>2, <2>3, <3>1 DEF Executes, InTx
    <2>4. CASE d # c
      BY <1>1, <2>1, <2>2, <2>4 DEF ExecEffect, Stays, InTx, Keeps
    <2> QED
      BY <2>3, <2>4
  <1>8. ASSUME NEW d \in Calls, ExecTooMany(d) \/ ExecUnacknowledged(d) PROVE Stays(c)
    <2>1. PICK n \in Takes(d) : ExecEffect(d, n)
      BY <1>8 DEF ExecTooMany, ExecUnacknowledged
    <2>2. step' = step /\ d # c
      BY <1>1, <1>8 DEF ExecTooMany, ExecUnacknowledged, LeaveLoop
    <2>3. Keeps(c)
      BY <1>1, <2>1, <2>2 DEF ExecEffect, Keeps
    <2>4. pc'[c] = pc[c]
      BY <1>1, <1>8, <2>2 DEF ExecTooMany, ExecUnacknowledged, LeaveLoop
    <2> QED
      BY <1>1, <2>2, <2>3, <2>4 DEF Stays, InTx
  <1>9. ASSUME NEW d \in Calls, Commit(d) \/ CommitFails(d) \/ Rollback(d) PROVE Stays(c)
    <2>1. CloseTx(d) /\ step' = step
      BY <1>9 DEF Commit, CommitFails, Rollback, CommitEffect, CommitNothing
    <2>2. d # c /\ pc'[c] = pc[c]
      BY <1>1, <1>9 DEF Commit, CommitFails, Rollback
    <2> QED
      BY <1>1, <2>1, <2>2 DEF CloseTx, Stays, InTx, Keeps
  <1> QED
    BY <1>2, <1>3, <1>4, <1>5, <1>6, <1>7, <1>8, <1>9 DEF Next, Step

(* Meanwhile the rows of its user change by the commits of others only. *)
OtherCommits(c, d) ==
    /\ d # c /\ UserOf[d] = UserOf[c]
    /\ Commits(d) \/ \E n \in Takes(d) : WritesBare(d, n)

LEMMA OtherWrites ==
  ASSUME PInv, [Next]_vars, NEW c \in Calls, Stays(c), InTx(c)'
  PROVE  \/ access'[UserOf[c]] = access[UserOf[c]] /\ unseen'[c] = unseen[c]
         \/ \E d \in Calls : OtherCommits(c, d)
  <1>1. UserOf[c] \in Users /\ unseen \in [Calls -> Nat] /\ access \in [Users -> Nat]
    BY ProvisioningAssumption DEF PInv, TypeOK
  <1>2. ASSUME NEW d \in Calls, Commits(d) \/ \E n \in Takes(d) : WritesBare(d, n)
        PROVE  \/ access'[UserOf[c]] = access[UserOf[c]] /\ unseen'[c] = unseen[c]
               \/ OtherCommits(c, d)
    <2>1. d # c
      BY <1>2 DEF Commits, WritesBare, Stays, InTx, UsesTx
    <2>2. CASE UserOf[d] = UserOf[c]
      BY <1>2, <2>1, <2>2 DEF OtherCommits
    <2>3. CASE UserOf[d] # UserOf[c]
      BY <1>1, <1>2, <2>1, <2>3 DEF Commits, WritesBare, ChangeRows, Meets
    <2> QED
      BY <2>2, <2>3
  <1>3. TypeOK
    BY DEF PInv
  <1> QED
    BY <1>2, <1>3, FourWays DEF WritesNothing, Writes

-----------------------------------------------------------------------------
LEMMA BlankStep ==
  ASSUME TxInv, [Next]_vars, NEW c \in Calls
  PROVE  Blank(c)'
  <1>1. TypeOK /\ Blank(c)
    BY DEF TxInv, PInv
  <1>2. ASSUME NEW d \in Calls, NEW n \in Takes(d), Writes(d, n) \/ WritesBare(d, n) PROVE Blank(c)'
    <2>1. CASE WritesBare(d, n)
      BY <1>1, <2>1 DEF WritesBare, Blank
    <2>2. CASE Writes(d, n) /\ d # c
      <3>1. pending'[c] = pending[c] /\ taken'[c] = taken[c] /\ added'[c] = added[c]
        BY <1>1, <2>2 DEF Writes, TypeOK
      <3> QED
        BY <1>1, <3>1 DEF Blank
    <2>3. CASE Writes(d, n) /\ d = c
      <3>1. step[c] \in pending'[c]
        BY <1>1, <2>3 DEF Writes, TypeOK
      <3> QED
        BY <3>1 DEF Blank
    <2> QED
      BY <1>2, <2>1, <2>2, <2>3
  <1>3. CASE Closes
    BY <1>1, <1>3, ClosesType DEF Keeps, Drops, Blank
  <1> QED
    BY <1>1, <1>2, <1>3, FourWays DEF WritesNothing, Commits, Closes

LEMMA TallyStep ==
  ASSUME TxInv, PInv', [Next]_vars, NEW c \in Calls
  PROVE  Tally(c)'
  <1> SUFFICES ASSUME InTx(c)'
               PROVE  /\ added'[c] = Cardinality(Kept(c, step'[c] - 1))
                      /\ taken'[c] <= Cardinality(Deletes(c)')
    BY DEF Tally, Kept, Query, QueriesOf
  <1>1. PInv /\ TypeOK /\ Tally(c) /\ Blank(c)'
    BY BlankStep DEF TxInv, PInv
  <1>2. CASE Begins(c)
    <2>1. Deletes(c)' = {} /\ taken'[c] = 0 /\ added'[c] = 0 /\ step'[c] - 1 = 0
      BY <1>1, <1>2 DEF Begins, Blank, Deletes
    <2> QED
      BY <2>1, KeptType, FS_EmptySet
  <1>3. CASE Stays(c)
    <2>1. Deletes(c)' = Deletes(c)
      BY <1>3 DEF Stays, Keeps, Deletes, QueriesOf
    <2> QED
      BY <1>1, <1>3, <2>1 DEF Stays, Keeps, Tally
  <1>4. ASSUME NEW n \in Takes(c), Executes(c, n)
        PROVE  /\ added'[c] = Cardinality(Kept(c, step'[c] - 1))
               /\ taken'[c] <= Cardinality(Deletes(c)')
    <2>1. /\ InTx(c) /\ step[c] \in Statements(c) /\ step[c] \in Nat \ {0}
          /\ step'[c] = step[c] + 1 /\ step'[c] - 1 = step[c]
          /\ pending'[c] = pending[c] \cup {step[c]} /\ taken'[c] = taken[c] + n
          /\ added'[c] = IF Query(c, step[c]) = "insert" THEN added[c] + 1 ELSE 0
      BY <1>1, <1>4 DEF Executes, Writes, NextQuery, Query, TypeOK
    <2>2. added[c] = Cardinality(Kept(c, step[c] - 1)) /\ taken[c] <= Cardinality(Deletes(c))
      BY <1>1, <2>1 DEF Tally
    <2>3. added'[c] = Cardinality(Kept(c, step'[c] - 1))
      BY <2>1, <2>2, KeptNext
    <2>4. /\ pending[c] = 1 .. (step[c] - 1) /\ IsFiniteSet(Deletes(c)) /\ Cardinality(Deletes(c)) \in Nat
      BY <1>1, <2>1, InTxPending
    <2>5. n \in Nat /\ (Query(c, step[c]) = "insert" => n = 0) /\ n <= 1
          /\ taken[c] \in Nat /\ Query(c, step[c]) \in {"insert", "delete"}
      <3>1. n \in Nat /\ (Query(c, step[c]) = "insert" => n = 0)
        BY <1>1, TakesType DEF NextQuery, Query
      <3>2. Query(c, step[c]) = "delete" => n + added[c] <= 1
        BY <1>1, <1>4, <3>1 DEF Executes, TooMany, RowsAffected, NextQuery, Query, TypeOK
      <3> QED
        BY <1>1, <2>1, <3>1, <3>2, KeptNext DEF TypeOK
    <2>6. CASE Query(c, step[c]) = "insert"
      <3>1. Deletes(c)' = Deletes(c)
        BY <2>1, <2>6 DEF Deletes, Query, QueriesOf
      <3> QED
        BY <2>1, <2>2, <2>3, <2>5, <2>6, <3>1
    <2>7. CASE Query(c, step[c]) = "delete"
      <3>1. Deletes(c)' = Deletes(c) \cup {step[c]}
        BY <2>1, <2>7 DEF Deletes, Query, QueriesOf
      <3>2. step[c] \notin Deletes(c)
        BY <2>1, <2>4 DEF Deletes
      <3>3. Cardinality(Deletes(c)') = Cardinality(Deletes(c)) + 1
        BY <2>4, <3>1, <3>2, FS_AddElement
      <3> QED
        BY <2>1, <2>2, <2>3, <2>4, <2>5, <3>3
    <2> QED
      BY <2>5, <2>6, <2>7
  <1> QED
    BY <1>1, <1>2, <1>3, <1>4, InTxStep

LEMMA SeesAllStep ==
  ASSUME TxInv, [Next]_vars, Engine = "MySQL", NEW c \in Calls
  PROVE  SeesAll(c)'
  <1>1. TypeOK /\ unseen[c] = 0 /\ unseen \in [Calls -> Nat]
    BY DEF TxInv, PInv, TypeOK, SeesAll
  <1>2. ASSUME NEW d, NEW r, NEW i, ChangeRows(d, r, i) PROVE unseen'[c] = 0
    BY <1>1, <1>2 DEF ChangeRows, Meets
  <1> QED
    BY <1>1, <1>2, FourWays DEF SeesAll, WritesNothing, Writes, WritesBare, Commits

LEMMA AloneStep ==
  ASSUME TxInv, [Next]_vars, Engine = "MySQL", NEW c \in Calls
  PROVE  Alone(c)'
  <1> SUFFICES ASSUME Deletes(c)' # {}, NEW d \in Calls \ {c}, UserOf[d] = UserOf[c]
               PROVE  Inserts(d)' = {}
    BY DEF Alone
  <1>1. TypeOK /\ Alone(c) /\ pending \in [Calls -> SUBSET Nat]
    BY DEF TxInv, PInv, TypeOK
  <1>2. /\ \A e \in Calls : Deletes(e) = {i \in pending[e] : Query(e, i) = "delete"}
        /\ \A e \in Calls : Deletes(e)' = {i \in pending'[e] : Query(e, i) = "delete"}
        /\ \A e \in Calls : Inserts(e) = {i \in pending[e] : Query(e, i) = "insert"}
        /\ \A e \in Calls : Inserts(e)' = {i \in pending'[e] : Query(e, i) = "insert"}
    BY DEF Deletes, Inserts, Query, QueriesOf
  <1>3. CASE \A e \in Calls : pending'[e] \subseteq pending[e]
    <2>1. Deletes(c) # {}
      BY <1>2, <1>3
    <2>2. Inserts(d) = {}
      BY <1>1, <2>1 DEF Alone
    <2> QED
      BY <1>2, <1>3, <2>2
  <1>4. ASSUME NEW e \in Calls, NEW n \in Takes(e), Writes(e, n) PROVE Inserts(d)' = {}
    <2>1. /\ pending' = [pending EXCEPT ![e] = @ \cup {step[e]}]
          /\ ~Blocked(e) /\ step[e] \in Statements(e) /\ Query(e, step[e]) \in {"insert", "delete"}
      BY <1>4, KeptNext DEF Writes, Executable
    <2>2. \A f \in Calls \ {e} : UserOf[f] = UserOf[e] =>
             /\ Query(e, step[e]) = "delete" => Inserts(f) = {}
             /\ Query(e, step[e]) = "insert" => Deletes(f) = {}
      BY <2>1 DEF Blocked, Query, NextQuery
    <2>3. pending'[e] = pending[e] \cup {step[e]} /\ \A f \in Calls \ {e} : pending'[f] = pending[f]
      BY <1>1, <2>1
    <2>4. CASE Query(e, step[e]) = "delete"
      <3>1. Inserts(d)' = Inserts(d)
        BY <1>2, <2>3, <2>4
      <3>2. CASE e = c
        BY <2>2, <2>4, <3>1, <3>2
      <3>3. CASE e # c
        BY <1>1, <1>2, <2>3, <3>1, <3>3 DEF Alone
      <3> QED
        BY <3>2, <3>3
    <2>5. CASE Query(e, step[e]) = "insert"
      <3>1. Deletes(c)' = Deletes(c)
        BY <1>2, <2>3, <2>5
      <3>2. e # d
        BY <2>2, <2>5, <3>1
      <3>3. Inserts(d)' = Inserts(d)
        BY <1>2, <2>3, <3>2
      <3> QED
        BY <1>1, <3>1, <3>3 DEF Alone
    <2> QED
      BY <2>1, <2>4, <2>5
  <1>5. Closes => \A e \in Calls : pending'[e] \subseteq pending[e]
    BY <1>1, ClosesType DEF Keeps, Drops
  <1>6. pending' = pending => \A e \in Calls : pending'[e] \subseteq pending[e]
    OBVIOUS
  <1> QED
    BY <1>1, <1>3, <1>4, <1>5, <1>6, FourWays DEF WritesNothing, WritesBare, Commits, Closes

(* A transaction that commits without an insert leaves no row of its own. *)
LEMMA AtCommit ==
  ASSUME TxInv, NEW c \in Calls, pc[c] = "commit"
  PROVE  /\ UsesTx(c) /\ InTx(c) /\ pending[c] = Statements(c)
         /\ durable[c] = {} /\ reply[c] = "none"
         /\ Statements(c) # {} /\ Len(QueriesOf(c)) \in Statements(c)
         /\ step[c] - 1 = Len(QueriesOf(c)) /\ step[c] > 1
         /\ added[c] = Cardinality(Kept(c, Len(QueriesOf(c))))
         /\ Inserts(c) = {} => added[c] = 0
         /\ taken[c] \in Nat /\ added[c] \in Nat /\ taken[c] <= access[UserOf[c]]
  <1>1. PInv /\ Len(QueriesOf(c)) \in Nat \ {0}
    BY QueriesType DEF TxInv
  <1>2. /\ UsesTx(c) /\ InTx(c) /\ pending[c] = Statements(c) /\ durable[c] = {} /\ reply[c] = "none"
        /\ step[c] = Len(QueriesOf(c)) + 1
    BY <1>1 DEF PInv, CallInv, OnItsWay, InTx
  <1>3. Len(QueriesOf(c)) \in Statements(c) /\ step[c] - 1 = Len(QueriesOf(c)) /\ step[c] > 1
    BY <1>1, <1>2 DEF Statements
  <1>4. added[c] = Cardinality(Kept(c, Len(QueriesOf(c))))
    BY <1>2, <1>3 DEF TxInv, Tally
  <1>5. Inserts(c) = {} => Kept(c, Len(QueriesOf(c))) = {}
    BY <1>2 DEF Inserts, Kept, Statements, Query
  <1>6. taken[c] \in Nat /\ added[c] \in Nat /\ taken[c] <= access[UserOf[c]]
    BY <1>1 DEF PInv, TypeOK, RowsHeld, Held
  <1> QED
    BY <1>2, <1>3, <1>4, <1>5, <1>6, FS_EmptySet

(* On MySQL nobody changes the rows that a transaction has gone through. *)
LEMMA HeldStill ==
  ASSUME TxInv, [Next]_vars, Engine = "MySQL",
         NEW c \in Calls, Stays(c), InTx(c)', Deletes(c) # {}
  PROVE  access'[UserOf[c]] = access[UserOf[c]]
  <1>1. PInv /\ TypeOK /\ taken[c] = access[UserOf[c]] /\ Alone(c) /\ access[UserOf[c]] \in Nat
    BY ProvisioningAssumption DEF TxInv, PInv, TypeOK, Gap, Stays
  <1>2. ASSUME NEW d \in Calls, OtherCommits(c, d) PROVE access'[UserOf[c]] = access[UserOf[c]]
    <2>1. d # c /\ UserOf[d] = UserOf[c]
      BY <1>2 DEF OtherCommits
    <2>2. /\ taken[d] \in Nat /\ (taken[c] = 0 \/ taken[d] = 0)
          /\ taken[d] <= access[UserOf[c]]
      BY <1>1, <2>1 DEF PInv, TypeOK, RowsHeld, Held
    <2>3. CASE Commits(d)
      <3>1. added[d] = 0
        BY <1>1, <2>1, <2>3, AtCommit DEF Alone, Commits
      <3>2. taken[d] = 0
        BY <1>1, <2>2
      <3>3. ChangeRows(d, 0, 0)
        BY <2>3, <3>1, <3>2 DEF Commits
      <3> QED
        BY <1>1, <2>1, <3>3, ChangeType
    <2>4. ASSUME NEW n \in Takes(d), WritesBare(d, n)
          PROVE  access'[UserOf[c]] = access[UserOf[c]]
      <3>1. ~Blocked(d) /\ NextQuery(d) \in {"insert", "delete"}
        BY <2>4, QueriesType DEF WritesBare, Executable, NextQuery, Statements
      <3>2. NextQuery(d) = "delete" /\ ~(taken[c] > 0)
        BY <2>1, <3>1 DEF Blocked
      <3>3. taken[c] = 0 /\ access[UserOf[c]] = 0
        BY <1>1, <3>2
      <3>4. n = 0
        BY <1>1, <2>1, <2>2, <3>3, TakesType
      <3>5. ChangeRows(d, 0, 0)
        BY <2>4, <3>2, <3>4 DEF WritesBare
      <3> QED
        BY <1>1, <2>1, <3>5, ChangeType
    <2> QED
      BY <1>2, <2>3, <2>4 DEF OtherCommits
  <1> QED
    BY <1>1, <1>2, OtherWrites

LEMMA GapStep ==
  ASSUME TxInv, PInv', [Next]_vars, Engine = "MySQL", NEW c \in Calls
  PROVE  Gap(c)'
  <1> SUFFICES ASSUME InTx(c)', Deletes(c)' # {} PROVE taken'[c] = access'[UserOf[c]]
    BY DEF Gap
  <1>1. /\ PInv /\ TypeOK /\ Gap(c) /\ unseen[c] = 0
        /\ taken[c] \in Nat /\ access[UserOf[c]] \in Nat
    BY ProvisioningAssumption DEF TxInv, PInv, TypeOK, SeesAll
  <1>2. Deletes(c)' = {i \in pending'[c] : Query(c, i) = "delete"}
    BY DEF Deletes, Query, QueriesOf
  <1>3. CASE Begins(c)
    BY <1>2, <1>3 DEF Begins
  <1>4. CASE Stays(c)
    <2>1. Deletes(c) # {} /\ taken'[c] = taken[c] /\ InTx(c)
      BY <1>2, <1>4 DEF Stays, Keeps, Deletes, Query
    <2> QED
      BY <1>1, <1>4, <2>1, HeldStill DEF Gap
  <1>5. ASSUME NEW n \in Takes(c), Executes(c, n) PROVE taken'[c] = access'[UserOf[c]]
    <2>1. /\ InTx(c) /\ step[c] \in Statements(c)
          /\ pending'[c] = pending[c] \cup {step[c]} /\ taken'[c] = taken[c] + n /\ access' = access
      BY <1>1, <1>5 DEF Executes, Writes, TypeOK
    <2>2. CASE NextQuery(c) = "insert"
      <3>1. Deletes(c) # {} /\ n = 0
        BY <1>1, <1>2, <2>1, <2>2, TakesType DEF Deletes, Query, NextQuery
      <3> QED
        BY <1>1, <2>1, <3>1 DEF Gap
    <2>3. CASE NextQuery(c) # "insert"
      <3>1. access[UserOf[c]] - taken[c] - n <= 0 /\ taken[c] + n <= access[UserOf[c]] /\ n \in Nat
        BY <1>1, <2>3, TakesType
      <3> QED
        BY <1>1, <2>1, <3>1
    <2> QED
      BY <2>2, <2>3
  <1> QED
    BY <1>1, <1>3, <1>4, <1>5, InTxStep

LEMMA LastDeleteStep ==
  ASSUME TxInv, PInv', [Next]_vars, NEW c \in Calls
  PROVE  LastDelete(c)'
  <1> SUFFICES ASSUME InTx(c)', step'[c] > 1, Query(c, step'[c] - 1) = "delete"
               PROVE  access'[UserOf[c]] - taken'[c] <= unseen'[c]
    BY DEF LastDelete, Query, QueriesOf
  <1>1. /\ PInv /\ TypeOK /\ LastDelete(c)
        /\ taken[c] \in Nat /\ access[UserOf[c]] \in Nat /\ unseen[c] \in Nat
        /\ taken'[c] \in Nat /\ access'[UserOf[c]] \in Nat /\ unseen'[c] \in Nat /\ step'[c] \in Nat
    BY ProvisioningAssumption DEF TxInv, PInv, TypeOK
  <1>2. CASE Engine = "MySQL"
    <2>1. pending'[c] = 1 .. (step'[c] - 1)
      <3>1. CallInv(c)' /\ Len(QueriesOf(c)) \in Nat
        BY QueriesType DEF PInv
      <3>2. CASE pc'[c] = "exec"
        BY <3>1, <3>2 DEF CallInv, OnItsWay, Executed, InTx
      <3>3. CASE pc'[c] = "commit"
        <4>1. pending'[c] = 1 .. Len(QueriesOf(c)) /\ step'[c] = Len(QueriesOf(c)) + 1
          BY <3>1, <3>3 DEF CallInv, OnItsWay, Statements, QueriesOf
        <4> QED
          BY <3>1, <4>1
      <3> QED
        BY <3>2, <3>3 DEF InTx
    <2>2. step'[c] - 1 \in pending'[c]
      BY <1>1, <2>1
    <2>3. Deletes(c)' # {}
      BY <2>2 DEF Deletes, Query, QueriesOf
    <2>4. taken'[c] = access'[UserOf[c]]
      BY <1>2, <2>3, GapStep DEF Gap
    <2> QED
      BY <1>1, <2>4
  <1>3. CASE Engine # "MySQL" /\ Begins(c)
    BY <1>3 DEF Begins
  <1>4. CASE Engine # "MySQL" /\ Stays(c)
    <2>1. InTx(c) /\ access[UserOf[c]] - taken[c] <= unseen[c] /\ taken'[c] = taken[c]
      BY <1>1, <1>4 DEF Stays, Keeps, LastDelete
    <2>2. ASSUME NEW d \in Calls, NEW r \in Nat, NEW i \in Nat, d # c, UserOf[d] = UserOf[c],
                 r <= access[UserOf[d]], ChangeRows(d, r, i)
          PROVE  access'[UserOf[c]] - taken'[c] <= unseen'[c]
      <3>1. access'[UserOf[c]] = access[UserOf[c]] - r + i
        BY <1>1, <2>2, ChangeType
      <3>2. unseen'[c] = unseen[c] + i
        BY <1>4, <2>1, <2>2 DEF ChangeRows, Meets, InTx
      <3> QED
        BY <1>1, <2>1, <3>1, <3>2
    <2>3. ASSUME NEW d \in Calls, OtherCommits(c, d)
          PROVE  access'[UserOf[c]] - taken'[c] <= unseen'[c]
      <3>1. CASE Commits(d)
        BY <2>2, <2>3, <3>1, AtCommit DEF OtherCommits, Commits
      <3>2. ASSUME NEW n \in Takes(d), WritesBare(d, n)
            PROVE  access'[UserOf[c]] - taken'[c] <= unseen'[c]
        <4>1. n \in Nat /\ n <= access[UserOf[d]]
          <5>1. taken[d] \in Nat /\ access[UserOf[d]] \in Nat
            BY <1>1, ProvisioningAssumption DEF TypeOK
          <5> QED
            BY <1>1, <5>1, TakesType
        <4> QED
          BY <2>2, <2>3, <3>2, <4>1 DEF OtherCommits, WritesBare
      <3> QED
        BY <2>3, <3>1, <3>2 DEF OtherCommits
    <2> QED
      BY <1>1, <1>4, <2>1, <2>3, OtherWrites
  <1>5. ASSUME NEW n \in Takes(c), Executes(c, n)
        PROVE  access'[UserOf[c]] - taken'[c] <= unseen'[c]
    <2>1. /\ access' = access /\ unseen' = unseen /\ taken'[c] = taken[c] + n
          /\ NextQuery(c) = "delete"
      BY <1>1, <1>5 DEF Executes, Writes, TypeOK, NextQuery, Query
    <2> QED
      BY <1>1, <2>1, TakesType
  <1> QED
    BY <1>1, <1>2, <1>3, <1>4, <1>5, InTxStep

LEMMA TxInvInit == Init => TxInv
  <1> SUFFICES ASSUME Init PROVE TxInv
    OBVIOUS
  <1>1. \A c \in Calls : pc[c] = "idle" /\ pending[c] = {} /\ taken[c] = 0 /\ added[c] = 0 /\ unseen[c] = 0
    BY DEF Init
  <1> QED
    BY <1>1, PInvInit
    DEF TxInv, Blank, Tally, LastDelete, InTx, SeesAll, Alone, Gap, Deletes

LEMMA TxInvStep == TxInv /\ [Next]_vars => TxInv'
  <1> SUFFICES ASSUME TxInv, [Next]_vars PROVE TxInv'
    OBVIOUS
  <1>1. PInv'
    BY PInvStep DEF TxInv
  <1>2. \A c \in Calls : Blank(c)' /\ Tally(c)' /\ LastDelete(c)'
    BY <1>1, BlankStep, TallyStep, LastDeleteStep
  <1>3. Engine = "MySQL" => \A c \in Calls : SeesAll(c)' /\ Alone(c)' /\ Gap(c)'
    BY <1>1, SeesAllStep, AloneStep, GapStep
  <1> QED
    BY <1>1, <1>2, <1>3 DEF TxInv

(* The inductive invariant of open transactions, on every engine: the rows   *)
(* that a transaction has deleted and inserted are those its statements were *)
(* let through with, and after a delete no committed row is left but those   *)
(* that others committed meanwhile.  On MySQL there are none of these,       *)
(* because a delete keeps every insert of its user away.                     *)
THEOREM ProvisioningTransactions == Spec => []TxInv
  BY TxInvInit, TxInvStep, PTL DEF Spec

-----------------------------------------------------------------------------
(* A transaction that becomes durable takes away one row for each of its     *)
(* deletes at most, on any engine and whatever the others commit between its *)
(* statements.                                                               *)
THEOREM ProvisioningOneRowPerDelete == Spec => OneRowPerDelete
  <1> DEFINE DeletesIn(s, c) == {i \in s : QueriesOf(c)[i] = "delete"}
             OneRow(c) == UsesTx(c) /\ durable'[c] # durable[c] =>
                            access[UserOf[c]] - access'[UserOf[c]] <= Cardinality(DeletesIn(durable'[c], c))
  <1>1. ASSUME TxInv, [Next]_vars, NEW c \in Calls, UsesTx(c), durable'[c] # durable[c]
        PROVE  access[UserOf[c]] - access'[UserOf[c]] <= Cardinality(DeletesIn(durable'[c], c))
    <2>1. PInv /\ TypeOK /\ durable \in [Calls -> SUBSET Nat] /\ access[UserOf[c]] \in Nat
      BY <1>1, ProvisioningAssumption DEF TxInv, PInv, TypeOK
    <2>2. Commits(c)
      BY <1>1, <2>1, FourWays DEF WritesNothing, Writes, WritesBare, Commits
    <2>3. pc[c] = "commit" /\ ChangeRows(c, taken[c], added[c])
      BY <2>2 DEF Commits
    <2>4. durable'[c] = pending[c] /\ InTx(c)
          /\ taken[c] \in Nat /\ added[c] \in Nat /\ taken[c] <= access[UserOf[c]]
      BY <1>1, <2>1, <2>2, <2>3, AtCommit DEF Commits
    <2>5. access'[UserOf[c]] = access[UserOf[c]] - taken[c] + added[c]
      BY <2>1, <2>3, <2>4, ChangeType
    <2>6. DeletesIn(durable'[c], c) = Deletes(c)
      BY <2>4 DEF Deletes
    <2>7. taken[c] <= Cardinality(Deletes(c)) /\ Cardinality(Deletes(c)) \in Nat
      BY <1>1, <2>1, <2>4, InTxPending DEF TxInv, Tally
    <2>8. access[UserOf[c]] - access'[UserOf[c]] <= Cardinality(Deletes(c))
      BY <2>1, <2>4, <2>5, <2>7
    <2> QED
      BY <2>6, <2>8
  <1>2. TxInv /\ [Next]_vars => [\A c \in Calls : OneRow(c)]_vars
    BY <1>1
  <1> QED
    BY <1>2, ProvisioningTransactions, PTL DEF OneRowPerDelete, Spec

(* The configured lists end with the statement that does what is asked. *)
EndsAsAsked ==
    /\ GrantQueries[Len(GrantQueries)] = "insert"
    /\ RevokeQueries[Len(RevokeQueries)] = "delete"

(* What "ok" says of a transactional call is so at that moment, if the last  *)
(* grant query inserts a row and the last revoke query deletes them: on      *)
(* MySQL whatever the others do to the same user, on the other engines but   *)
(* for rows they committed while the revoke was under way.                   *)
THEOREM ProvisioningInForce ==
  ASSUME EndsAsAsked
  PROVE  Spec => InForce
  <1> DEFINE Told(c) == UsesTx(c) /\ reply'[c] = "ok" /\ reply[c] = "none"
             Granted(c) == IF KindOf[c] = "grant" THEN access'[UserOf[c]] > 0
                           ELSE access'[UserOf[c]] <= IF Engine = "MySQL" THEN 0 ELSE unseen[c]
  <1>1. ASSUME PInv, [Next]_vars, NEW c \in Calls, Told(c) PROVE Commit(c)
    <2> USE DEF PInv, TypeOK, Goto, Answer, database, control, history
    <2>1. CASE UNCHANGED vars \/ Crash
      BY <1>1, <2>1 DEF vars, Crash
    <2>2. ASSUME NEW d \in Calls,
                 Start(d) \/ Reject(d) \/ Begin(d) \/ BeginFails(d) \/ Cancel(d)
          PROVE  FALSE
      BY <1>1, <2>2 DEF Start, Reject, Begin, BeginFails, Cancel
    <2>3. ASSUME NEW d \in Calls,
                 Exec(d) \/ ExecTooMany(d) \/ ExecFails(d) \/ ExecUnacknowledged(d) \/ EndLoop(d)
          PROVE  FALSE
      BY <1>1, <2>3 DEF Exec, ExecTooMany, ExecFails, ExecUnacknowledged, EndLoop, LeaveLoop
    <2>4. ASSUME NEW d \in Calls, Rollback(d) \/ CommitFails(d) PROVE FALSE
      BY <1>1, <2>4 DEF Rollback, UnwindAnswer, CommitFails
    <2>5. ASSUME NEW d \in Calls, Commit(d) PROVE d = c
      BY <1>1, <2>5 DEF Commit
    <2> QED
      BY <1>1, <2>1, <2>2, <2>3, <2>4, <2>5 DEF Next, Step
  <1>2. ASSUME TxInv, NEW c \in Calls, Commit(c) PROVE Granted(c)
    <2> DEFINE k == Len(QueriesOf(c))
    <2>1. TypeOK /\ pc[c] = "commit" /\ access[UserOf[c]] \in Nat /\ unseen[c] \in Nat
      BY <1>2, ProvisioningAssumption DEF Commit, TxInv, PInv, TypeOK
    <2>2. /\ InTx(c) /\ k \in Statements(c) /\ step[c] - 1 = k /\ step[c] > 1
          /\ added[c] = Cardinality(Kept(c, k))
          /\ taken[c] \in Nat /\ added[c] \in Nat /\ taken[c] <= access[UserOf[c]]
      BY <1>2, <2>1, AtCommit
    <2>3. ChangeRows(c, taken[c], added[c])
      BY <1>2 DEF Commit, CommitEffect
    <2>4. access'[UserOf[c]] = access[UserOf[c]] - taken[c] + added[c]
      BY <2>1, <2>2, <2>3, ChangeType
    <2>5. Query(c, k) = IF KindOf[c] = "grant" THEN "insert" ELSE "delete"
      BY DEF EndsAsAsked, Query, QueriesOf
    <2> HIDE DEF k
    <2>6. CASE KindOf[c] = "grant"
      <3>1. k - 1 \in Nat /\ added[c] = Cardinality(Kept(c, k - 1)) + 1
        BY <2>2, <2>5, <2>6, KeptNext
      <3>2. added[c] > 0
        BY <3>1, KeptType
      <3> QED
        BY <2>1, <2>2, <2>4, <2>6, <3>2
    <2>7. CASE KindOf[c] # "grant"
      <3>1. added[c] = 0
        BY <2>2, <2>5, <2>7, KeptNext
      <3>2. access[UserOf[c]] - taken[c] <= unseen[c]
        BY <1>2, <2>2, <2>5, <2>7 DEF TxInv, LastDelete
      <3>3. Engine = "MySQL" => unseen[c] = 0
        BY <1>2 DEF TxInv, SeesAll
      <3> QED
        BY <2>1, <2>2, <2>4, <2>7, <3>1, <3>2, <3>3
    <2> QED
      BY <2>6, <2>7
  <1>3. TxInv /\ [Next]_vars => [\A c \in Calls : Told(c) => Granted(c)]_vars
    BY <1>1, <1>2 DEF TxInv
  <1> QED
    BY <1>3, ProvisioningTransactions, PTL DEF InForce, Spec

-----------------------------------------------------------------------------
(* Serializability, on MySQL. *)
LEMMA StatementSees ==
  ASSUME TxInv, Engine = "MySQL", NEW c \in Calls, InTx(c)
  PROVE  access[UserOf[c]] - taken[c] + added[c] = RowsSeen(c, access[UserOf[c]], step[c] - 1)
  <1>1. /\ PInv /\ Tally(c) /\ Gap(c)
        /\ taken[c] \in Nat /\ added[c] \in Nat /\ access[UserOf[c]] \in Nat
    BY ProvisioningAssumption DEF TxInv, PInv, TypeOK
  <1>2. Deletes(c) = {} <=> ~Emptied(c, step[c] - 1)
    BY <1>1, InTxPending DEF Emptied
  <1>3. added[c] = Cardinality(Kept(c, step[c] - 1))
    BY <1>1 DEF Tally
  <1>4. CASE Deletes(c) = {}
    <2>1. taken[c] = 0
      BY <1>1, <1>4, FS_EmptySet DEF Tally
    <2> QED
      BY <1>1, <1>2, <1>3, <1>4, <2>1 DEF RowsSeen
  <1>5. CASE Deletes(c) # {}
    <2>1. taken[c] = access[UserOf[c]]
      BY <1>1, <1>5 DEF Gap
    <2> QED
      BY <1>1, <1>2, <1>3, <1>5, <2>1 DEF RowsSeen
  <1> QED
    BY <1>4, <1>5

LEMMA DeletesOneStep ==
  ASSUME LInv, PInv', [Next]_vars, Engine = "MySQL", NEW c \in Calls
  PROVE  DeletesOne(c)'
  <1> SUFFICES ASSUME InTx(c)', NEW i \in Deletes(c)'
               PROVE  RowsSeen(c, access'[UserOf[c]], i - 1) <= 1
    BY DEF DeletesOne, RowsSeen, Kept, Emptied, Query, QueriesOf
  <1>1. /\ TxInv /\ PInv /\ TypeOK /\ DeletesOne(c) /\ unseen[c] = 0
        /\ taken[c] \in Nat /\ added[c] \in Nat /\ access[UserOf[c]] \in Nat
    BY ProvisioningAssumption DEF LInv, TxInv, PInv, TypeOK, SeesAll
  <1>2. i \in pending'[c] /\ Query(c, i) = "delete"
    BY DEF Deletes, Query, QueriesOf
  <1>3. CASE Begins(c)
    BY <1>2, <1>3 DEF Begins
  <1>4. CASE Stays(c)
    <2>1. i \in Deletes(c) /\ InTx(c)
      BY <1>2, <1>4 DEF Stays, Keeps, Deletes, Query
    <2>2. access'[UserOf[c]] = access[UserOf[c]]
      BY <1>1, <1>4, <2>1, HeldStill
    <2> QED
      BY <1>1, <2>1, <2>2 DEF DeletesOne
  <1>5. ASSUME NEW n \in Takes(c), Executes(c, n)
        PROVE  RowsSeen(c, access'[UserOf[c]], i - 1) <= 1
    <2>1. /\ InTx(c) /\ step[c] \in Statements(c) /\ access' = access
          /\ pending'[c] = pending[c] \cup {step[c]} /\ ~TooMany(RowsAffected(c, n))
      BY <1>1, <1>5 DEF Executes, Writes, TypeOK
    <2>2. CASE i \in pending[c]
      <3>1. i \in Deletes(c)
        BY <1>2, <2>2 DEF Deletes, Query
      <3> QED
        BY <1>1, <2>1, <3>1 DEF DeletesOne
    <2>3. CASE i = step[c]
      <3>1. NextQuery(c) = "delete"
        BY <1>2, <2>3 DEF NextQuery, Query
      <3>2. n \in Nat /\ access[UserOf[c]] - taken[c] - n <= 0 /\ taken[c] + n <= access[UserOf[c]]
        BY <1>1, <3>1, TakesType
      <3>3. n + added[c] <= 1
        BY <1>1, <2>1, <3>1, <3>2 DEF TooMany, RowsAffected
      <3>4. access[UserOf[c]] - taken[c] + added[c] = RowsSeen(c, access[UserOf[c]], i - 1)
        BY <1>1, <2>1, <2>3, StatementSees
      <3>5. access[UserOf[c]] - taken[c] + added[c] = n + added[c]
        BY <1>1, <3>2
      <3> QED
        BY <2>1, <3>3, <3>4, <3>5
    <2> QED
      BY <1>2, <2>1, <2>2, <2>3
  <1> QED
    BY <1>1, <1>3, <1>4, <1>5, InTxStep

(* On MySQL each delete of an open transaction met one row at most, of those *)
(* that are still there.                                                     *)
THEOREM ProvisioningLocks == Spec => []LInv
  <1>1. Init => LInv
    <2> SUFFICES ASSUME Init PROVE LInv
      OBVIOUS
    <2>1. \A c \in Calls : ~InTx(c)
      BY DEF Init, InTx
    <2> QED
      BY <2>1, TxInvInit DEF LInv, DeletesOne
  <1>2. LInv /\ [Next]_vars => LInv'
    <2> SUFFICES ASSUME LInv, [Next]_vars PROVE LInv'
      OBVIOUS
    <2>1. TxInv' /\ PInv'
      BY TxInvStep DEF LInv, TxInv
    <2> QED
      BY <2>1, DeletesOneStep DEF LInv
  <1> QED
    BY <1>1, <1>2, PTL DEF Spec

Applied == {c \in Calls : durable[c] # {}}

(* A transaction becomes durable, and its call is answered, or not. *)
Lands(c, answer) ==
    /\ pc[c] = "commit"
    /\ ChangeRows(c, taken[c], added[c])
    /\ durable' = [durable EXCEPT ![c] = @ \cup pending[c]]
    /\ reply' = [reply EXCEPT ![c] = answer]

(* A transaction that commits could have run alone at that moment: what it   *)
(* saw on its way are the rows of such a run.                                *)
LEMMA CommitIsApply ==
  ASSUME LInv, Engine = "MySQL", NEW c \in Calls, NEW answer, Lands(c, answer)
  PROVE  Atomic!Apply(c, answer)
  <1> DEFINE n == access[UserOf[c]]
             k == Len(QueriesOf(c))
             seen == [i \in 0 .. k |-> RowsSeen(c, n, i)]
  <1>1. TxInv /\ PInv /\ TypeOK /\ n \in Nat /\ k \in Nat \ {0} /\ Statements(c) = 1 .. k
    BY QueriesType, ProvisioningAssumption DEF LInv, TxInv, PInv, TypeOK, Statements
  <1>2. /\ UsesTx(c) /\ InTx(c) /\ pending[c] = Statements(c) /\ durable[c] = {} /\ reply[c] = "none"
        /\ Statements(c) # {} /\ step[c] - 1 = k
        /\ taken[c] \in Nat /\ added[c] \in Nat /\ taken[c] <= n
    BY <1>1, AtCommit DEF Lands
  <1>3. n - taken[c] + added[c] = RowsSeen(c, n, k)
    BY <1>1, <1>2, StatementSees
  <1>4. [d \in Calls |-> QueriesOf(d)][c] = QueriesOf(c)
    OBVIOUS
  <1>5. Applied' = Applied \cup {c} /\ c \notin Applied
    <2>1. durable' = [durable EXCEPT ![c] = Statements(c)]
      BY <1>1, <1>2 DEF Lands, TypeOK
    <2>2. \A d \in Calls : durable'[d] = IF d = c THEN Statements(c) ELSE durable[d]
      BY <1>1, <2>1 DEF TypeOK
    <2> QED
      BY <1>2, <2>2 DEF Applied
  <1> HIDE DEF n, k
  <1>6. seen \in Atomic!RunsAlone(c, n)
    <2>1. seen \in [0 .. k -> 0 .. n + k]
      <3>1. ASSUME NEW i \in 0 .. k PROVE RowsSeen(c, n, i) \in 0 .. n + k
        <4>1. i \in Nat /\ i <= k
          BY <1>1
        <4>2. RowsSeen(c, n, i) \in Nat /\ RowsSeen(c, n, i) <= n + i
          BY <1>1, <4>1, SeenType
        <4> QED
          BY <1>1, <4>1, <4>2
      <3> QED
        BY <3>1
    <2>2. seen[0] = n
      BY <1>1, SeenType
    <2>3. ASSUME NEW i \in 1 .. k
          PROVE  /\ Atomic!Accepted(seen[i - 1], Query(c, i))
                 /\ seen[i] = Atomic!After(seen[i - 1], Query(c, i))
      <3>1. /\ seen[i - 1] = RowsSeen(c, n, i - 1) /\ seen[i] = RowsSeen(c, n, i)
            /\ i \in Statements(c)
        BY <1>1
      <3>2. RowsSeen(c, n, i) = IF Query(c, i) = "insert" THEN RowsSeen(c, n, i - 1) + 1 ELSE 0
        BY <1>1, <3>1, SeenNext
      <3>3. ASSUME Query(c, i) = "delete" PROVE RowsSeen(c, n, i - 1) <= 1
        <4>1. i \in Deletes(c)
          BY <1>2, <3>1, <3>3 DEF Deletes, Query
        <4> QED
          BY <1>2, <4>1 DEF LInv, DeletesOne, n
      <3> QED
        BY <3>1, <3>2, <3>3 DEF Atomic!Accepted, Atomic!After
    <2> QED
      BY <1>4, <2>1, <2>2, <2>3 DEF Atomic!RunsAlone, Query, k
  <1>7. access' = [access EXCEPT ![UserOf[c]] = seen[k]]
    <2>1. k \in 0 .. k
      BY <1>1
    <2>2. seen[k] = n - taken[c] + added[c]
      BY <1>3, <2>1
    <2> HIDE DEF seen
    <2>3. access' = [access EXCEPT ![UserOf[c]] = access[UserOf[c]] - taken[c] + added[c]]
      BY DEF Lands, ChangeRows
    <2> QED
      BY <2>2, <2>3 DEF n
  <1> HIDE DEF seen
  <1> QED
    BY <1>2, <1>4, <1>5, <1>6, <1>7 DEF Atomic!Apply, Applied, Lands, n, k

(* Every other step gives at most one error to a call without an answer. *)
LEMMA OtherwiseFail ==
  ASSUME TxInv, NoTransaction = {}, [Next]_vars
  PROVE  \/ UNCHANGED <<access, durable, reply>>
         \/ \E c \in Calls : Atomic!Fail(c)
         \/ \E c \in Calls, answer \in {"none", "ok"} : Lands(c, answer)
  <1> USE DEF database, control, history, rows
  <1>0. PInv
    BY DEF TxInv
  <1>1. ASSUME NEW c \in Calls, pc[c] # "done",
               access' = access, durable' = durable, reply' = [reply EXCEPT ![c] = "error"]
        PROVE  Atomic!Fail(c)
    <2>1. reply[c] = "none"
      BY <1>0, <1>1 DEF PInv, TypeOK, CallInv, OnItsWay, PCs
    <2> QED
      BY <1>1, <2>1 DEF Atomic!Fail
  <1>2. ASSUME NEW c \in Calls,
               Start(c) \/ Begin(c) \/ Exec(c) \/ ExecTooMany(c) \/ ExecFails(c) \/ EndLoop(c)
                 \/ Cancel(c)
        PROVE  UNCHANGED <<access, durable, reply>>
    BY <1>2 DEF Start, Begin, Exec, ExecTooMany, ExecFails, EndLoop, Cancel, Goto, LeaveLoop,
                ExecEffect, RunsInTx, UsesTx
  <1>3. ASSUME NEW c \in Calls, Reject(c) \/ BeginFails(c) \/ Rollback(c) PROVE Atomic!Fail(c)
    BY <1>1, <1>3 DEF Reject, BeginFails, Rollback, Answer, UnwindAnswer, CommitNothing
  <1>4. ASSUME NEW c \in Calls, ExecUnacknowledged(c) PROVE FALSE
    BY <1>4 DEF ExecUnacknowledged, UsesTx
  <1>5. ASSUME NEW c \in Calls, Commit(c)
        PROVE  Lands(c, "ok")
    BY <1>5 DEF Commit, CommitEffect, Answer, Lands
  <1>6. ASSUME NEW c \in Calls, pc[c] = "commit", reply' = reply,
               ChangeRows(c, taken[c], added[c]),
               durable' = [durable EXCEPT ![c] = @ \cup pending[c]]
        PROVE  Lands(c, "none")
    <2>1. reply' = [reply EXCEPT ![c] = "none"]
      BY <1>0, <1>6, AtCommit DEF PInv, TypeOK
    <2> QED
      BY <1>6, <2>1 DEF Lands
  <1>7. ASSUME NEW c \in Calls, CommitFails(c)
        PROVE  UNCHANGED <<access, durable, reply>> \/ Lands(c, "none")
    BY <1>6, <1>7 DEF CommitFails, CommitNothing, CommitEffect, Goto
  <1>8. ASSUME Crash
        PROVE  \/ UNCHANGED <<access, durable, reply>>
               \/ \E c \in Calls : Lands(c, "none")
    BY <1>6, <1>8 DEF Crash
  <1>9. CASE UNCHANGED vars
    BY <1>9 DEF vars
  <1> QED
    BY <1>2, <1>3, <1>4, <1>5, <1>7, <1>8, <1>9 DEF Next, Step

(* A step of the calls is a step of their serial order, or none. *)
THEOREM ProvisioningStepSerializable ==
  ASSUME Engine = "MySQL", NoTransaction = {}
  PROVE  LInv /\ [Next]_vars => [Atomic!Next]_(Atomic!vars)
  <1> SUFFICES ASSUME LInv, [Next]_vars PROVE [Atomic!Next]_(Atomic!vars)
    OBVIOUS
  <1>1. TxInv
    BY DEF LInv
  <1>2. CASE UNCHANGED <<access, durable, reply>>
    BY <1>2 DEF Atomic!vars
  <1>3. ASSUME NEW c \in Calls, Atomic!Fail(c) PROVE Atomic!Next
    BY <1>3 DEF Atomic!Next
  <1>4. ASSUME NEW c \in Calls, NEW answer \in {"none", "ok"}, Lands(c, answer)
        PROVE  Atomic!Next
    BY <1>4, CommitIsApply DEF Atomic!Next
  <1> QED
    BY <1>1, <1>2, <1>3, <1>4, OtherwiseFail

(* On MySQL concurrent transactional calls are serializable, for every list  *)
(* of statements: each takes effect at its commit as if it had run alone.    *)
THEOREM ProvisioningSerializable ==
  ASSUME Engine = "MySQL", NoTransaction = {}
  PROVE  Spec => Serializable
  <1>1. Init => Atomic!Init
    <2> SUFFICES ASSUME Init PROVE Atomic!Init
      OBVIOUS
    <2>1. TypeOK
      BY TypeInit
    <2>2. \A c \in Calls : durable[c] = {}
      BY DEF Init
    <2> QED
      BY <2>1, <2>2 DEF Init, Atomic!Init, TypeOK
  <1>2. LInv /\ [Next]_vars => [Atomic!Next]_(Atomic!vars)
    BY ProvisioningStepSerializable
  <1> QED
    BY <1>1, <1>2, ProvisioningLocks, PTL DEF Spec, Serializable, Atomic!Spec
=============================================================================
