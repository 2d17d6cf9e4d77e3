---------------------------- MODULE Provisioning ----------------------------
(***************************************************************************)
(* Grant and Revoke: runProvisioningQueries on one access table, several   *)
(* calls at a time, over one connection pool.  Callers give up, statements *)
(* and commits fail, acknowledgements get lost, and the process crashes.   *)
(*                                                                         *)
(* The database keeps a number of rows per user.  "insert" adds a row,     *)
(* "delete" removes the user's rows that it sees.  Transactions have the   *)
(* default isolation of their engine: REPEATABLE READ on MySQL, where a    *)
(* delete also locks the gaps between rows, READ COMMITTED on the others,  *)
(* where it locks the rows it removes and nothing else.                    *)
(***************************************************************************)
EXTENDS Integers, Sequences, FiniteSets

CONSTANTS
    Calls, Users, UserOf,
    KindOf,         \* "grant" or "revoke"
    GrantQueries,   \* the configured statements of each kind
    RevokeQueries,
    Engine,         \* the database engine
    NoTransaction,  \* calls of provisioning sections with no_transaction
    MaxOpenConns,   \* size of the connection pool
    MaxRows,        \* bound: rows a user has to start with
    MaxFailures,    \* bound: failures of the database or of the process
    MaxCancels      \* bound: callers that give up

ASSUME ProvisioningAssumption ==
    /\ UserOf \in [Calls -> Users]
    /\ KindOf \in [Calls -> {"grant", "revoke"}]
    /\ GrantQueries \in Seq({"insert", "delete"}) /\ GrantQueries # <<>>
    /\ RevokeQueries \in Seq({"insert", "delete"}) /\ RevokeQueries # <<>>
    /\ Engine \in {"MySQL", "Oracle", "MSSQL"}
    /\ NoTransaction \subseteq Calls
    /\ MaxOpenConns \in Nat \ {0}
    /\ MaxRows \in Nat /\ MaxFailures \in Nat /\ MaxCancels \in Nat

VARIABLES
    access,     \* committed rows of each user
    pc,         \* where each call is
    step,       \* its next statement
    pending,    \* statements executed in its open transaction
    taken,      \* committed rows its open transaction has deleted
    added,      \* rows its open transaction has inserted and kept
    unseen,     \* rows of its user that its next delete need not see
    conns,      \* calls whose transaction holds a connection
    cancelled,  \* calls whose context is done
    reply,      \* what each call answered
    durable,    \* history: statements of each call that are committed
    early,      \* history: calls given up before they had a transaction
    lost,       \* history: calls whose last success was not acknowledged
    failures    \* how much of the bound is used up

rows == <<access, unseen>>
open == <<pending, taken, added>>
database == <<rows, open, durable>>
control == <<pc, step, reply, conns>>
history == <<cancelled, early, lost, failures>>
vars == <<database, control, history>>

PCs == {"idle", "begin", "exec", "commit", "unwind", "done", "crashed"}
Replies == {"none", "ok", "error"}

QueriesOf(c) == IF KindOf[c] = "grant" THEN GrantQueries ELSE RevokeQueries
Statements(c) == 1 .. Len(QueriesOf(c))
UsesTx(c) == c \notin NoTransaction

-----------------------------------------------------------------------------
(* The database. *)
Deletes(c) == {i \in pending[c] : QueriesOf(c)[i] = "delete"}
Inserts(c) == {i \in pending[c] : QueriesOf(c)[i] = "insert"}

NextQuery(c) == QueriesOf(c)[step[c]]

(* The statement waits for a lock: a delete for rows that another            *)
(* transaction deletes, and but for Oracle, which does not see them, for     *)
(* rows that it inserts; an insert for the gaps a delete has locked.         *)
Blocked(c) ==
    \E d \in Calls \ {c} :
        /\ UserOf[d] = UserOf[c]
        /\ IF NextQuery(c) = "delete"
           THEN taken[d] > 0 \/ (Engine # "Oracle" /\ Inserts(d) # {})
           ELSE Engine = "MySQL" /\ Deletes(d) # {}

(* How many committed rows the statement may delete: all that are there, but *)
(* for those that were committed while it waited for a lock or went through  *)
(* the others.                                                               *)
Takes(c) ==
    IF NextQuery(c) = "insert" THEN {0}
    ELSE LET there == access[UserOf[c]] - taken[c]
         IN  {n \in 0 .. there : there - n <= unseen[c]}

(* A delete removes the rows its own transaction has inserted, too. *)
RowsAffected(c, n) == IF NextQuery(c) = "delete" THEN n + added[c] ELSE 1

(* A transaction of c ends, and the rows of its user change. Transactions    *)
(* under way need not see the new ones, except on MySQL.                     *)
Meets(d, c) == UserOf[d] = UserOf[c] /\ pc[d] \in {"exec", "commit"} /\ Engine # "MySQL"

ChangeRows(c, removed, inserted) ==
    /\ access' = [access EXCEPT ![UserOf[c]] = @ - removed + inserted]
    /\ unseen' = [d \in Calls |->
          IF d = c THEN 0 ELSE IF Meets(d, c) THEN unseen[d] + inserted ELSE unseen[d]]

Init ==
    /\ access \in [Users -> 0 .. MaxRows]
    /\ pc = [c \in Calls |-> "idle"]
    /\ step = [c \in Calls |-> 1]
    /\ taken = [c \in Calls |-> 0] /\ added = [c \in Calls |-> 0] /\ unseen = [c \in Calls |-> 0]
    /\ pending = [c \in Calls |-> {}] /\ durable = [c \in Calls |-> {}]
    /\ conns = {} /\ cancelled = {} /\ early = {} /\ lost = {}
    /\ reply = [c \in Calls |-> "none"]
    /\ failures = 0

Answer(c, answer) ==
    /\ pc' = [pc EXCEPT ![c] = "done"]
    /\ reply' = [reply EXCEPT ![c] = answer]

Goto(c, place) == pc' = [pc EXCEPT ![c] = place] /\ UNCHANGED reply

Failure == failures < MaxFailures /\ failures' = failures + 1

-----------------------------------------------------------------------------
\* Faulty variant: the loop over the queries starts at the second one.
SecondQuery == 2

\* Faulty variant: the loop starts before the first query.
NoQuery == 0

FirstQuery == 1

(* Grant and Revoke up to runProvisioningQueries: the configuration has      *)
(* queries for the entitlement, and its variables evaluate.                  *)
Start(c) ==
    /\ pc[c] = "idle"
    /\ step' = [step EXCEPT ![c] = FirstQuery]
    /\ Goto(c, IF UsesTx(c) THEN "begin" ELSE "exec")
    /\ UNCHANGED <<database, conns, history>>

Reject(c) ==
    /\ pc[c] = "idle"
    /\ Answer(c, "error")
    /\ UNCHANGED <<database, step, conns, history>>

(* db.Begin waits for a connection, without the caller's context. *)
Begin(c) ==
    /\ pc[c] = "begin"
    /\ Cardinality(conns) < MaxOpenConns
    /\ conns' = conns \cup {c}
    /\ Goto(c, "exec")
    /\ UNCHANGED <<database, step, history>>

BeginFails(c) ==
    /\ pc[c] = "begin"
    /\ Failure
    /\ Answer(c, "error")
    /\ UNCHANGED <<database, step, conns, cancelled, early, lost>>

\* Faulty variant: the statements run on the pool although a transaction is open.
RunsOnPool(c) == FALSE

(* The executor of the statements is the transaction. *)
RunsInTx(c) == UsesTx(c)

\* Faulty variant: two rows are still let through.
MoreThanTwo(n) == n > 2

TooMany(n) == n > 1

\* Faulty variant: statements run without the caller's context.
ContextIgnored(c) == FALSE

(* ExecContext and the pool refuse a context that is done. *)
ContextDone(c) == c \in cancelled

(* The statement takes effect and deletes n committed rows. *)
ExecEffect(c, n) ==
    IF RunsInTx(c)
    THEN /\ pending' = [pending EXCEPT ![c] = @ \cup {step[c]}]
         /\ taken' = [taken EXCEPT ![c] = @ + n]
         /\ added' = [added EXCEPT ![c] = IF NextQuery(c) = "insert" THEN @ + 1 ELSE 0]
         /\ UNCHANGED <<rows, durable>>
    ELSE /\ ChangeRows(c, n, IF NextQuery(c) = "insert" THEN 1 ELSE 0)
         /\ durable' = [durable EXCEPT ![c] = @ \cup {step[c]}]
         /\ UNCHANGED open

(* The statement reaches the database: it is prepared, not cancelled, finds  *)
(* a connection, and is not waiting for a lock.                              *)
Executable(c) ==
    /\ pc[c] = "exec"
    /\ step[c] \in Statements(c)
    /\ ~ContextDone(c)
    /\ UsesTx(c) \/ Cardinality(conns) < MaxOpenConns
    /\ ~Blocked(c)

Exec(c) ==
    /\ Executable(c)
    /\ \E n \in Takes(c) : ~TooMany(RowsAffected(c, n)) /\ ExecEffect(c, n)
    /\ step' = [step EXCEPT ![c] = @ + 1]
    /\ UNCHANGED <<pc, reply, conns, history>>

(* An error inside the loop returns at once; the deferred rollback runs when *)
(* there is a transaction.                                                   *)
LeaveLoop(c) == IF UsesTx(c) THEN Goto(c, "unwind") ELSE Answer(c, "error")

ExecTooMany(c) ==
    /\ Executable(c)
    /\ \E n \in Takes(c) : TooMany(RowsAffected(c, n)) /\ ExecEffect(c, n)
    /\ LeaveLoop(c)
    /\ UNCHANGED <<step, conns, history>>

(* The statement cannot be prepared, the database refuses it, its lock wait  *)
(* ends, or its context is done.                                             *)
ExecFails(c) ==
    /\ pc[c] = "exec"
    /\ step[c] \in Statements(c)
    /\ \/ Failure
       \/ (ContextDone(c) \/ Blocked(c)) /\ UNCHANGED failures
    /\ LeaveLoop(c)
    /\ UNCHANGED <<database, step, conns, cancelled, early, lost>>

(* Outside a transaction, a statement may also commit and then fail to say so. *)
ExecUnacknowledged(c) ==
    /\ ~UsesTx(c)
    /\ Executable(c)
    /\ Failure
    /\ \E n \in Takes(c) : ExecEffect(c, n)
    /\ Answer(c, "error")
    /\ lost' = lost \cup {c}
    /\ UNCHANGED <<step, conns, cancelled, early>>

EndLoop(c) ==
    /\ pc[c] = "exec"
    /\ step[c] \notin Statements(c)
    /\ IF UsesTx(c) THEN Goto(c, "commit") ELSE Answer(c, "ok")
    /\ UNCHANGED <<database, step, conns, history>>

-----------------------------------------------------------------------------
CloseTx(c) ==
    /\ pending' = [pending EXCEPT ![c] = {}]
    /\ taken' = [taken EXCEPT ![c] = 0]
    /\ added' = [added EXCEPT ![c] = 0]

(* The transaction of c becomes durable. *)
CommitEffect(c) ==
    /\ ChangeRows(c, taken[c], added[c])
    /\ durable' = [durable EXCEPT ![c] = @ \cup pending[c]]
    /\ CloseTx(c)

CommitNothing(c) == CloseTx(c) /\ UNCHANGED <<rows, durable>>

(* tx.Commit gives the connection back, whatever its outcome. *)
Commit(c) ==
    /\ pc[c] = "commit"
    /\ CommitEffect(c)
    /\ conns' = conns \ {c}
    /\ Answer(c, "ok")
    /\ UNCHANGED <<step, history>>

CommitFails(c) ==
    /\ pc[c] = "commit"
    /\ Failure
    /\ \/ CommitNothing(c) /\ UNCHANGED lost
       \/ CommitEffect(c) /\ lost' = lost \cup {c}
    /\ conns' = conns \ {c}
    /\ Goto(c, "unwind")
    /\ UNCHANGED <<step, cancelled, early>>

\* Faulty variant: the rollback is left out and the connection never returned.
ConnsLeaked(c) == conns

ConnsAfterRollback(c) == conns \ {c}

\* Faulty variant: the error of the commit or of a statement is dropped.
UnwindAnswerOk == "ok"

UnwindAnswer == "error"

(* The deferred rollback; after a failed commit it finds the transaction done. *)
Rollback(c) ==
    /\ pc[c] = "unwind"
    /\ CommitNothing(c)
    /\ conns' = ConnsAfterRollback(c)
    /\ Answer(c, UnwindAnswer)
    /\ UNCHANGED <<step, history>>

(* The caller of a call in progress gives up: its context is done. *)
Cancel(c) ==
    /\ pc[c] \in {"begin", "exec", "commit", "unwind"}
    /\ c \notin cancelled /\ Cardinality(cancelled) < MaxCancels
    /\ cancelled' = cancelled \cup {c}
    /\ early' = IF pc[c] = "begin" THEN early \cup {c} ELSE early
    /\ UNCHANGED <<database, control, lost, failures>>

(* The process dies: the database drops its open transactions, or has just   *)
(* committed the one whose commit was under way.                             *)
Crash ==
    /\ Failure
    /\ pc' = [c \in Calls |-> IF pc[c] \in {"idle", "done"} THEN pc[c] ELSE "crashed"]
    /\ pending' = [c \in Calls |-> {}] /\ taken' = [c \in Calls |-> 0] /\ added' = [c \in Calls |-> 0]
    /\ \/ UNCHANGED <<rows, durable, lost>>
       \/ \E c \in Calls :
            /\ pc[c] = "commit"
            /\ ChangeRows(c, taken[c], added[c])
            /\ durable' = [durable EXCEPT ![c] = @ \cup pending[c]]
            /\ lost' = lost \cup {c}
    /\ conns' = {}
    /\ UNCHANGED <<step, reply, cancelled, early>>

-----------------------------------------------------------------------------
Step(c) ==
    \/ Start(c) \/ Begin(c) \/ Exec(c) \/ ExecTooMany(c) \/ EndLoop(c) \/ Commit(c) \/ Rollback(c)
    \/ ExecFails(c)

Next ==
    \/ \E c \in Calls :
         \/ Step(c)
         \/ Reject(c) \/ BeginFails(c) \/ ExecUnacknowledged(c) \/ CommitFails(c) \/ Cancel(c)
    \/ Crash

Spec == Init /\ [][Next]_vars

(* A call in progress goes on: it has a goroutine of its own, a lock wait    *)
(* that does not end by itself is ended by the database.  Nothing forces a   *)
(* call to be made, to be given up, or to fail.                              *)
Progress(c) == pc[c] # "idle" /\ Step(c)

FairSpec == Spec /\ \A c \in Calls : WF_vars(Progress(c))

-----------------------------------------------------------------------------
TypeOK ==
    /\ access \in [Users -> Nat]
    /\ pc \in [Calls -> PCs]
    /\ step \in [Calls -> Nat \ {0}]
    /\ taken \in [Calls -> Nat] /\ added \in [Calls -> Nat] /\ unseen \in [Calls -> Nat]
    /\ pending \in [Calls -> SUBSET Nat] /\ durable \in [Calls -> SUBSET Nat]
    /\ \A c \in Calls : pending[c] \subseteq Statements(c)
    /\ reply \in [Calls -> Replies]
    /\ conns \subseteq Calls /\ cancelled \subseteq Calls
    /\ early \subseteq Calls /\ lost \subseteq Calls
    /\ failures \in 0 .. MaxFailures

(* A transactional Grant or Revoke is committed whole or not at all, through *)
(* failed statements, failed commits, rollbacks and crashes.                 *)
AllOrNothing ==
    \A c \in Calls : UsesTx(c) => durable[c] \in {{}, Statements(c)}

(* The answer tells what happened: "ok" means that every statement is        *)
(* committed, an error that none is, except where the database committed and *)
(* its acknowledgement was lost.  Without a transaction only "ok" says so.   *)
HonestReply ==
    \A c \in Calls :
        /\ reply[c] = "ok" => durable[c] = Statements(c)
        /\ UsesTx(c) /\ reply[c] = "error" /\ c \notin lost => durable[c] = {}

(* Without a transaction, what is committed of a call is an initial part of  *)
(* its statements: none is skipped.                                          *)
InOrder ==
    \A c \in Calls : \A i \in durable[c] : \A j \in 1 .. i : j \in durable[c]

(* A call that is not in progress holds no connection and no pending writes, *)
(* so that the others are not held up for good.                              *)
Released ==
    \A c \in Calls : pc[c] \in {"idle", "begin", "done", "crashed"} =>
        c \notin conns /\ pending[c] = {}

(* A call that its caller gave up before it had a transaction changes        *)
(* nothing, although db.Begin goes on waiting for it.                        *)
GivenUpInTime == \A c \in early : durable[c] = {} /\ reply[c] # "ok"

(* A transaction that becomes durable has removed at most one row for each   *)
(* delete in it, whatever was committed between its statements: the count    *)
(* that each statement was let through with is still right at the commit.    *)
OneRowPerDelete ==
    [][\A c \in Calls :
        UsesTx(c) /\ durable'[c] # durable[c] =>
            access[UserOf[c]] - access'[UserOf[c]]
                <= Cardinality({i \in durable'[c] : QueriesOf(c)[i] = "delete"})]_vars

(* At the moment a grant answers "ok", its user has a row. At the moment a   *)
(* revoke does, its user has none on MySQL, and elsewhere none but those     *)
(* that other calls committed while the revoke was under way.                *)
InForce ==
    [][\A c \in Calls :
        UsesTx(c) /\ reply'[c] = "ok" /\ reply[c] = "none" =>
            IF KindOf[c] = "grant" THEN access'[UserOf[c]] > 0
            ELSE access'[UserOf[c]] <= IF Engine = "MySQL" THEN 0 ELSE unseen[c]]_vars

(* Every call that was made comes to an answer, unless the process dies: no  *)
(* call waits for ever for a connection or for a lock, with a transaction or *)
(* without.                                                                  *)
Answered ==
    \A c \in Calls : pc[c] \notin {"idle", "done", "crashed"} ~> pc[c] \in {"done", "crashed"}

Atomic == INSTANCE AtomicProvisioning
            WITH applied <- {c \in Calls : durable[c] # {}},
                 Queries <- [c \in Calls |-> QueriesOf(c)]

(* On MySQL concurrent transactional calls are serializable: each takes      *)
(* effect at its commit as if its statements had run there alone. Under READ *)
(* COMMITTED they are not: two grants that delete and insert leave two rows. *)
Serializable == Atomic!Spec
=============================================================================
