# A TLA+ verification of baton-sql

baton-sql is a connector: it reads users, groups, roles, entitlements and grants
out of any SQL database with the queries of a YAML file, and it grants and
revokes entitlements by running configured statements. The specifications in
this directory model the parts of it in which order, interleaving, failure and
boundaries decide whether the answer is right. They are checked with TLC on
small instances; the theorems about them are checked with TLAPS for every value
of the constants.

## The system

| component | state | operations | what makes it correct |
|---|---|---|---|
| page queries, `pkg/bsql/query.go` | the page token, the rows of the open result, the row count and the last key | `runQuery`, `prepareQuery`, `setupPagination`, `nextPageToken`, `clampPageSize` | every row that is there throughout is returned by some page; no row twice; the token moves; a page that fails is not half returned |
| query tokens, `query.go` | the statement and its arguments while tokens are replaced | `parseToken`, `parseQueryOpts`, `prepareProvisioningQuery`, `getNextPlaceholder` | each token reads its value on each engine; a wrong token refuses the query |
| sync driver, `vendor/.../baton-sdk/pkg/sync` | a stack of actions with page tokens | `Sync`, `SyncResourceTypes`, `SyncResources`, `SyncEntitlements`, `SyncGrants` and their calls per type or resource, `Checkpoint` | a sync that ends has stored everything; a resumed sync skips nothing; it ends |
| sync store, `vendor/.../baton-sdk/pkg/dotc1z` | the run of a sync with its last checkpoint; the rows stored for it | `StartSync`, `CheckpointSync`, `EndSync`, `Put...`, `List...` | its pages skip and repeat no row; a new sync sees no rows of an old one |
| connector builder, `vendor/.../connectorbuilder` | the syncer of each resource type | `ListResourceTypes`, `ListResources`, `ListEntitlements`, `ListGrants`, `Grant`, `Revoke` | a token that repeats is refused, and a type it does not serve |
| grants paging, `grants.go` and `vendor/.../pagination` | a bag of page states that travels as the page token | `Grants`, `listGrants`, `Bag.Next/Push/Marshal` | each configured query is read once, to its end |
| provisioning, `query.go`, `provisioning.go` | a transaction per call, the shared connection pool | `Grant`, `Revoke`, `runProvisioningQueries` | all statements or none, the answer says which, nobody waits for ever |
| mappings, `resources.go`, `entitlements.go`, `grants.go`, `resource_types.go` | none | `mapResource`, `mapTraits`, `mapEntitlement`, `mapGrant` | a row maps to what the configuration says, or its page fails |
| expressions, `pkg/bcel` | the compiled CEL environment | `Evaluate`, `EvaluateString`, `EvaluateBool` | a value of any column type becomes the right string or condition |
| connector and database, `pkg/connector`, `pkg/database` | the pool | `New`, `ResourceSyncers`, `Connect`, `Close` | one syncer per resource type; pool limits |
| configuration, `pkg/bsql/config.go`, `pkg/config`, `cmd` | none at run time | `LoadConfigFromFile`, flags | decoding |

The sync driver calls the connector builder, which calls the syncer
(`List`, `Entitlements`, `Grants`), which calls `runQuery`; `runQuery` calls
back for each row, and answers with the next page token, which the driver
stores in its action and sends back with the next call. The database is shared
with its own application, so it changes between any two queries. Provisioning
comes in on another path: concurrent `Grant` and `Revoke` calls meet in the
connection pool and in the rows of one user.

What is hard here: a table that changes between the pages of one listing; the
extra row that is read to see whether there is another page; a driver that
moves its token before or after it stores the page, and stops between the two;
a page retried half way; a sync whose stack of actions is resumed from an older
checkpoint over a newer store, by a connector with another configuration; statements of several calls interleaved under
transactions, with callers that give up, commits whose acknowledgement is lost,
and a process that dies. PROJECT.json lists each such hazard at its line with
the properties that would catch it.

## The modules

| module | what it is | code |
|---|---|---|
| `Paging` | page sizes, tokens, and the rows a page query can return | pure functions of `query.go`, and the database's side of a query |
| `ListingContract` | abstract: a listing collects rows that exist or existed and reports the end only when every row present throughout is collected | - |
| `Listing` | one paginated listing: `runQuery` row by row, the driver, other clients of the database, failures, retries, resumes | `runQuery`, `ListResources`, `syncResources`, `syncEntitlementsForResource`, `Checkpoint`, `Sync` |
| `GrantPages` | the grants of one resource: several queries in a bag | `Grants`, `Bag`, `syncGrantsForResource` |
| `SessionContract` | abstract: a sync collects stage after stage, and is done only when it has all that lasts | - |
| `Session` | a whole sync: the stack of actions over the store, stops, resumes, new configurations, new starts | `Sync` and its handlers, `state`, `StartSync`, `listConnectorObjects`, `bulkPutConnectorObject`, `GetSQLSyncers`, `ResourceSyncers` |
| `QueryText` | one query: its tokens, its arguments, its placeholders | `parseToken`, `parseQueryOpts`, `prepareProvisioningQuery`, `getNextPlaceholder`, `prepareProvisioningVars` |
| `AtomicProvisioning` | abstract: each call takes effect in one step or not at all; what MySQL gives | - |
| `Provisioning` | `runProvisioningQueries`, several calls at once | `Grant`, `Revoke`, `runProvisioningQueries` |
| `Routing` | from a listed entitlement to the statements a Grant or Revoke of it runs | `Entitlements`, `NewEntitlementID`, `SplitEntitlementID`, `getProvisioningConfig`, `Grant`, `Revoke` |
| `Expressions` | what becomes of the value of an expression | `Evaluate`, `EvaluateString`, `EvaluateBool` |
| `Mapping` | the rows of one page through the mappings of a configuration, and the driver's check of traits | the callbacks of `List`, `Entitlements`, `Grants`; `mapResource`, `mapEntitlement`, `mapGrant`, `fetchTraits`, `extractTraits`, `validateResourceTraits` |
| `ListingProofs`, `GrantPagesProofs`, `SessionProofs`, `SessionOnceProofs`, `QueryTextProofs`, `ProvisioningProofs`, `RoutingProofs`, `MappingProofs` | theorems | - |
| `MCListing`, `MCGrantPages`, `MCSession`, `MCQueryText`, `MCProvisioning`, `MCRouting`, `MCMapping` | small instances for the `.cfg` files | - |

Definitions whose comment begins with "Faulty variant" are alternative bodies of
the definition that follows them, each a mistake the code could have made; no
specification uses them. They show that the properties can fail.

### Listing

`rows` is the table; a row is its primary key. `stable` and `ever` are history:
the rows that were there at every moment, and at some moment, since the listing
began. `token` and `popped` are the driver's action (`NextPage` and
`FinishAction`), `savedToken` and `savedPopped` its last checkpoint, `store` the
rows stored. `limit`, `page`, `rowCount`, `lastRow` are `runQuery`'s locals,
`rest` what the open result still holds.

- `Query` is `runQuery` up to its loop: the page size is clamped, the token
  bound, and the result is any set of rows the query can select at that moment.
  A query reads one snapshot; writes come between queries, or while the rows of
  a result are being fetched.
- `FetchRow`, `FetchExtraRow`, `Exhausted` are the three ways through the loop
  head: a row of the page, the row past the page (`break`), the end of the
  result. `Return` and `RefuseSameToken` are the token computation and the
  connector builder's refusal of a token equal to the request's.
- `Put` and `Advance` come in the order of the caller: `advanceFirst`, chosen at the
  start, is TRUE for `syncResources`, FALSE for entitlements and grants. `Checkpoint` may or may not
  be taken at the loop head, because checkpoints less than ten seconds apart are
  skipped.
- `Fail` covers an error of the query, of a row, of a row's mapping, of the store
  and an interruption of the run; `Retry` the errors `shouldWaitAndRetry` retries
  in place, an expired deadline. Only the connector's errors carry the status
  that is retried, so `Retry` is possible only while the query runs. `Resume` is
  a new run that finds the sync unfinished; the store keeps what it has.

Rows have numeric keys, ordered as the database orders them; the text of a
token is its number, with `NoToken` for the empty string. Go's conversions between
key types and strings (`nextPageToken`'s type switch) are injective and are left
out. `Strategy`, `Tokens` and `Ordered` are the ways a listing can
be configured or called. A primary key missing from the result is one more way to
`Fail`.

### GrantPages

A bag is the sequence of its page states, the current one last, which is what
`Push` and `pop` maintain. `Grants` is the whole handler: unmarshal, push every
query if the bag is empty, one page of the current query, `Next`, marshal. A page
is the pair of a query and a page number; `Listing` says what a page contains.
`PageCount` is any sequence of positive numbers.

### Session

`stack` is the driver's `state`, the current action last; `saved` the stack of the last
checkpoint, which a run of the sync finds in the store. An action has an operation,
a target (a resource type or a resource; `None` for a stage) and a token.
`typeList` and `resourceList` are the tables the stages list, in the order of their
rows; `collected` says which pages are stored; `skipTypes` the stored types with the
annotation to skip entitlements and grants. `steady` is history: what every
configuration since the start of the sync asks for, and the property of a sync is
about that.

- `InitOp` pushes the plan. `SyncResourceTypes` stores the types the connector serves,
  in any order, because it serves them from a Go map.
- `Stage` is the first half of `SyncResources`, `SyncEntitlements` and `SyncGrants`: one
  page of the store, the token moved or the action finished, and then an action for
  each row of the page that is not skipped. `StageToken` and `MoreRows` are
  `listConnectorObjects`.
- `List` is the other half, one call of the connector for one target. Pages are
  numbered by how many are left, so that 1 is the last one; of grants, a page is a
  query, which is how the bag of `GrantPages` reads them, and a shorter list of
  queries in a new configuration can make the token name a query that is not there.
- `Refused` is the call that cannot be answered: a type the connector does not
  serve, or that index, which panics. `Fail` is any other end of a run: an error of
  the connector or the store, a cancellation, the run duration. `FailInPut` is an
  error of the store after some rows of the page.
- `Served` is `GetSQLSyncers` with `ResourceSyncers`: all configured types, or none when
  one cannot be built.
- `Resume`, `Age` and `StartOver` are `StartSync`: a sync of less than a week ago goes
  on from its checkpoint; after a week a new one begins, whose rows are its own.

A handler is one step. What it changed in the stack is lost if it fails, and what it
changed in the store is covered by `FailInPut`; its entitlements and grants do not
matter to later steps until their page is complete. A process that dies without
closing the store loses the store's file and its checkpoint together, back to an
earlier state of both, which is a state of this model. Not modelled: warnings (they
need a gRPC status `NotFound`, which no error of this connector carries), child
resource types, etags, assets and grant expansion (this connector produces none of
what they react to), and the retry in place, which is in `Listing`.

### QueryText

A query is a sequence of pieces, each text or a token with its name and option; the
text holds no placeholder of its own. `SetupPagination`, `SendAsIs` and `PrepareVars` say
what the names stand for, `CopyText`, `Reject`, `Inline` and `Bind` are the ways through
one call of the replacement function, `Return` the end. `parseQueryOpts` and
`prepareProvisioningQuery` differ in where the values come from and in
`paginationOptSet` only, so that they are one loop here. On the database's side,
a numbered placeholder reads the argument of its number, a question mark that of
its place. PostgreSQL is as the other numbered engines, SQLite as MySQL.

### Provisioning

`access` counts the committed rows of each user; `pending` is what each open
transaction has executed, `taken` the committed rows it has deleted and `added` the
rows it has inserted and not deleted again, `conns` which calls hold a connection. Each call goes
through `begin`, `exec` (once per statement), `commit`, and on an error through
`unwind`, where the deferred rollback runs. `cancelled` are the callers that gave
up; `early` (history) those that did so while the call was still waiting in
`db.Begin`, which takes no context; `lost` (history) the calls whose success was
not acknowledged.

The database is external, and it is not one database: `runProvisioningQueries` opens
its transaction with a bare `db.Begin()` (`query.go:296`), at whatever isolation the engine
has by default, and a connection is to MySQL, Oracle or SQL Server (`database.go:79-99`).
`Engine` says to which.

| | isolation by default | a delete waits for | an insert waits for |
|---|---|---|---|
| `"MySQL"` | REPEATABLE READ; a delete reads the latest committed rows | rows another transaction of the user deletes or inserts | a delete of the user in another transaction, even one that met no row: it has locked the gap |
| `"MSSQL"` | READ COMMITTED with locks | rows another transaction of the user deletes or inserts | nothing |
| `"Oracle"` | READ COMMITTED by versions | rows another transaction of the user deletes | nothing |

`Blocked` is that table, `Takes` how many committed rows a delete removes: all there are
but its own, and but for those it need not have seen. `unseen` counts the latter: rows of
its user that others committed since the transaction, or its last effect outside one,
began. A statement of a READ COMMITTED engine sees the rows as of its own beginning, so
that it misses what is committed while it waits or runs; a statement is one step here,
which may come any time after its beginning, so that it may miss any of them. That is more
than an engine does to a second delete of a transaction, and errs to the side of more
behaviours. What holds on both READ COMMITTED engines is checked on
`"Oracle"`, because `"MSSQL"` is the same with more waiting, and any wait may end in an error.
The table is one without a uniqueness constraint on its user: one that has it
refuses the second row, which is `ExecFails`.

A lock wait may end in an error at any time (`ExecFails`), as databases end deadlocks. A
statement without a transaction needs a connection of its own and commits at once.
`no_transaction` is `NoTransaction`, the set of calls that have it. `RowsAffected` does
not fail: the code logs its error and goes on (`query.go:322`), and none of the three
vendored drivers ever returns one (`go-ora/v2/command.go`, `go-mssqldb/mssql.go`,
`go-sql-driver/mysql/result.go`). Which configuration a call selects is the subject of
`Routing`: here `Start` is a call that has one, `Reject` one that is refused before it
touches the database.

### Routing

`listed` holds the entitlements of a resource type as syncs produced them, each with
its ID and, as history, the mapping that made it; `call` is what the last Grant or
Revoke did. An ID is the sequence of the pieces between its colons, so that
`NewEntitlementID` is concatenation and `SplitEntitlementID` cuts off two pieces:
whatever the pieces are, this is what joining and `SplitN(id, ":", 3)` do.
`ListStatic` and `ListDynamic` are the two branches of `Entitlements`; `Provision` is a
call up to the point where `Provisioning` starts, `Refuse` each way it may end
before. A mapping is reduced to whether it has a provisioning section and which
lists of queries in it are not empty. A resource type's ID is one piece.

### Expressions and Mapping

A value is its Go type with its text. `Evaluate` is external to the source (CEL),
but for the two forms every configuration uses, a bare word and a column; other
expressions are columns that hold their result. `Mapping` runs the callback over
`page`, row by row (`row`) and mapping by mapping (`next`): `Skip`, `Map` and `FailPage`
are its three ways out, `Return` the answer, `Store` and `RefuseTraits` the driver's
check of a resource page. A mapping keeps its `skip_if`, whether everything required
is configured (`complete`), and its expressions, the ID first; the ID of a static
entitlement is a constant and is not evaluated (`Evaluated`). Which field an expression fills, and
the words of statuses, account types and purposes, are left out.

## The runs

| run | instance | shows |
|---|---|---|
| `listing_resources` | cursor, ordered, both orders of token and store; keys 1..4, sizes -1, 0 and 5 clamped to 1, 2 and 3; 2 writes, 1 failure | `ResumeSafe`, `EachRowOnce`, `TokenAdvances`, `Terminates`, and the refinement of `ListingContract` |
| `listing_unbound` | a query with `?<Limit>` and no `?<Cursor>` | it never reports a false end: the repeated token is refused |
| `listing_offset_skips` | offset; a static table of up to 6 rows, and the property `Complete` | **violated**: five rows, two a page; the offsets are 0, 2, 6 |
| `grant_pages` | four queries of 1 to 3 pages, 2 failures | each page is read, one query at a time, and the listing ends |
| `session` | two types, three resources, five configurations (three grants queries, one, none with a type skipped, a type gone, a type that cannot be built); pages of one row in the store; 2 failures, 2 changes of the configuration | nothing that lasts is lost, nothing is stored before what it depends on, nothing is asked for twice without a failure, every sync ends, and the refinement of `SessionContract` |
| `query_text` | every query of up to three pieces, on MySQL, MSSQL and Oracle; names in both cases, a known and an unknown option, two names of one value | each token reads its value, arguments match placeholders, a wrong token refuses the query, a page's query counts as paged |
| `provisioning_read_committed` | Oracle; two grants (`DELETE`, `INSERT`) and a revoke of one user in transactions, and a grant without, pool of 2, up to 1 row at first, 1 failure | atomicity, or an initial part without a transaction; honest answers, connections returned, no more rows removed than were let through, grants and revokes in force, every call answered |
| `provisioning_mysql` | MySQL; two such grants and a revoke, pool of 2, 0 to 2 rows at first, 2 failures, 1 caller that gives up | serializability; calls given up in time |
| `routing` | every configuration of up to two static and two dynamic mappings; IDs with and without a colon | a call acts on the resource it was listed for and runs the queries of its own static mapping, and of no other entitlement's |
| `routing_dynamic` | the same, and the property `ThisEntitlement` | **violated**: with two dynamic mappings, the first with a provisioning section is always taken |
| `mapping` | every kind of listing, up to two rows and two mappings, cells of every type, up to two traits | each row goes through each mapping, a page is whole or an error, IDs are the same for every column type, a type of one trait is never refused |
| `mapping_zero` | the same, and the property `FalseKeeps` | **violated**: `skip_if` that is the integer 0 skips |

Bounds. A page boundary involves the last row of a page, the extra row after it
and the first row of the next page: with pages of one to three rows and four or
five keys there are up to five pages, and a write may fall on any side of each
boundary. Two writes allow a row to be deleted and inserted again, or two
different rows to move the boundary in opposite directions. In `Session` and
`GrantPages` a second failure interrupts a resumed sync before it catches up; a
store page of one row puts a page boundary after every row of a stage, and two
changes of the configuration take something away and bring it back. `MaxWrites`,
`MaxFailures`, `MaxChanges`, `MaxCancels` and `MaxRows` bound only how often other actors act;
the theorems do without any bound on them. Offset tokens grow at each page and
exceed the table after at most three. From three grants
queries to one, a checkpoint may name a query there is no longer. In provisioning, two
grants and a revoke of one user give every pair of conflicting calls, and on Oracle the two
rows that a later delete is refused for; calls for different users share the pool only,
and a pool smaller than the number of calls makes one wait. In routing and mapping, two mappings are enough for one to be
taken for the other, or to end a row for the other; a third adds nothing to either. Three
pieces of a query let two tokens surround a third one, the same or another. `CHECK_DEADLOCK FALSE` is set because a listing that is done
and calls that are answered stop.

Symmetry is not used: keys are ordered, and liveness is checked
with the calls of a provisioning instance.

Fairness. `Listing` and `GrantPages`: weak fairness of the sync loop with its
`Resume`: the loop is sequential code that takes its next step, and a stopped
sync is run again by its operator or scheduler (that one assumption is about the
environment; without it `Terminates` can only say "or stops"). Failures are finitely
many by their bound: a sync that failed for ever would not end. `Session` assumes the
same of its loop with `Resume` and `StartOver`, and weak fairness of `Age`: a week goes
by, which is what ends a sync whose checkpoint the connector can no longer serve.
`Provisioning`:
weak fairness of each call in progress: each has a goroutine of its own, a
database that makes a statement wait for ever ends the wait with an error, and
`db.Begin` is served when a connection is free. Weak fairness is enough there
because a connection, once free, stays free while others only finish. No write,
cancellation, failure or new call is forced.

## What is proved

`ListingProofs`:

- `TypeCorrect`: `Spec => []TypeOK`, for every strategy, query and driver order.
- For cursor listings (`CursorListing`: the strategy is `cursor`, the query uses
  `?<Cursor>`, no `?<Offset>`, and orders by its key): `CursorInvariant`, from which
  `CursorComplete`, `CursorResumeSafe`, `CursorAdvances` and
  `CursorImplementsContract` follow. They hold for any set of keys, any page
  limits, any number of writes, failures, retries and resumes, and both orders of
  storing and advancing.

The inductive invariant says, at each place of the loop, which lasting rows are
accounted for: every lasting row up to the saved token is stored; every lasting
row up to the token is stored or, where the token has moved first, in the page in
hand; and while a result is read, every lasting row after the token is in the page,
in the rest of the result, or beyond all of it, the last case only when the
result was cut by its limit. The safety properties alone are not inductive: at
`Return` nothing in `ResumeSafe` says that the rows beyond the last one are
still ahead. The refinement maps `Put` to `Collect`, `Finish` to `Finish`, writes to
themselves and everything else to stuttering.

- `CursorEachRowOnce`: a cursor listing without a failure stores no row twice. Its
  invariant `OnceInv` says that what is stored is not after the token, or after the
  token about to be taken, and that the page in hand is new. It also needs that the
  connector builder never refuses a cursor page (`NeverRefused`).
- `UnboundComplete`: where the query mentions neither `?<Cursor>` nor `?<Offset>`
  (`StartsOver`), under every strategy, an end is never reported falsely. Every
  page starts from the first row, so that a result either is the whole table or
  has the extra row that makes another page (`TableScanned`). For offsets `Complete` is
  false (`listing_offset_skips`), and for a cursor without an order nothing is promised.

`GrantPagesProofs`: `GrantsResumeSafe`, `GrantsOneQueryAtATime` and
`GrantsImplementContract`, for any number of queries, pages and failures. The
invariant says that the bag holds the first queries in their order, each with a
page left and only the last one started (`GoodBag`); that every page not stored is
ahead of the driver's place (`PlaceSafe`) and of its checkpoint (`BagResumeSafe`); and
that the pages an answer's token passes are in the answer (`ReplySafe`).

`SessionProofs`: `SessionTypeCorrect`, `SessionResumeSafe`, `SessionNoOrphans` and
`SessionImplementsContract`, for any types, resources, pages, configurations, page
size of the store and number of failures. The invariant `IInv` says of the stack and
of the checkpoint alike (`Good`) that their actions are in the order of their stages
(`Sorted`), that a stage points into the rows of the store and a listing at one of
them (`Sound`), and that together they lead to everything in `steady` that is not
stored. `ResumeSafe` alone is not inductive: a stage of grants leads to the grants
of a resource only if that resource will be a row, which needs the order of the
stages, and that the store only grows at its end. From `Sorted` follows the key
lemma (`Earlier`): when an action of a stage is on top, all that lasts of the
earlier stages is stored, so that the resource it lists, or will list, is there
(`RowsKept`, `TypesKept`, `SteadyKept`). The refinement maps `SyncResourceTypes`, `List`
and the types of `FailInPut` to `Collect`, `Reconfigure` to `Narrow`, `StartOver` and `EndSync` to
`StartOver` and `Finish`, and everything else to stuttering.

`SessionOnceProofs`: `SessionListedOnce`, that a sync without a failure asks for no page
twice, for every page size of the store, though the stages page over tables that
fill while they are read. The invariant `OnceInv` adds to `IInv`, as long as nothing
has failed, that no two actions of the stack lead to the same page (`Apart`), that
none leads to a collected one (`Fresh`), that the tables list each row once, and that
the types that are listed are served (`Asked`).

`QueryTextProofs`: `QueryTextTypeCorrect`, `QueryTextReadsItsValue`,
`QueryTextAllArgsUsed`, `QueryTextRefusedIfWrong` and `QueryTextPagedIfCut`, for queries of
any length and any names, values and engines. The invariant says that each piece
replaced so far has the form of its token and reads its value (`ReplacedRight`), that
there are as many placeholders as arguments (`Counted`), and that `failed` and `paged`
have a token as their reason; it is preserved because arguments are only appended,
which moves neither the number nor the place of a placeholder before them.

`ProvisioningProofs`: `ProvisioningTypeCorrect`, and from one inductive invariant
(`PInv`: per call, what is pending and durable at each place)
`ProvisioningAllOrNothing`, `ProvisioningHonestReply`, `ProvisioningReleased`,
`ProvisioningGivenUp` and `ProvisioningInOrder`; for any set of calls, any lists of
statements, pool sizes and numbers of failures. The key of the argument is that a
transactional call has nothing durable before its commit and everything pending
at it; for `ProvisioningGivenUp`, that a call given up in `db.Begin` never gets past
its first statement, because the context it ignores in `Begin` is checked there.

What concurrent calls do to each other's rows depends on the engine, and the theorems say
on which. `TxInv` (`ProvisioningTransactions`) is inductive on every engine: what an open
transaction has taken is at most one row for each of its deletes (`Tally`), and after a
delete as its last statement the rows that remain are its unseen ones (`LastDelete`). On
MySQL it also says that nothing is unseen (`SeesAll`), that while a call has deleted rows
of a user no other has rows of that user inserted and pending (`Alone`), and that nobody
fills the gap it leaves (`Gap`). With
it goes `RowsHeld`, part of `PInv`: nobody takes more rows than there are, and two
transactions never take rows of one user at a time, which every engine's row locks
give. From them follow

- `ProvisioningOneRowPerDelete`, without a hypothesis: the row count is looked at long
  before the commit, and what others commit in between does not make it wrong;
- `ProvisioningInForce`, if the last grant query inserts and the last revoke query
  deletes (`EndsAsAsked`; a configuration that ends otherwise does not do what it is
  asked). A grant that answers "ok" has a row on every engine. A revoke leaves none on
  MySQL; on the other two it leaves at most the rows others committed while it ran.

`LInv` (`ProvisioningLocks`) adds, on MySQL alone, that each delete of an open transaction
met one row at most of those it would meet if it ran now (`DeletesOne`). From it follows

- `ProvisioningSerializable`, the refinement of `AtomicProvisioning`, if `Engine = "MySQL"` and
  every call has a transaction (`NoTransaction = {}`, as in `provisioning_mysql`): `Commit`, and a
  `CommitFails` or a `Crash` whose commit was durable, are the steps at which a call
  takes effect (`ProvisioningStepSerializable`). A call without a transaction takes
  effect statement by statement, and no order of whole calls explains that. The
  lemmas `SeenNext` and `StatementSees` give the rows a call has seen after each of its
  statements in closed form (`RowsSeen`), which is how a list of any length is dealt
  with without an induction.

What is not promised on Oracle and SQL Server: there `Serializable` is false. Two grants
that delete and insert for one user, both with nothing to delete, both insert, and
the user is left with two rows; a revoke beside a grant may answer "ok" with the
row of the grant left. From two rows on, every later revoke or replacement of that user
is refused by the row-count guard (`ExecTooMany`). No line of the source says that
concurrent calls are serialized, so this is not among the findings.

`RoutingProofs`: `RoutingTypeCorrect`, `RoutingOnItsResource`, `RoutingOwnQueries` and
`RoutingNotForOthers`, for any configuration, any resource and mapping IDs and
any number of calls. The invariant `RInv` adds to type correctness that listed
entitlements keep the ID of the mapping that made them (`ListedInv`) and that the
last call ran what its ID selects (`CallInv`); the lemma `RoundTrip` says that taking an
ID apart undoes joining it when the resource's part has no colon, whatever is in
the mapping's.

`MappingProofs`: `MappingComplete`, `MappingWholePageOrError`, `MappingSameID` and
`MappingOneTrait`, for any configuration, page and cells. The invariant says that the
items so far are those of the rows and mappings already passed, one for each that
does not skip, in their order, and that none of these was broken (`ItemsSoFar`); that
each item is what its row and mapping make (`ItemsFromRows`); and what each outcome says
of the page (`OutcomeRight`).

The assumptions are those the modules state about their constants
(`PageSizeAssumption`, `QueryAssumption`, `ListingAssumption`, `GrantPagesAssumption`,
`SessionAssumption`, `QueryTextAssumption`, `ProvisioningAssumption`,
`RoutingAssumption`, `MappingAssumption`), which TLC evaluates in every run, and the
hypotheses named above. `MappingAssumption` says of the rows that a Boolean column
reads true or false (`IsPage`).

Only model-checked: liveness (`Terminates` of `Listing`, `GrantPages` and `Session`, and
`Answered`), which is out of the prover's reach under fairness. Every invariant, action
property and refinement that a passing run checks is also stated by a theorem.

## What the project found

1. Offset pagination skips rows from the third page on: `nextPageToken`
   (`query.go:188`) multiplies an offset that already counts rows by the page size.
   Run `listing_offset_skips`.
2. `getProvisioningConfig` (`provisioning.go:31`) takes the first dynamic mapping with
   a provisioning section, whichever entitlement was asked for: an entitlement of one
   mapping is granted with the queries of the other. Run `routing_dynamic`; what remains true for static ones is in `routing`.
3. `EvaluateBool` (`bcel.go:96`) compares an integer in an interface with the constant
   0, which is never equal, so that a `skip_if` of 0 skips. Run `mapping_zero`.

Noticed without a run of its own: an entitlement of a resource whose ID holds a
colon comes back as one of another resource (`helpers.go:12`), which is why the
routing properties speak of IDs without; a resource type with two traits declares
both and maps one (`resources.go:43`), and the driver refuses its resources; the
error of `query.go:328` announces a rollback also where `no_transaction` leaves
nothing to roll back; a static entitlement with a slug loses it
(`entitlements.go:33`), and its `grantable_to` is not read; one resource type that
cannot be built leaves the connector without any, silently (`connector.go:39`),
and the next new sync ends empty and successful, which `Session` has but no
property calls wrong; a variable of a provisioning section whose name has an
upper-case letter is never found (`query.go:270`), which is why `RefusedIfWrong` has
its second condition; on Oracle the empty cursor of a first page is `NULL`
(`query.go:250`); `preprocessExpressions` takes a dot for a column also after a closing
parenthesis or bracket and inside a quoted literal (`helpers.go:29`); on Oracle and SQL
Server two concurrent grants that replace a row leave two (`query.go:296`).

## Not modelled, and the plan

In order of importance:

1. `Slugify` and the PHP decoder as pure functions against reference definitions.
2. The rest of `Expressions`: `preprocessExpressions` inside longer expressions,
   and the user traits' words for statuses and account types.
3. Proofs of what remains true where a run finds a violation: offset listings of a
   table nobody writes are complete up to two pages; dynamic mappings of which one
   has a provisioning section run their own queries; conditions that are not
   integers keep what is false.

Left out for good: YAML decoding, flags, DSN expansion, the drivers, the CEL
evaluator, metadata and logging (no state of their own, or I/O), and the parts of
baton-sdk this connector does not use (tickets, accounts, credentials, assets).
