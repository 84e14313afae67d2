# Verification of tax-bro

tax-bro collects the Solana transactions of its users' wallets. A background
job, `pkg/wallet_sync`, reads the transactions of a wallet from an RPC node and
writes them to Postgres; a web server signs users in with GitHub; a command
migrates the schema. This directory holds TLA+ models of the parts whose
correctness is hard to test, the TLC runs that check them, and proofs that
TLAPS checks.

## 1. The system

| Part | State | Operations | What it talks to |
|---|---|---|---|
| fetcher (`wallet_sync.go:570-591`, `83-184`) | the request in hand, `getSignaturesOpts.Until`, the page, `newLastSignature` | `load`, `updateStatus`, page loop, `append(last)` | reads `sync_wallet_request`, `wallet`, `signature`, `transaction`; RPC node; appends to the message queue |
| writer (`wallet_sync.go:593-612`, `186-563`) | `u`: wallet, transactions, signature ids, last signature | `processMessages`, `saveTransactions`, `updateUser`, `deduplicateTimestamps` | takes from the message queue; writes `signature`, `transaction`, `instruction`, `wallet_to_signature`, `wallet` |
| message queue (`wallet_sync.go:36-81`) | a slice under a mutex, in memory only | `append`, `appendMessages`, `walk` | shared by the two goroutines |
| sync requests (`db.go:17-61`, `03_user_txs.up.sql:45-53`) | one row per wallet: `queued`, `processing`, `done` | insert and re-queue (clients), `load`, `updateStatus` | clients and the fetcher |
| RPC access (`rpc.go`) | none | `callRpcWithRetries`, `fetchTransaction`, decoding | the RPC node |
| row codec (`db.go:63-301`, `rpc.go:18-149`) | tables `address`, `signature`, `transaction`, `instruction`; the ids in hand during a `saveTransactions` | `decompileAccounts`, `setFromCompiled`, `signatures.save`, `accounts.save`, `getId`, `prepareForInsert`, `transactions.Get` | what the chain says of accounts, to rows and back; clients who insert addresses |
| instruction parser (`parser.go`) | none | `Parse`, a stub that returns nothing | fetcher |
| sign-in, sessions (`view/routes/signin`, `signout`, `view/middlewares/auth.go`) | tables `user`, `github_auth_data`, `session`; the `auth` cookie | authorize, callback, sign-out, the check before `/dashboard` | GitHub, browsers, concurrently |
| migrations (`cmd/migrate/main.go`) | the `migration` row, the schema | `-latest`, `-zero`, `-steps` | Postgres |
| web server, pages, test environment | none of their own | | |

A failed `utils.Assert` is `log.Fatalf`: the process ends at once, both
goroutines with it; Postgres rolls an open transaction back, the queue is lost.
Nothing in the repository starts it again, calls `RunWalletSync`, inserts
wallets or requests: these are the environment of the model.

What is hard here:

* the fetcher and the writer interleave at every RPC call, lock and database
  transaction, and both read the database while the other acts on it;
* the cursor `wallet.last_signature_id` decides what will never be asked for
  again, and reaches the database through the queue, in a batch of its own
  making, after the transactions it vouches for or not;
* the process may end anywhere, with the database between two transactions;
* clients may ask for a wallet again at any moment.

What makes each part correct:

* **synchronisation**: no transaction below a cursor is missing; counts and
  links agree; links are the wallet's own; what was queued is linked in the end;
* **queue**: nothing lost or taken twice, batches of one wallet, bounded;
* **requests**: none lost between the client and the fetcher; each gets done;
* **row codec**: an id stored for an account names the address the chain names
  there; what is saved is read back; a batch is saved whole or not at all;
* **sessions**: a browser's cookie leads to the session it opened and to the
  user GitHub answered with; no session for a user without GitHub data; what
  costs a session its cookie, and with it keeps its user out, is known;
* **migrations**: the checkpoint names the last migration applied; a run commits
  what its flags ask for; the command can be run again.

`PROJECT.json` lists the components, and under `hazards` each place where one of
these may fail, with the properties that would notice.

## 2. The modules

| Module | What it is |
|---|---|
| `WalletLedger` | the abstract specification: what a reader of the database may rely on |
| `WalletSync` | the two goroutines, the queue, the database, crashes and restarts |
| `Sorting` | a set in the order of a key: the rows of an `ORDER BY`, the messages of a slice |
| `MsgQueue` | `walk` and `processMessages` as the loop they are, over the queue of `WalletSync` |
| `MCWalletSync` | small wallets and chains for TLC |
| `WalletSyncProofs` | type correctness |
| `WalletCursorProofs` | the inductive invariant `NothingSkipped`, refinement of the ledger, the cursor's action properties |
| `WalletBatchProofs` | the bound of a batch, when a transaction is inserted once, and that a full page has no end |
| `SortingLemmas` | what sorting by a key gives, for a set of any size |
| `MsgQueueProofs` | the loop of `walk` and the formula `Taken`, for a queue of any length |
| `SavedBatches` | the abstract specification of `saveTransactions` |
| `RowCodec` | its statements, and the way of a transaction's accounts from the RPC node to the rows and back |
| `MCRowCodec` | four transactions over three addresses for TLC |
| `RowCodecProofs` | the inductive invariant of `RowCodec`, what is read back, refinement of `SavedBatches` |
| `SignIn` | the web server's handlers around a session, browsers and their cookies |
| `MCSignIn` | tabs, browsers and accounts for TLC |
| `SignInProofs` | the inductive invariants of `SignIn`, and what costs a session its cookie |
| `Migrate` | runs of the migration command, the `migration` row, what the scripts create, need and drop |
| `MCMigrate` | the repository's four migrations for TLC |
| `MigrateProofs` | the inductive invariant of `Migrate`, and what a run commits |

`WalletSync` extends `WalletLedger`: the four variables of the ledger are also
variables of the detailed model, so the refinement mapping is the identity and
`ImplementsLedger` is the ledger's `Spec`.

`SavedBatches` is where the writer's two models meet. In `WalletSync`
`saveTransactions` is one step, in `RowCodec` five statements, a `COMMIT`, and
whatever ends them early. `RowCodec` is shown to implement it
(`ImplementsBatches`), which is why the step in `WalletSync` may be one: it says
by definition what `SavedBatches` says, so nothing is checked of it there.

### State of WalletSync and the code

| Variables | Code |
|---|---|
| `height`, `Involves` | the chain; transaction `s` is the `s`-th confirmed |
| `saved` | rows of `signature` and `transaction`, written together; an id stands for its value |
| `links`, `signatures`, `last` | `wallet_to_signature`, `wallet.signatures`, `wallet.last_signature_id` |
| `status`, `created`, `requests` | `sync_wallet_request`, its rank by `created_at` |
| `queue`, `position` | `msgQueue.items`; each message carries its place in the order of appending |
| `fpc`, `fwallet`, `funtil`, `fpage`, `ftodo`, `fnewest` | the fetcher: where it is, `req`, `Until`, `signaturesRes`, what is left of it, `newLastSignature` |
| `wpc`, `uwallet`, `utxs`, `uids`, `ulast` | the writer: where it is, and the fields of `u` |
| `process`, `cancelled`, `restarts` | the process, `ctx.Done()`, the operator |

An action is what happens between two points at which anybody else can notice:
one RPC call, one critical section, one committed database transaction.

| Action | Code |
|---|---|
| `Load`, `UpdateStatus` | `db.go:38-61`, `db.go:23-30`, called at `wallet_sync.go:579-587` |
| `FetchSignatures`, `GetSavedTransactions`, `FetchTransaction`, `AppendLast` | the page loop, `wallet_sync.go:83-184` |
| `ProcessMessages` | `walk` under the mutex, `wallet_sync.go:430-473` |
| `SaveTransactions` | one database transaction, `265-325`; two of its three outcomes end the process |
| `UpdateUserSignatures`, `UpdateUserLastSignature` | the links and their count, `327-361`, and the cursor, `363-376`, of `updateUser` |
| `DeduplicateTimestamps` | called at `609`; `475-501`, where its query fails |
| `FetcherReturns`, `WriterReturns`, `Return` | `ctx.Done()`, `wg.Wait()` |
| `ConfirmTransaction`, `RequestSync`, `Kill`, `Cancel`, `Restart` | the chain, clients, operator |

`Taken(w)` says what `walk` takes without walking: a message of the batch's
wallet is taken if at most `BatchCap` messages of either kind were taken before.
`MsgQueue` has the loop: its index, the item deleted under it, the end of the
slice and `exitEarly` tested before each item; `Turns[k]` is where it is after `k`
turns. `WalksTheQueue` compares the two at every batch. `associatedAccounts`, the third counter of `exitEarly`, is always
empty.

`Rejected` are the transactions the schema refuses: those with an inner
instruction (`ix_index` is no column of `instruction`) and those with an
instruction without accounts (a nil `pq.Int32Array` is NULL).

`CallsDedup` is TRUE for `RunWalletSync`, which calls `deduplicateTimestamps` at
`wallet_sync.go:609`, at the end of each turn of the writer: no life of it gets
beyond its first batch. With FALSE this call is left out, and the same functions
run in the order `TestWalletSync` calls them. That is not what `RunWalletSync`
does today after a first batch, and no run with FALSE claims it; it is where
batches can follow each other, and what the code is once that query works.

### State of SignIn and the code

`SignIn` shares nothing with the synchronisation: the web server and
`RunWalletSync` meet in no table.

| Variables | Code |
|---|---|
| `users`, `githubAuth`, `sessions`, `nextUser`, `nextSession` | the tables `user`, `github_auth_data`, `session` (`01_user.up.sql`), the sequence and the uuids behind their ids |
| `cookie` | the `auth` cookie of each browser; `NoSession` is no cookie, or `DeletedAuthCookie` |
| `opened` | history, in no variable of the code: which browser's callback opened a session, and for which account |
| `kind`, `sent`, `pc`, `account`, `user`, `reply` | a request of a tab: its route, the cookie that came with it, the handler's next statement, `userData.Id`, `savedUser.Id` or `UserId`, the cookie its response sets |

| Action | Code |
|---|---|
| `CheckIsSignedIn` | `authorize_handler.go:16-36`, first in both sign-in handlers; with it the redirects that end `AuthorizeHandler` |
| `Exchange` | the two calls to GitHub, `callback_handler.go:25-85` |
| `LookupUser`, `InsertUser`, `InsertAuth`, `InsertSession` | the four statements of `CallbackHandler`, `119-155`, none of them in a transaction |
| `Signout`, `Middleware` | `signout_handler.go:18-33`, `auth.go:19-54` |
| `Fail` | a statement or a call that fails: 500 |
| `Send`, `Receive`, `Lose`, `Expire`, `Kill` | tabs, network, the cookie's `MaxAge`, the operator |

A statement that is executed although its answer is lost needs no action of its
own: it is the statement, then `Fail` at the next one, or `Lose`. A query that
could match several rows takes any of them; that there is only one is shown.
`Exchange` may get any account, whoever is at the browser: `CallbackHandler` takes
the `code` of any URL (`callback_handler.go:100-111`), and `AuthorizeHandler` sends
no `state` that would tie the two together (`authorize_handler.go:51-57`). `Answers`
adds account `Nobody` (id 0) when GitHub answers with an error document, whose
fields the decoder does not find; a `code` used twice is enough for that.

### State of RowCodec and the code

| Variables | Code |
|---|---|
| `addressId`, `signatureId` | tables `address`, `signature` (`02_txs.up.sql:8-20`): the id of a value, 0 when it has no row; that they are functions is the UNIQUE of `value` |
| `transaction`, `instruction` | the columns `signature_id`, `index`, `program_account_id`, `accounts_ids` of those tables |
| `nextAddress`, `nextSignature` | the sequences behind the SERIAL ids; a rollback does not give ids back |
| `pc`, `batch`, `signatures`, `accounts` | `saveTransactions`: its next statement, `u.transactions`, `insertedSignatures`, `insertedAccounts` |

| Action, operator | Code |
|---|---|
| `DecompileAccounts`, `SetFromCompiled`, `Ixs`, `InnerIxs` | `fetchTransaction`, `rpc.go:18-30`, `92-103`, `169-188` |
| `Begin`, `SaveSignatures` | `wallet_sync.go:265-286`, `db.go:70-83` |
| `SelectAddresses`, `InsertAddresses` | the two statements of `accounts.save`, `db.go:102-143` |
| `Write` | `prepareInsertableComponents`, the three INSERTs and `COMMIT`, `wallet_sync.go:200-325` |
| `Get`, `SelectAccounts`, `Visible` | `transactions.Get`, `db.go:205-301` |
| `Kill`, `InsertAddress` | the operator, or the database; clients |

What the transaction has inserted is in `signatures` and `accounts` until `Write`
makes it visible. A client who inserts an address the writer has inserted waits
for the writer, so `InsertAddress` is not enabled then; a client may come between
`SELECT` and `INSERT`, and then the `INSERT` fails and the process ends. Ids of
one statement are given out without gaps in the model; clients might take some in
between, but no property depends on which ids are skipped. Indexes begin at 1. A
signature's row is that of its transaction, so `signatureId` is indexed by
transactions.

### State of Migrate and the code

| Variables | Code |
|---|---|
| `table`, `checkpoint` | the table `migration` and the `name` in its one row |
| `applied` | the migrations whose tables are there |
| `flags`, `pc`, `name` | of each run of the command: its flags, its next statement, the checkpoint it has read |
| `careful` | nobody has yet mixed `-zero` with another flag, nor run downwards beside another run |

| Action, operator | Code |
|---|---|
| `Start` | the flags, `main.go:153-169` |
| `ReadCheckpoint`, `CreateTable` | `171-185`; every error of the first is taken for a missing table |
| `Lo`, `Hi`, `NewCheckpoint` | `prepareMigrations`, `49-105` |
| `Execute` | `executeMigrations`, `107-151`: one database transaction |
| `Kill` | the operator; a failed connection |

What the scripts need of each other is read off `db_migrations`: the rows they
put into `with_timestamps`, foreign keys, what a `DROP` would have to cascade to.
`Execute` is atomic: of two transactions that change the same tables Postgres
makes one wait, after which its `CREATE` fails or its `DROP ... IF EXISTS` finds
nothing. The script that undoes `03_user_txs` is called `03_user_tsx`: a run
downwards does not find the checkpoint among its files, and `Lo` and `Hi` say what
happens then. Runs that are not careful are in the model like the others.

## 3. The runs

| Run | Checks | Shows |
|---|---|---|
| `SafetyAsRun` | `LinksAreOwn`, `CountMatchesLinks`, `CursorCovers`, `ImplementsLedger`, `ShutdownAsRun` | `RunWalletSync`, ended in every way there is, leaves a database that claims no more than it holds; cancelled, it ends, by returning or in a failed assertion, unless it is on a full page |
| `SafetyAsTested` | `TypeOK`, `NothingSkipped`, `BatchBounded`, `CursorMovesForward`, `NoCursorDropped`, `WalksTheQueue` | the same functions without `deduplicateTimestamps`, over lives of several batches, with the inductive invariant; a batch is what the loop collects |
| `Liveness` | `QueuedOnce`, `SignaturesInserted`, `SyncCompletes`, `ShutdownCompletes` | without `deduplicateTimestamps`, full pages, shared transactions and hasty clients: what a queued wallet had is linked in the end, each transaction queued and inserted once whatever was left half done; cancelled goroutines return |
| `SignIn` | `TypeOK`, `SessionsResolve`, `CookieAsAnswered`, `HeldUntilLost` | sign-ins that race, fail and restart keep accounts, users, sessions and cookies together, and a session loses its cookie in five ways only |
| `SignInCalm` | `SignInCompletes` | while nothing is lost, one of the racing sign-ins of a new account succeeds |
| `RowCodec` | `TypeOK`, `IdsResolve`, `ReadBack`, `UpdateIsValid`, `ImplementsBatches` | however batches are rolled back and clients insert addresses meanwhile, the ids stored name the chain's accounts and `transactions.Get` finds them |
| `Migrate` | `TypeOK`, `CheckpointExact`, `AlwaysWorks`, `CommitsAsAsked` | runs of the command that overlap, fail and are killed leave checkpoint and tables together while operators are careful, and those that commit do what their flags ask of the version then there |
| `DoneStatus` | `RequestReachesDone` | violated: a request stays `processing` |
| `RepeatedRequest` | `SignaturesInserted` | violated, by `RunWalletSync` in its first batch: a wallet asked for again too early has its transactions inserted twice |
| `RejectedInstruction` | `InstructionsInserted` | violated: an inner instruction, or one without accounts, ends the process |
| `FullPage` | `QueuedOnce` | violated: a full page is fetched again, for ever |
| `RepeatedAccount` | `AccountsAsListed` | violated: an account named twice is read back once |

Each property of a passing run comes with a mutant: a definition of the model
changed the way the code might have been written wrong (under the comments that
begin with "Mutant"), for which TLC finds the property violated.

### Bounds

* Two wallets and three transactions, the middle one shared: enough for a page
  that is saved in part, for both wallets in the queue at once, for a cursor
  between two others. `height` starts anywhere, so that transactions come
  before, during and after a synchronisation.
* `Limit` is the page size (100 in the code). 3 in `SafetyAsRun`: a page of w1
  can be full. 4 elsewhere: no page is full, three transactions and their cursor
  fit one synchronisation. `FullPage` and `RepeatedRequest` have 3 transactions of
  one wallet.
* `BatchCap` is 1 (20 in the code): a batch ends after two transactions, so the
  third and the cursor are left to the next.
* `MaxRequests` 3: a wallet asked for again while it is under way, and the other
  one. `EagerRequests` FALSE restricts clients to asking again only when nothing
  of the wallet is in memory.
* `MaxRestarts` 1 or 2: a life after an interrupted one, and a third after that.
* `MaxPosition` keeps the endless page loop finite: no page is asked for a second
  time once the queue has seen that many messages. The first page of a
  synchronisation always is, so the bound stops nothing but that loop.

* `SignIn`: two tabs of one browser, so that two handlers hold the same cookie
  and its responses cross, and a tab of another browser; two accounts, either of
  which any callback may be answered with; four requests, enough for a session,
  its sign-out, and two callbacks that race around it. The two accounts, and the
  two tabs, are interchangeable (`Alike`). `SignInCalm`: one tab each for three
  browsers, four requests: three callbacks that race, and a sign-out or another
  sign-in beside them.

* `RowCodec`: a transaction whose instruction names an account twice, one with
  loaded addresses of both kinds and two instructions, one with an inner
  instruction and one without accounts, which the schema rejects; batches of two,
  so that a transaction may be twice in one or saved before; three batches, so
  that one that is rolled back comes between two others.
* `Migrate`: the four migrations of the repository; four runs, two at a time, the
  least at which a stale checkpoint meets a newer one and somebody then looks at
  the result; `-steps` of up to two either way, enough to stop short, to end exactly
  at either end, and to ask for more than is left.

The systems stop when no request is left, so the runs do not check deadlock.

### Fairness

`FairSyncSpec` asks for weak fairness of the fetcher's and the writer's steps:
the Go scheduler runs both, the tickers keep firing, a failed RPC call is
repeated (`callRpcWithRetries` never gives up, because it never counts) and the
node is assumed to answer in the end. The two returns have strong fairness:
`select` chooses at random among the ready cases, so a loop that comes back to it
again and again with `ctx.Done()` closed does not miss it for ever. Nothing is
assumed of clients, operator or chain.

`SyncCompletes` and `ShutdownCompletes` are checked in `Liveness`, for the functions
as tested: `RunWalletSync` itself ends in `deduplicateTimestamps` after its first
batch. No transaction is shared and none rejected, no page is full and clients
wait: without these the process ends in a failed assertion, or the page loop does
not end at all.

Of `RunWalletSync`, with all of that, `SafetyAsRun` checks what is left:
`ShutdownAsRun`. Once cancelled it comes to an end, where a failed assertion of a
writer that takes one more batch is an end too; only a full page keeps it.

The conditions of `Liveness` also make `QueuedOnce` and `SignaturesInserted` hold,
which `FullPage` and `RepeatedRequest` show violated without them.

`RowCodec` and `Migrate` have no liveness property and ask for no fairness.

`SignIn`'s `FairSpec` has weak fairness of each tab's request: net/http runs every
handler, and the database, GitHub and the network answer (`SignInCalm` has no
disturbances). No tab has to send anything.

## 4. The proofs

Those of the synchronisation are for any wallets, chain, sharing, limits and bounds, from the assumptions
`LedgerAssumption` and `SyncAssumption` (types of the constants, finitely many
wallets, a page size above zero), which TLC evaluates in each run.

| Theorem | Says |
|---|---|
| `TypeCorrect` | `SyncSpec => []TypeOK` |
| `NothingIsSkipped` | `SyncSpec => []NothingSkipped` |
| `CursorIsCovered`, `CountIsExact`, `LinksStayOwn` | the ledger's invariants |
| `Refinement` | `SyncSpec => ImplementsLedger` |
| `CursorIsMonotonic`, `CursorsAreKept` | the action properties |
| `BatchIsBounded` | `SyncSpec => []BatchBounded` |
| `TheQueueIsWalked` | `SyncSpec => WalksTheQueue` |
| `TransactionsAreQueuedOnce`, `SignaturesAreInserted` | `SyncSpec => []QueuedOnce`, `[]SignaturesInserted`, if no transaction is shared, no page full and clients wait |
| `AFullPageIsEndless` | `SyncSpec => FullPageIsEndless`: a fetcher on a full page is so until the process ends |

The argument. `CursorCovers` is not inductive: a cursor reaches `wallet` after a
journey through the fetcher, the queue and the writer, and at each stage one has
to know where the transactions it vouches for are. `NothingSkipped` says so,
stage by stage:

* `DatabaseInv`: everything at or below the stored cursor is linked;
* `WriterInv`: everything at or below `ulast` is linked or in the same batch, and
  after the first half of `updateUser` it is linked;
* `CursorsInv`: everything at or below a queued cursor is linked, in the
  writer's hands, or queued *before* that cursor; cursors of a wallet are queued
  in order, or are not above the stored one;
* `FetcherInv`: everything up to `newLastSignature` is linked, in the writer's
  hands, queued, or still on the page, once the page is known to be the last one;
  and no cursor queued is ahead of it;
* `QueueInv`: messages are of their wallet's transactions, and those of kind
  "saved" really are saved, without which the cursor could become NULL.

A batch is a prefix of its wallet's messages (`TakenIsPrefix`), which is what
lets a cursor's transactions arrive with it or before it. `LedgerStep` then reads
each step as a step of the ledger or as a stutter. For `BatchBounded` no two
messages have the same position, so the number of messages of a kind before it
differs for each message taken, and is between 0 and `BatchCap`.

For `TheQueueIsWalked` the loop is followed turn by turn. The messages it has
looked at are a set `D`, which grows by the next one in the order of the slice
with each turn (`NextIsTaken`, `TurnPasses`); what it has collected is `Taken`
within `D`, what is left in the slice is the rest, sorted (`RemovedSorted`), and
the index is behind what it passed over. The counters of `exitEarly` are then the
cardinalities in `Taken`, so the loop stops where the formula does
(`LoopTakes`), and after as many turns as messages there is nothing left to look
at. That `Turns`, a recursive function on the naturals, exists at all is proved
(`TurnsDefined`). The induction is by least counterexample (`Smallest`).

For `SignaturesAreInserted`, `OnceInv` says that a transaction is in at most one
place: what the fetcher has yet to fetch, the queue, the writer's batch, the
database. That nobody appends it a second time needs `WaitingInv`: a wallet is
queued only while nothing of it is in memory, and while the fetcher asks for a page
nothing of that wallet is. Each condition is used once: histories do not meet
(`NothingShared`), the loop does not come back to its page (`NoPageFull`), and
`~EagerRequests` is `WaitingInv`'s first line. `CallsDedup`, `Rejected`, kills and
restarts are left free. `AFullPageIsEndless` is the other side: with a full page
above `until` the loop comes to no cursor, in any instance, not just in `FullPage`.

`SortingLemmas` has what several of these rest on: a sequence sorted by a key
that differs lists each element of the set once, increasing (`Sorted`), and it is
the only one that does (`IncreasingIsSorted`).

Those of `SignIn` are for any tabs, browsers and accounts, from `SignInAssumption`
(types of the constants; no account has id 0):

| Theorem | Says |
|---|---|
| `TypeCorrect` | `Spec => []TypeOK` |
| `AccountsAndUsersMatch` | `Spec => []SessionsResolve` |
| `CookiesAreAsAnswered` | `Spec => []CookieAsAnswered` |
| `SessionsAreHeldUntilLost` | `Spec => HeldUntilLost` |

The argument: a user between its two inserts belongs to one handler and has no
account yet (`FreshUser`), so the loser of a race leaves a user that nothing
refers to; a handler about to open a session has its row in `github_auth_data`
(`KnownUser`), and rows there are never changed. Session ids are not used twice,
so an id a browser holds, has sent or is about to get names a session that a
callback of this browser opened, or none (`OwnInv`), in whatever order responses
arrive. For `HeldUntilLost`, a handler that replaces or deletes the cookie it was
sent has seen its session gone, or made it so, or its query failed (`Waiting`): so
an answer that takes the cookie of a session still there was sent with another
cookie, or is that of a failed check. No condition on tabs or on what goes wrong is
needed.

Those of `RowCodec` are for any chain, addresses and bounds, from
`RowCodecAssumption` (types of the constants; instructions name keys their
transaction has; finitely many addresses):

| Theorem | Says |
|---|---|
| `TypeCorrect` | `Spec => []TypeOK` |
| `IdsAlwaysResolve` | `Spec => []IdsResolve` |
| `UpdatesAreValid` | `Spec => []UpdateIsValid` |
| `WhatIsSavedIsReadBack` | `Spec => []ReadBack` |
| `Refinement` | `Spec => ImplementsBatches` |

The argument: ids in a table are below the sequence and no two rows share one
(`UniqueInv`); what is in hand between two statements has ids of its own, or those
of rows that are there (`SignatureInv`, `SelectedInv`, `InsertedInv`), although
clients insert more in between; and after `InsertAddresses` every address of the
batch has one. Rows once written stay right because ids are never taken back nor
given out twice.

For `WhatIsSavedIsReadBack` one has to know that no row is missing or strange:
`RowsInv` says that a signature that is visible has its transaction and one row per
instruction, with the pair of signature and index as their key, and
`SignatureIdInv` that no two transactions share an id. The rows of a transaction
are then in bijection with its instructions, and sorted by index they are them, in
order (`SortedRows`). `SelectedAccounts` shows that the ids that `ANY` selects,
sorted by `array_position`, are the first occurrences in the list (`FirstPlace`).

Those of `Migrate` are for any scripts, requirements between them, runs and flags,
from `MigrateAssumption`:

| Theorem | Says |
|---|---|
| `TypeCorrect` | `Spec => []TypeOK` |
| `CheckpointIsExact` | `Spec => []CheckpointExact` |
| `NeverStuck` | `Spec => []AlwaysWorks` |
| `RunsCommitAsAsked` | `Spec => CommitsAsAsked` |

The argument: a run upwards may hold an old checkpoint, but never a newer one than
is stored (`HasRead`), and if it is behind, its first `CREATE` finds a table that is
there and the whole transaction fails; a run downwards, as long as everybody is
careful, is alone (`Alone`), so what it has read still holds. For `CommitsAsAsked` it
follows that a run that commits a change has read the checkpoint that is there
(`ExecuteVersion`), and its range is then what the flags say.

Every safety property of a passing run is a theorem. Only model-checked: liveness
(`SyncCompletes`, `ShutdownCompletes`, `ShutdownAsRun`, `SignInCompletes`), which
needs fairness and ENABLED and is out of the prover's reach; what the runs with an
expected violation show is a counterexample each, not a proof.

## 5. What the code does not do

Five places where the code disagrees with what it, or its tests, say (`findings` in
`PROJECT.json`), each with a run whose counterexample shows the way there.
Except for the first, whose run goes on after a first batch to show that nothing
sets the status then either, `deduplicateTimestamps` is called as `RunWalletSync`
calls it:

* a request never becomes `done` (`DoneStatus`);
* a wallet asked for again while its request is `processing`, and before its
  transactions are saved, has them queued twice: its first batch inserts a signature
  twice and the process ends (`RepeatedRequest`);
* a transaction with an inner instruction, or with an instruction without
  accounts, cannot be saved (`RejectedInstruction`);
* a full page is fetched for ever (`FullPage`);
* an account an instruction names twice comes back once (`RepeatedAccount`).
  `db_test.go:100-104` expects it at both places, but the loop after it compares only
  those that come back. `GetAccountAddress(idx)` of a saved instruction may thus be
  another account than of the same instruction just fetched; no parser calls it
  yet. `ReadBack` says what the code does instead.

Two more that need no run. `deduplicateTimestamps` always fails: it selects
`t1.block_time`, which `transaction` does not have (`02_txs.up.sql:27` calls it
`timestamp`), and the destination is no pointer, so `wallet_sync.go:501` ends the
process after the first batch of each life. And once that works, a transaction two
wallets share is inserted twice when both are synchronised before it is saved, by
the batch of the second: `SignaturesInserted` needs that nothing is shared.

Behaviour worth knowing, though nothing in the repository says otherwise: a crash
leaves the request `processing`, and only a client that re-queues it makes the
wallet synchronised; the program has to be started again from outside.

A session is deleted only by a sign-out that brings its cookie, and
`session.user_id` is UNIQUE: a user signs in at one browser at a time, and once the
cookie has expired, or the answer that set it was lost, its user's callbacks answer
500 for good. So they do when a second tab's late answer deletes the new cookie
(`checkIsSignedIn` had seen the old one), and when the query of `checkIsSignedIn`
fails and the cookie is deleted for it. `HeldUntilLost` says that this is the whole
list.

An error document of GitHub decodes to account 0: everybody who gets one signs in
as the same user. `CookieAsAnswered` treats account 0 like any other, and says
nothing of whose account the answer ought to have been: the handler cannot know.

The migration command takes `-zero` together with `-latest` or `-steps`, goes by
the other flag, and clears the checkpoint: `-zero -steps 1` on an empty database
leaves the first migration applied and no checkpoint, and from then on every run
fails. Two runs downwards that overlap both compute their range from the
checkpoint they read; `DROP TABLE IF EXISTS` lets the second through, and it
writes a checkpoint above what is still applied. `CheckpointExact`, `AlwaysWorks`
and `CommitsAsAsked` are therefore stated for `careful` operators, and show nothing
of these two; without either half of that condition TLC finds the first two violated.

The `accounts_ids` of a transaction begin with as many zeros as it has accounts,
which name nothing (`IdsResolve`).

## 6. Not modelled

* Associated accounts: the parser returns none, so `updateUser`'s third part
  (`wallet_sync.go:378-427`) is never reached.
* `deduplicateTimestamps` behind its failing query (`wallet_sync.go:503-563`).
* A confirmed transaction that the chain drops again: `confirmed` commitment is
  taken as final.
* Failures of the database itself: each is a `log.Fatalf`, so `Kill` covers it. That
  a failed transaction is rolled back is taken from Postgres: in `WalletSync` and
  `Migrate` a transaction is one step, in `RowCodec` its statements are.
* Instruction data and logs: bytes that are passed on. Data is written to a BYTEA
  column as hex text and comes back as the hex of that text, which `GetData` could
  not decode; a log that happens to be base64 is stored decoded. Nothing reads
  either yet.
* What `transactions.Get` makes of inner instructions: none can be saved.
* The instruction parser, a stub; the retry loop of `callRpcWithRetries`, which
  has no state: it shows as a fetcher that may wait for the node for ever, and as
  the fairness the liveness properties need.
* Browsers that keep a permanent redirect; pages, the test environment.

## 7. Plan

1. Done: the synchronisation, its ledger, its safety proofs.
2. Done: `MsgQueue`, the loop behind a batch, as a property of `WalletSync`'s runs,
   and proved for queues of any length.
3. Done: `RowCodec` and its proofs, with `SavedBatches`, which says what `WalletSync`
   may take for one step.
4. Done: `SignIn` and its safety proofs. Left: the permanent redirects a browser
   may keep.
5. Done: `Migrate` and its proofs.
6. Left: the rest of `deduplicateTimestamps` and of `updateUser`, once the code
   reaches them.
