----------------------------- MODULE WalletSync -----------------------------
(***************************************************************************)
(* pkg/wallet_sync: RunWalletSync and the two goroutines it starts.        *)
(*                                                                         *)
(* The FETCHER takes the oldest queued sync_wallet_request, asks the RPC   *)
(* node for the signatures of the wallet that are newer than its cursor,   *)
(* and appends one message per transaction to a queue in memory, then one  *)
(* message with the new cursor.  The WRITER takes the messages of one      *)
(* wallet off the queue, inserts the transactions, links them to the       *)
(* wallet and moves the cursor, in three database transactions.            *)
(*                                                                         *)
(* An action is the code between two points where the other goroutine, a   *)
(* client of the database or a crash can be noticed: one RPC call, one     *)
(* critical section of the queue's mutex, one committed database           *)
(* transaction.  A failed utils.Assert calls log.Fatalf: the process ends, *)
(* Postgres rolls the open transaction back and the queue is gone.         *)
(***************************************************************************)
EXTENDS WalletLedger

CONSTANTS
  NoWallet,        \* u.walletId = -1; no request in the fetcher's hands
  Rejected,        \* transactions whose rows violate the schema, see below
  Limit,           \* page size asked of the RPC node: 100
  BatchCap,        \* processMessages exits above this many messages: 20
  CallsDedup,      \* TRUE: RunWalletSync.  FALSE: the same functions in the
                   \* order TestWalletSync calls them, without the call to
                   \* deduplicateTimestamps at the end of each turn, so not
                   \* what RunWalletSync does after its first batch
  Disturbances,    \* subset of {"kill", "cancel"}: what the operator may do
  EagerRequests,   \* TRUE: clients may ask again while a sync is under way
  MaxRequests,     \* bound: requests the clients ever make
  MaxRestarts,     \* bound: times the operator starts the program again
  MaxPosition      \* bound: no page is fetched again past this queue position

ASSUME SyncAssumption ==
  /\ IsFiniteSet(Wallets)
  /\ NoWallet \notin Wallets
  /\ Rejected \subseteq 1..MaxHeight
  /\ Limit \in Nat \ {0}
  /\ BatchCap \in Nat
  /\ CallsDedup \in BOOLEAN
  /\ Disturbances \subseteq {"kill", "cancel"}
  /\ EagerRequests \in BOOLEAN
  /\ MaxRequests \in Nat
  /\ MaxRestarts \in Nat
  /\ MaxPosition \in Nat

VARIABLES
  saved,       \* tables signature and transaction: written together, the id
               \* of a signature row stands for its value
  status,      \* status[w]: the status of w's row in sync_wallet_request
  created,     \* created[w]: rank of that row by created_at
  queue,       \* msgQueue.items, each tagged with its position
  position,    \* the position of the next item
  fpc,         \* the fetcher's program counter
  fwallet,     \* req.WalletId
  funtil,      \* req.LastSignature, getSignaturesOpts.Until
  fpage,       \* signaturesRes
  ftodo,       \* the signatures of the page still to be fetched
  fnewest,     \* newLastSignature
  wpc,         \* the writer's program counter
  uwallet,     \* u.walletId
  utxs,        \* u.transactions, as the messages that carried them
  uids,        \* u.signaturesIds
  ulast,       \* u.lastSignature
  process,     \* "running", or how the last life of the program ended
  cancelled,   \* ctx.Done() is closed
  requests,    \* requests made so far
  restarts     \* restarts so far

dbVars      == <<saved, links, signatures, last>>
requestVars == <<status, created, requests>>
queueVars   == <<queue, position>>
fetcherVars == <<fpc, fwallet, funtil, fpage, ftodo, fnewest>>
writerVars  == <<wpc, uwallet, utxs, uids, ulast>>
memoryVars  == <<queueVars, fetcherVars, writerVars, cancelled>>
vars == <<height, dbVars, requestVars, memoryVars, process, restarts>>

-----------------------------------------------------------------------------

Statuses == {"none", "queued", "processing", "done"}

\* parsedSavedTransactionMsg, parsedOnchainTransactionMsg, lasgTransactionMsg.
\* Their accounts are left out: instructionsparser.Parse returns none.
Message(p, w, k, s) == [pos |-> p, wallet |-> w, kind |-> k, sig |-> s]

\* How a life of the program ends: wg.Wait() returns, it is killed (or a
\* statement fails for reasons of the database's own), or an assertion fails.
Ends ==
  {"stopped", "killed", "fatal_signature", "fatal_instruction", "fatal_dedup"}

\* The memory of a program that has just started, or that no longer runs.
EmptyMemory ==
  /\ queue = {}  /\ position = 1
  /\ fpc = "select"  /\ fwallet = NoWallet  /\ funtil = NoSignature
  /\ fpage = {}  /\ ftodo = {}  /\ fnewest = NoSignature
  /\ wpc = "select"  /\ uwallet = NoWallet
  /\ utxs = {}  /\ uids = {}  /\ ulast = NoSignature
  /\ cancelled = FALSE

LoseMemory ==
  /\ queue' = {}  /\ position' = 1
  /\ fpc' = "select"  /\ fwallet' = NoWallet  /\ funtil' = NoSignature
  /\ fpage' = {}  /\ ftodo' = {}  /\ fnewest' = NoSignature
  /\ wpc' = "select"  /\ uwallet' = NoWallet
  /\ utxs' = {}  /\ uids' = {}  /\ ulast' = NoSignature
  /\ cancelled' = FALSE

SyncInit ==
  /\ Init
  /\ saved = {}
  /\ status = [w \in Wallets |-> "none"]
  /\ created = [w \in Wallets |-> 0]
  /\ EmptyMemory
  /\ process = "running"
  /\ requests = 0
  /\ restarts = 0

\* The program ends: what it held in memory is lost, the database stays.
End(how) ==
  /\ process' = how
  /\ LoseMemory
  /\ UNCHANGED <<height, dbVars, requestVars, restarts>>

-----------------------------------------------------------------------------
(* The world around the program: the chain, the clients, the operator. *)

ConfirmTransaction ==
  /\ Confirm
  /\ UNCHANGED <<saved, requestVars, memoryVars, process, restarts>>

\* Transactions of w may be on their way from the fetcher to the database.
InFlight(w) ==
  \/ fwallet = w /\ fpc # "claim"
  \/ uwallet = w
  \/ \E m \in queue : m.wallet = w

\* A client inserts the wallet's row, or sets it back to 'queued': wallet_id
\* is UNIQUE, so a second synchronisation needs the same row.
RequestSync(w) ==
  /\ requests < MaxRequests
  /\ status[w] # "queued"
  /\ EagerRequests \/ ~InFlight(w)
  /\ status' = [status EXCEPT ![w] = "queued"]
  /\ created' = IF status[w] # "none" THEN created
                ELSE [created EXCEPT ![w] =
                        Cardinality({v \in Wallets : status[v] # "none"}) + 1]
  /\ requests' = requests + 1
  /\ UNCHANGED <<height, dbVars, memoryVars, process, restarts>>

\* Kept to the lives that are followed by another one.
Kill ==
  /\ "kill" \in Disturbances
  /\ process = "running"
  /\ restarts < MaxRestarts
  /\ End("killed")

Cancel ==
  /\ "cancel" \in Disturbances
  /\ process = "running"
  /\ ~cancelled
  /\ cancelled' = TRUE
  /\ UNCHANGED <<height, dbVars, requestVars, queueVars, fetcherVars,
                 writerVars, process, restarts>>

Restart ==
  /\ process # "running"
  /\ restarts < MaxRestarts
  /\ process' = "running"
  /\ restarts' = restarts + 1
  /\ UNCHANGED <<height, dbVars, requestVars, memoryVars>>

-----------------------------------------------------------------------------
(* The fetcher. *)

FetcherUnchanged ==
  UNCHANGED <<height, dbVars, created, requests, writerVars, cancelled,
              process, restarts>>

\* Mutant: without WHERE status = 'queued'.
OldestRequest(w) ==
  /\ status[w] # "none"
  /\ \A v \in Wallets : status[v] # "none" => created[w] <= created[v]

OldestQueued(w) ==
  /\ status[w] = "queued"
  /\ \A v \in Wallets : status[v] = "queued" => created[w] <= created[v]

Load ==
  /\ process = "running"
  /\ fpc = "select"
  /\ \E w \in Wallets :
        /\ OldestQueued(w)
        /\ fwallet' = w
        /\ funtil' = last[w]
  /\ fpc' = "claim"
  /\ UNCHANGED <<status, queueVars, fpage, ftodo, fnewest>>
  /\ FetcherUnchanged

\* Mutant: the request stays queued.
UpdateStatusUnwritten ==
  /\ fpc = "claim"
  /\ fpc' = "page"
  /\ UNCHANGED <<status, queueVars, fwallet, funtil, fpage, ftodo, fnewest>>
  /\ FetcherUnchanged

UpdateStatus ==
  /\ fpc = "claim"
  /\ status' = [status EXCEPT ![fwallet] = "processing"]
  /\ fpc' = "page"
  /\ UNCHANGED <<queueVars, fwallet, funtil, fpage, ftodo, fnewest>>
  /\ FetcherUnchanged

\* getSignaturesForAddress: the newest Limit signatures after `until`.
Page(found, page) ==
  /\ page \subseteq found
  /\ Cardinality(page) <= Limit
  /\ page # found => Cardinality(page) = Limit
  /\ \A s \in page, t \in found \ page : s > t

IsNewest(s, S) == s \in S /\ \A t \in S : t <= s

FetchSignatures ==
  /\ fpc = "page"
  /\ fnewest = NoSignature \/ position <= MaxPosition
  /\ LET found == {s \in History(fwallet) : s > funtil}
     IN  \/ /\ found = {}
            /\ fpc' = "last"
            /\ UNCHANGED <<fpage, fnewest>>
         \/ \E page \in SUBSET found :
              /\ found # {}
              /\ Page(found, page)
              /\ fpage' = page
              /\ IF fnewest = NoSignature THEN IsNewest(fnewest', page)
                                          ELSE UNCHANGED fnewest
              /\ fpc' = "saved"
  /\ UNCHANGED <<status, queueVars, fwallet, funtil, ftodo>>
  /\ FetcherUnchanged

\* Mutant: a page that was saved in part is taken for saved.
AfterFetchingSaved(todo) ==
  IF todo # {} /\ fpage \cap saved = {} THEN "txs"
  ELSE IF Cardinality(fpage) < Limit THEN "last" ELSE "page"

\* Where the loop goes once `todo` is left of the page: getSignaturesOpts is
\* not changed between two turns of it.
AfterFetching(todo) ==
  IF todo # {} THEN "txs" ELSE IF Cardinality(fpage) < Limit THEN "last"
                                                             ELSE "page"

\* The rows of a query without ORDER BY come in any order.
Orders(S) == {o \in [S -> 0..Cardinality(S) - 1] :
                \A s, t \in S : o[s] = o[t] => s = t}

\* savedTransactions.Get, and appendMessages under one lock.
GetSavedTransactions ==
  /\ fpc = "saved"
  /\ \E order \in Orders(fpage \cap saved) :
        queue' = queue \cup {Message(position + order[s], fwallet, "saved", s)
                               : s \in fpage \cap saved}
  /\ position' = position + Cardinality(fpage \cap saved)
  /\ ftodo' = fpage \ saved
  /\ fpc' = AfterFetching(fpage \ saved)
  /\ UNCHANGED <<status, fwallet, funtil, fpage, fnewest>>
  /\ FetcherUnchanged

FetchTransaction ==
  /\ fpc = "txs"
  /\ \E s \in ftodo :
        /\ IsNewest(s, ftodo)
        /\ queue' = queue \cup {Message(position, fwallet, "onchain", s)}
        /\ ftodo' = ftodo \ {s}
        /\ fpc' = AfterFetching(ftodo \ {s})
  /\ position' = position + 1
  /\ UNCHANGED <<status, fwallet, funtil, fpage, fnewest>>
  /\ FetcherUnchanged

AppendLast ==
  /\ fpc = "last"
  /\ queue' = queue \cup {Message(position, fwallet, "last", fnewest)}
  /\ position' = position + 1
  /\ fpc' = "select"
  /\ fwallet' = NoWallet
  /\ funtil' = NoSignature
  /\ fpage' = {}
  /\ ftodo' = {}
  /\ fnewest' = NoSignature
  /\ UNCHANGED status
  /\ FetcherUnchanged

\* Mutant: the context is looked at only when there is a request to serve.
FetcherReturnsFromWork ==
  /\ cancelled
  /\ fpc = "select"
  /\ \E w \in Wallets : status[w] = "queued"
  /\ fpc' = "returned"
  /\ UNCHANGED <<status, queueVars, fwallet, funtil, fpage, ftodo, fnewest>>
  /\ FetcherUnchanged

FetcherReturns ==
  /\ cancelled
  /\ fpc = "select"
  /\ fpc' = "returned"
  /\ UNCHANGED <<status, queueVars, fwallet, funtil, fpage, ftodo, fnewest>>
  /\ FetcherUnchanged

Fetcher ==
  \/ Load
  \/ UpdateStatus
  \/ FetchSignatures
  \/ GetSavedTransactions
  \/ FetchTransaction
  \/ AppendLast

-----------------------------------------------------------------------------
(* The writer. *)

WriterUnchanged ==
  UNCHANGED <<height, requestVars, position, fetcherVars, cancelled, restarts>>

\* The messages of kind k that the walk takes before it comes to m.
TakenBefore(m, k) ==
  {n \in queue : n.wallet = m.wallet /\ n.kind = k /\ n.pos < m.pos}

\* Mutant: the batch mixes wallets.
TakenFromAnyone(w) ==
  {m \in queue : /\ Cardinality(TakenBefore(m, "saved")) <= BatchCap
                 /\ Cardinality(TakenBefore(m, "onchain")) <= BatchCap}

\* Mutant: only saved transactions count towards the size of the batch.
TakenCountingSaved(w) ==
  {m \in queue : /\ m.wallet = w
                 /\ Cardinality(TakenBefore(m, "saved")) <= BatchCap}

\* Mutant: a full batch goes past the transactions, and on to the cursors.
TakenWithCursors(w) ==
  {m \in queue : /\ m.wallet = w
                 /\ \/ m.kind = "last"
                    \/ /\ Cardinality(TakenBefore(m, "saved")) <= BatchCap
                       /\ Cardinality(TakenBefore(m, "onchain")) <= BatchCap}

\* The walk takes the messages of wallet w, until exitEarly.
Taken(w) ==
  {m \in queue : /\ m.wallet = w
                 /\ Cardinality(TakenBefore(m, "saved")) <= BatchCap
                 /\ Cardinality(TakenBefore(m, "onchain")) <= BatchCap}

OfKind(msgs, k) == {m \in msgs : m.kind = k}

\* Mutant: the index of a message where its signature belongs.
SignaturesByPosition(msgs) == {m.pos : m \in msgs}

Signatures(msgs) == {m.sig : m \in msgs}

\* Mutant: the first cursor message is kept.
FirstSignatureOf(msgs) ==
  IF OfKind(msgs, "last") = {} THEN {NoSignature}
  ELSE {m.sig : m \in {l \in OfKind(msgs, "last") :
                         \A n \in OfKind(msgs, "last") : n.pos >= l.pos}}

\* Every cursor message overwrites the one before it.
LastSignatureOf(msgs) ==
  IF OfKind(msgs, "last") = {} THEN {NoSignature}
  ELSE {m.sig : m \in {l \in OfKind(msgs, "last") :
                         \A n \in OfKind(msgs, "last") : n.pos <= l.pos}}

ProcessMessages ==
  /\ process = "running"
  /\ wpc = "select"
  /\ \E first \in queue :
        /\ \A m \in queue : first.pos <= m.pos
        /\ uwallet' = first.wallet
        /\ queue' = queue \ Taken(first.wallet)
        /\ utxs' = OfKind(Taken(first.wallet), "onchain")
        /\ uids' = Signatures(OfKind(Taken(first.wallet), "saved"))
        /\ ulast' \in LastSignatureOf(Taken(first.wallet))
  /\ wpc' = "save"
  /\ UNCHANGED <<dbVars, process>>
  /\ WriterUnchanged

\* signature.value is UNIQUE and the INSERT has no ON CONFLICT clause.
SignatureConflict ==
  \/ Signatures(utxs) \cap saved # {}
  \/ \E m, n \in utxs : m # n /\ m.sig = n.sig

\* Two kinds of transaction are Rejected.  An inner instruction is inserted with
\* an ix_index, a column `instruction` lacks; an instruction without accounts has
\* a nil accountsIds, which is NULL, and accounts_ids is NOT NULL.  One step here,
\* five statements and a COMMIT in RowCodec, which shows that they come to this.
SaveTransactions ==
  /\ wpc = "save"
  /\ \/ /\ SignatureConflict
        /\ End("fatal_signature")
     \/ /\ ~SignatureConflict
        /\ Signatures(utxs) \cap Rejected # {}
        /\ End("fatal_instruction")
     \/ /\ ~SignatureConflict
        /\ Signatures(utxs) \cap Rejected = {}
        /\ saved' = saved \cup Signatures(utxs)
        /\ uids' = uids \cup Signatures(utxs)
        /\ wpc' = "link"
        /\ UNCHANGED <<links, signatures, last, queue, uwallet, utxs, ulast,
                       process>>
        /\ WriterUnchanged

\* Mutant: rows that were there already are counted again.
UpdateUserSignaturesAgain ==
  /\ wpc = "link"
  /\ links' = links \cup ({uwallet} \X uids)
  /\ signatures' = [signatures EXCEPT ![uwallet] = @ + Cardinality(uids)]
  /\ wpc' = "cursor"
  /\ UNCHANGED <<saved, last, queue, uwallet, utxs, uids, ulast, process>>
  /\ WriterUnchanged

\* Mutant: the first transaction is not committed, the second one is.
UpdateUserSignaturesUncommitted ==
  /\ wpc = "link"
  /\ wpc' = "cursor"
  /\ UNCHANGED <<dbVars, queue, uwallet, utxs, uids, ulast, process>>
  /\ WriterUnchanged

\* updateUser's first transaction: the links and their count.
UpdateUserSignatures ==
  /\ wpc = "link"
  /\ links' = links \cup ({uwallet} \X uids)
  /\ signatures' = [signatures EXCEPT ![uwallet] =
                      @ + Cardinality(uids \ Linked(uwallet))]
  /\ wpc' = "cursor"
  /\ UNCHANGED <<saved, last, queue, uwallet, utxs, uids, ulast, process>>
  /\ WriterUnchanged

\* Mutant: the cursor is written whether a cursor message was taken or not.
CursorTakenOrNot == TRUE

\* u.lastSignature != "": the batch had a cursor message, and the page of
\* that synchronisation was not empty.
CursorTaken == ulast # NoSignature

\* updateUser's second statement: the cursor, NULL when the SELECT finds no
\* row.  Then the call to deduplicateTimestamps, or without it the next turn.
UpdateUserLastSignature ==
  /\ wpc = "cursor"
  /\ last' = IF ~CursorTaken THEN last
             ELSE [last EXCEPT ![uwallet] =
                     IF ulast \in saved THEN ulast ELSE NoSignature]
  /\ wpc' = IF CallsDedup THEN "dedup" ELSE "select"
  /\ uwallet' = NoWallet
  /\ utxs' = {}
  /\ uids' = {}
  /\ ulast' = NoSignature
  /\ UNCHANGED <<saved, links, signatures, queue, process>>
  /\ WriterUnchanged

\* The SELECT names a column `transaction` does not have: the assertion on
\* its error fails, whatever the rows, so that no life gets to a second batch.
DeduplicateTimestamps ==
  /\ wpc = "dedup"
  /\ End("fatal_dedup")

WriterReturns ==
  /\ cancelled
  /\ wpc = "select"
  /\ wpc' = "returned"
  /\ UNCHANGED <<dbVars, queue, uwallet, utxs, uids, ulast, process>>
  /\ WriterUnchanged

Writer ==
  \/ ProcessMessages
  \/ SaveTransactions
  \/ UpdateUserSignatures
  \/ UpdateUserLastSignature
  \/ DeduplicateTimestamps

\* wg.Wait() returns, and RunWalletSync with it.
Return ==
  /\ fpc = "returned"
  /\ wpc = "returned"
  /\ End("stopped")

-----------------------------------------------------------------------------

Environment ==
  \/ ConfirmTransaction
  \/ \E w \in Wallets : RequestSync(w)
  \/ Kill
  \/ Cancel
  \/ Restart

SyncNext == Environment \/ Fetcher \/ FetcherReturns \/ Writer \/ WriterReturns
            \/ Return

SyncSpec == SyncInit /\ [][SyncNext]_vars

(***************************************************************************)
(* The scheduler runs both goroutines and their tickers keep firing; an    *)
(* RPC call is repeated until the node answers, which it is assumed to do. *)
(* Go's select chooses among the ready cases at random, so a loop that     *)
(* comes back to it with ctx.Done() closed does not miss it for ever.      *)
(***************************************************************************)
Fairness ==
  /\ WF_vars(Fetcher)
  /\ WF_vars(Writer)
  /\ SF_vars(FetcherReturns)
  /\ SF_vars(WriterReturns)
  /\ WF_vars(Return)

FairSyncSpec == SyncSpec /\ Fairness

-----------------------------------------------------------------------------
(* What must hold, besides the properties of WalletLedger. *)

TransactionMessages ==
  [pos : Nat, wallet : Wallets, kind : {"saved", "onchain"}, sig : 1..MaxHeight]

CursorMessages ==
  [pos : Nat, wallet : Wallets, kind : {"last"}, sig : 0..MaxHeight]

Messages == TransactionMessages \cup CursorMessages

TypeDatabase ==
  /\ height \in 0..MaxHeight
  /\ links \subseteq Wallets \X (1..MaxHeight)
  /\ signatures \in [Wallets -> Nat]
  /\ last \in [Wallets -> 0..MaxHeight]
  /\ saved \subseteq 1..MaxHeight

TypeOutside ==
  /\ status \in [Wallets -> Statuses]
  /\ created \in [Wallets -> Nat]
  /\ process \in {"running"} \cup Ends
  /\ cancelled \in BOOLEAN
  /\ requests \in Nat
  /\ restarts \in Nat

TypeQueue ==
  /\ queue \subseteq Messages
  /\ IsFiniteSet(queue)
  /\ position \in Nat

TypeFetcher ==
  /\ fpc \in {"select", "claim", "page", "saved", "txs", "last", "returned"}
  /\ fwallet \in IF fpc \in {"select", "returned"} THEN {NoWallet} ELSE Wallets
  /\ funtil \in 0..MaxHeight
  /\ fpage \subseteq 1..MaxHeight
  /\ ftodo \subseteq 1..MaxHeight
  /\ fnewest \in 0..MaxHeight

TypeWriter ==
  /\ wpc \in {"select", "save", "link", "cursor", "dedup", "returned"}
  /\ uwallet \in IF wpc \in {"select", "dedup", "returned"} THEN {NoWallet}
                                                         ELSE Wallets
  /\ utxs \subseteq TransactionMessages
  /\ IsFiniteSet(utxs)
  /\ uids \subseteq 1..MaxHeight
  /\ ulast \in 0..MaxHeight

\* The variables keep to their types; a goroutine that holds work knows whose
\* wallet it is for.
TypeOK == TypeDatabase /\ TypeOutside /\ TypeQueue /\ TypeFetcher /\ TypeWriter

\* saveTransactions inserts a batch with one statement per table: the batch
\* stays within what the exitEarly of processMessages allows it, however long
\* the queue is and whatever other wallets have in it.
BatchBounded ==
  wpc = "save" => /\ Cardinality(utxs) <= BatchCap + 1
                  /\ Cardinality(uids) <= BatchCap + 1

\* u.lastSignature is overwritten by every cursor message of a batch, also by
\* the empty one of a synchronisation that found nothing.  No cursor is lost
\* that way: the one kept, or the one already stored, is as far.
NoCursorDropped ==
  [][\A m \in OfKind(queue \ queue', "last") :
        process' = "running" => \/ ulast' >= m.sig
                                \/ last[m.wallet] >= m.sig]_queue

\* The database moves as WalletLedger says, across both goroutines, their
\* batches, kills and restarts.
ImplementsLedger == Spec

(* Under FairSyncSpec. *)

LastLife == process = "running" /\ restarts = MaxRestarts

\* In a life that is not cut short, a transaction that was confirmed when its
\* wallet was queued gets linked, whatever earlier lives had left half done.
SyncCompletes ==
  \A w \in Wallets, s \in 1..MaxHeight :
    LastLife /\ status[w] = "queued" /\ s \in History(w)
      ~> <<w, s>> \in links \/ cancelled

\* Once the context is cancelled both goroutines return: neither waits for work
\* the other no longer does.  Of the functions as TestWalletSync calls them, and
\* where no page is full; RunWalletSync has ShutdownAsRun.
ShutdownCompletes == cancelled ~> process \in {"stopped", "killed"}

\* What the fetcher asks for: getSignaturesOpts.Until does not change in the loop.
AboveUntil == {s \in History(fwallet) : s > funtil}

\* The fetcher asks for, or works on, a full page.
OnFullPage ==
  \/ fpc = "page" /\ Cardinality(AboveUntil) >= Limit
  \/ /\ fpc \in {"saved", "txs"}
     /\ fpage \subseteq AboveUntil /\ Cardinality(fpage) >= Limit

\* Once the context is cancelled RunWalletSync comes to an end, whatever it was
\* at and whatever it shares: its goroutines return, or one more batch ends it
\* in a failed assertion.  Only a full page keeps it, for ever.
ShutdownAsRun == cancelled ~> process # "running" \/ OnFullPage

(* Why a batch is bounded: each transaction taken has fewer before it. *)

\* msgQueue.append and appendMessages leave no two messages in one place.
PositionsDistinct == \A m, n \in queue : m.pos = n.pos => m = n

(* Why the cursor never passes over a transaction: the inductive invariant. *)

Cursors(w) == {m \in queue : m.wallet = w /\ m.kind = "last"}

\* The writer holds transaction s of wallet w and is going to link it.
InHand(w, s) == uwallet = w /\ s \in uids \cup Signatures(utxs)

\* s is linked to w, or will be before the writer sees queue position p.
Ahead(w, s, p) ==
  \/ <<w, s>> \in links
  \/ InHand(w, s)
  \/ \E m \in queue : /\ m.wallet = w /\ m.kind # "last"
                      /\ m.sig = s /\ m.pos < p

HistoryOrNone(w) == History(w) \cup {NoSignature}

QueueInv ==
  \A m \in queue :
    /\ m.pos < position
    /\ m.sig \in HistoryOrNone(m.wallet)
    /\ m.kind = "saved" => m.sig \in saved

\* Cursor messages of a wallet are queued in order, none before the links it
\* vouches for, none behind the cursor stored.
CursorsInv ==
  \A w \in Wallets : \A m \in Cursors(w) :
    /\ m.sig # NoSignature =>
         /\ last[w] <= m.sig
         /\ \A s \in History(w) : s <= m.sig => Ahead(w, s, m.pos)
    /\ \A n \in Cursors(w) :
         m.pos <= n.pos => m.sig <= n.sig \/ m.sig <= last[w]

WriterIdle ==
  uwallet = NoWallet /\ utxs = {} /\ uids = {} /\ ulast = NoSignature

WriterInv ==
  IF wpc \in {"select", "returned", "dedup"} THEN WriterIdle ELSE
  /\ uwallet \in Wallets
  /\ Signatures(utxs) \subseteq History(uwallet)
  /\ uids \subseteq History(uwallet) \cap saved
  /\ wpc # "save" => Signatures(utxs) \subseteq uids
  /\ wpc = "cursor" => {uwallet} \X uids \subseteq links
  /\ ulast \in HistoryOrNone(uwallet)
  /\ ulast # NoSignature =>
       /\ last[uwallet] <= ulast
       /\ \A s \in History(uwallet) :
            s <= ulast => <<uwallet, s>> \in links \/ InHand(uwallet, s)
       /\ \A n \in Cursors(uwallet) : n.sig # NoSignature => ulast <= n.sig

\* What is left of the page the fetcher works on.
PageLeft == CASE fpc = "saved" -> fpage [] fpc = "txs" -> ftodo [] OTHER -> {}

FetcherIdle ==
  /\ fwallet = NoWallet /\ funtil = NoSignature /\ fnewest = NoSignature
  /\ fpage = {} /\ ftodo = {}

FetcherInv ==
  IF fpc \in {"select", "returned"} THEN FetcherIdle ELSE
  /\ fwallet \in Wallets
  /\ funtil \in HistoryOrNone(fwallet)
  /\ funtil <= last[fwallet]
  /\ CoveredUpTo(fwallet, funtil)
  /\ fpage \subseteq History(fwallet)
  /\ ftodo \subseteq fpage
  /\ fpc # "txs" => ftodo = {}
  /\ fnewest \in HistoryOrNone(fwallet)
  /\ fnewest # NoSignature =>
       /\ funtil < fnewest
       /\ last[fwallet] <= fnewest
       /\ uwallet = fwallet => ulast <= fnewest
       /\ \A m \in Cursors(fwallet) : m.sig <= fnewest
       /\ fpc = "last" \/ (fpc \in {"saved", "txs"} /\ Cardinality(fpage) < Limit)
            => \A s \in History(fwallet) :
                 s <= fnewest => s \in PageLeft \/ Ahead(fwallet, s, position)
  /\ fpc \in {"saved", "txs"} => fnewest # NoSignature
  /\ fpc = "last" /\ fnewest = NoSignature =>
       \A m \in Cursors(fwallet) : m.sig <= last[fwallet]

\* A link refers to a saved transaction, and a cursor to one of the wallet's.
DatabaseInv ==
  /\ LinksAreOwn
  /\ CountMatchesLinks
  /\ CursorCovers
  /\ \A l \in links : l[2] \in saved
  /\ \A w \in Wallets : last[w] \in HistoryOrNone(w)

\* Every transaction at or below a cursor, stored, in the writer's hands or
\* queued, is linked or comes before that cursor.
NothingSkipped ==
  DatabaseInv /\ QueueInv /\ CursorsInv /\ WriterInv /\ FetcherInv

(* What the repository says, and what the code does not do. *)

\* updateStatus is asserted to take "done" as well as "processing" (db.go:24),
\* and sync_wallet_request has the status: a synchronised wallet is done.
RequestReachesDone ==
  \A w \in Wallets : status[w] = "processing" ~> status[w] = "done"

\* db.go:80 asserts that signatures never fail to be inserted.
SignaturesInserted == process # "fatal_signature"

\* wallet_sync.go:309 and 319 assert that instructions and inner instructions
\* never fail to be inserted.
InstructionsInserted == process # "fatal_instruction"

\* One synchronisation queues one message per transaction and one cursor:
\* "3 txs, 1 last" (wallet_sync_test.go:139-141).
QueuedOnce ==
  \A m, n \in queue : m.wallet = n.wallet /\ m.sig = n.sig
                          => m = n \/ "last" \in {m.kind, n.kind}

=============================================================================
