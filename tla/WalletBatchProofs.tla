------------------------- MODULE WalletBatchProofs --------------------------
(***************************************************************************)
(* A batch of the writer is bounded, however long the queue: each message  *)
(* taken has a different number of messages of its kind before it, and     *)
(* none more than BatchCap.  And where transactions are not shared, no     *)
(* batch holds one that is saved already.                                  *)
(***************************************************************************)
EXTENDS WalletCursorProofs

BatchInv == PositionsDistinct /\ BatchBounded

-----------------------------------------------------------------------------
(* Counting. *)

\* Of two messages of a kind, the later one has more of that kind before it.
LEMMA LaterHasMore ==
  ASSUME TypeQueue, NEW k, NEW m \in queue, NEW n \in queue,
         m.wallet = n.wallet, m.kind = k, m.pos < n.pos
  PROVE  Cardinality(TakenBefore(m, k)) < Cardinality(TakenBefore(n, k))
<1> DEFINE A == TakenBefore(m, k)
           B == TakenBefore(n, k)
<1>1. IsFiniteSet(B)
  BY FS_Subset DEF TypeQueue, TakenBefore
<1>2. A \subseteq B /\ m \in B /\ m \notin A
  BY QueueTypes DEF TakenBefore
<1>3. /\ Cardinality(A) <= Cardinality(B)
      /\ Cardinality(A) = Cardinality(B) => A = B
      /\ IsFiniteSet(A)
  BY <1>1, <1>2, FS_Subset
<1>4. Cardinality(A) \in Nat /\ Cardinality(B) \in Nat
  BY <1>1, <1>3, FS_CardinalityType
<1> QED BY <1>2, <1>3, <1>4

\* The messages of one kind in a batch.
LEMMA KindBounded ==
  ASSUME TypeQueue, PositionsDistinct, NEW w, NEW k \in {"saved", "onchain"}
  PROVE  /\ IsFiniteSet(OfKind(Taken(w), k))
         /\ Cardinality(OfKind(Taken(w), k)) <= BatchCap + 1
<1> DEFINE U == OfKind(Taken(w), k)
           f == [m \in U |-> Cardinality(TakenBefore(m, k))]
<1>1. ASSUME NEW m \in U
      PROVE  /\ m \in queue /\ m.wallet = w /\ m.kind = k /\ m.pos \in Nat
             /\ Cardinality(TakenBefore(m, k)) \in 0..BatchCap
  <2>1. m \in queue /\ m.wallet = w /\ m.kind = k
    BY DEF OfKind, Taken
  <2>2. Cardinality(TakenBefore(m, k)) <= BatchCap
    BY DEF OfKind, Taken
  <2>3. Cardinality(TakenBefore(m, k)) \in Nat
    BY FS_Subset, FS_CardinalityType DEF TypeQueue, TakenBefore
  <2> QED BY <2>1, <2>2, <2>3, QueueTypes, SyncAssumption
<1>2. ASSUME NEW m \in U, NEW n \in U, f[m] = f[n]
      PROVE  m = n
  <2>1. ~(m.pos < n.pos) /\ ~(n.pos < m.pos)
    <3>1. f[m] \in Nat /\ f[n] \in Nat
      BY <1>1
    <3> QED BY <1>1, <1>2, <3>1, LaterHasMore
  <2>2. m.pos = n.pos
    BY <1>1, <2>1
  <2> QED BY <1>1, <2>2 DEF PositionsDistinct
<1>3. f \in Injection(U, 0..BatchCap)
  BY <1>1, <1>2 DEF Injection, IsInjective
<1>4. IsFiniteSet(0..BatchCap) /\ Cardinality(0..BatchCap) = BatchCap + 1
  BY SyncAssumption, FS_Interval
<1> QED BY <1>3, <1>4, FS_Injection

\* The distinct signatures of some messages are no more than the messages.
LEMMA SignaturesBounded ==
  ASSUME NEW M, IsFiniteSet(M)
  PROVE  /\ IsFiniteSet(Signatures(M))
         /\ Cardinality(Signatures(M)) <= Cardinality(M)
<1> DEFINE f == [m \in M |-> m.sig]
<1>1. f \in Surjection(M, Signatures(M))
  BY DEF Surjection, Signatures
<1> QED BY <1>1, FS_Surjection

-----------------------------------------------------------------------------
(* The invariant. *)

\* Messages appended go behind the queue, no two in one place.
LEMMA AppendedDistinct ==
  ASSUME Inv, PositionsDistinct, NEW New, queue' = queue \cup New,
         \A m \in New : m.pos \in Nat /\ position <= m.pos,
         \A m, n \in New : m.pos = n.pos => m = n
  PROVE  PositionsDistinct'
<1>1. \A m \in queue, n \in New : m.pos # n.pos
  BY QueueTypes DEF Inv, TypeOK, TypeQueue, NothingSkipped, QueueInv
<1> QED BY <1>1 DEF PositionsDistinct

\* No step puts a message where another one is.
LEMMA DistinctNext ==
  Inv /\ PositionsDistinct /\ [SyncNext]_vars => PositionsDistinct'
<1> SUFFICES ASSUME Inv, PositionsDistinct, [SyncNext]_vars
             PROVE  PositionsDistinct'
  OBVIOUS
<1>1. CASE queue' \subseteq queue
  BY <1>1 DEF PositionsDistinct
<1>2. CASE GetSavedTransactions
  <2> DEFINE S == fpage \cap saved
  <2>1. PICK o \in Orders(S) :
          queue' = queue \cup {Message(position + o[s], fwallet, "saved", s)
                                 : s \in S}
    BY <1>2 DEF GetSavedTransactions
  <2> DEFINE New == {Message(position + o[s], fwallet, "saved", s) : s \in S}
  <2>2. \A s \in S : o[s] \in Nat
    BY OrdersType DEF Inv, TypeOK, TypeFetcher
  <2>3. position \in Nat
    BY DEF Inv, TypeOK, TypeQueue
  <2>4. \A m \in New : m.pos \in Nat /\ position <= m.pos
    BY <2>2, <2>3 DEF Message
  <2>5. ASSUME NEW s \in S, NEW t \in S, position + o[s] = position + o[t]
        PROVE  s = t
    <3>1. o[s] = o[t]
      BY <2>2, <2>3, <2>5
    <3> QED BY <3>1 DEF Orders
  <2>6. \A m, n \in New : m.pos = n.pos => m = n
    BY <2>5 DEF Message
  <2> QED BY <2>1, <2>4, <2>6, AppendedDistinct
<1>3. CASE FetchTransaction \/ AppendLast
  <2>1. PICK k, s : queue' = queue \cup {Message(position, fwallet, k, s)}
    BY <1>3 DEF FetchTransaction, AppendLast
  <2> DEFINE New == {Message(position, fwallet, k, s)}
  <2>2. \A m \in New : m.pos = position /\ position \in Nat
    BY DEF Message, Inv, TypeOK, TypeQueue
  <2>3. /\ \A m \in New : m.pos \in Nat /\ position <= m.pos
        /\ \A m, n \in New : m.pos = n.pos => m = n
    BY <2>2
  <2> HIDE DEF New
  <2>4. queue' = queue \cup New
    BY <2>1 DEF New
  <2> QED BY <2>3, <2>4, AppendedDistinct
<1>4. CASE Environment
  BY <1>1, <1>4 DEF Environment, ConfirmTransaction, RequestSync, Kill, Cancel,
     Restart, End, LoseMemory, memoryVars, queueVars
<1>5. CASE Load \/ UpdateStatus \/ FetchSignatures \/ FetcherReturns
  BY <1>1, <1>5 DEF Load, UpdateStatus, FetchSignatures, FetcherReturns,
     queueVars
<1>6. CASE ProcessMessages \/ SaveTransactions
  BY <1>1, <1>6 DEF ProcessMessages, SaveTransactions, End, LoseMemory
<1>7. CASE UpdateUserSignatures \/ UpdateUserLastSignature \/ WriterReturns
  BY <1>1, <1>7 DEF UpdateUserSignatures, UpdateUserLastSignature, WriterReturns
<1>8. CASE DeduplicateTimestamps \/ Return
  BY <1>1, <1>8 DEF DeduplicateTimestamps, Return, End, LoseMemory
<1>9. CASE UNCHANGED vars
  BY <1>1, <1>9 DEF vars, memoryVars, queueVars
<1> QED BY <1>2, <1>3, <1>4, <1>5, <1>6, <1>7, <1>8, <1>9
        DEF SyncNext, Fetcher, Writer

\* The two goroutines keep the batch bounded: only processMessages makes one.
LEMMA BatchNext == Inv /\ BatchInv /\ [SyncNext]_vars => BatchInv'
<1> SUFFICES ASSUME Inv, BatchInv, [SyncNext]_vars PROVE BatchBounded'
  BY DistinctNext DEF BatchInv
<1>1. CASE ProcessMessages
  <2>1. PICK first \in queue :
          /\ utxs' = OfKind(Taken(first.wallet), "onchain")
          /\ uids' = Signatures(OfKind(Taken(first.wallet), "saved"))
    BY <1>1 DEF ProcessMessages
  <2>2. PICK T, U : /\ T = OfKind(Taken(first.wallet), "onchain")
                    /\ U = OfKind(Taken(first.wallet), "saved")
    OBVIOUS
  <2>3. /\ IsFiniteSet(U) /\ Cardinality(U) <= BatchCap + 1
        /\ Cardinality(T) <= BatchCap + 1
    BY <2>2, KindBounded DEF Inv, TypeOK, BatchInv
  <2>4. IsFiniteSet(Signatures(U)) /\ Cardinality(Signatures(U)) <= Cardinality(U)
    BY <2>3, SignaturesBounded
  <2>5. Cardinality(Signatures(U)) \in Nat /\ Cardinality(U) \in Nat
    BY <2>3, <2>4, FS_CardinalityType
  <2>6. Cardinality(Signatures(U)) <= BatchCap + 1
    BY <2>3, <2>4, <2>5, SyncAssumption
  <2>7. utxs' = T /\ uids' = Signatures(U)
    BY <2>1, <2>2
  <2> QED BY <2>3, <2>6, <2>7 DEF BatchBounded
<1>2. CASE wpc' # "save"
  BY <1>2 DEF BatchBounded
<1>3. CASE UNCHANGED <<wpc, utxs, uids>>
  BY <1>3 DEF BatchInv, BatchBounded
<1>4. CASE Environment
  BY <1>2, <1>3, <1>4 DEF Environment, ConfirmTransaction, RequestSync, Kill,
     Cancel, Restart, End, LoseMemory, memoryVars, writerVars
<1>5. CASE Fetcher \/ FetcherReturns
  BY <1>3, <1>5 DEF Fetcher, Load, UpdateStatus, FetchSignatures,
     GetSavedTransactions, FetchTransaction, AppendLast, FetcherReturns,
     FetcherUnchanged, writerVars
<1>6. CASE SaveTransactions \/ UpdateUserSignatures \/ UpdateUserLastSignature
  BY <1>2, <1>6 DEF SaveTransactions, UpdateUserSignatures,
     UpdateUserLastSignature, End, LoseMemory
<1>7. CASE DeduplicateTimestamps \/ WriterReturns \/ Return
  BY <1>2, <1>7 DEF DeduplicateTimestamps, WriterReturns, Return, End, LoseMemory
<1>8. CASE UNCHANGED vars
  BY <1>3, <1>8 DEF vars, memoryVars, writerVars
<1> QED BY <1>1, <1>4, <1>5, <1>6, <1>7, <1>8 DEF SyncNext, Writer

\* saveTransactions never gets more than BatchCap + 1 transactions, nor updateUser
\* more than as many saved ones to link, however far the fetcher is ahead.
THEOREM BatchIsBounded == SyncSpec => []BatchBounded
<1>1. SyncInit => Inv /\ BatchInv
  <2>1. SyncInit => BatchInv
    BY DEF SyncInit, EmptyMemory, BatchInv, PositionsDistinct, BatchBounded
  <2> QED BY <2>1, InvInit
<1>2. Inv /\ BatchInv /\ [SyncNext]_vars => (Inv /\ BatchInv)'
  <2>1. Inv /\ [SyncNext]_vars => Inv'
    BY InvNext, TypeNext DEF Inv
  <2> QED BY <2>1, BatchNext
<1>3. Inv /\ BatchInv => BatchBounded
  BY DEF BatchInv
<1> QED BY <1>1, <1>2, <1>3, PTL DEF SyncSpec

-----------------------------------------------------------------------------
(* Where no transaction is two wallets', no wallet has a full page of them and *)
(* clients wait, each transaction comes to the database once.                  *)

\* No transaction mentions two wallets.
NothingShared == \A s \in 1..MaxHeight : \A v, w \in Involves[s] : v = w

\* The whole history of a wallet is less than a page.
NoPageFull ==
  \A w \in Wallets : Cardinality({s \in 1..MaxHeight : w \in Involves[s]}) < Limit

\* A wallet that is queued has nothing on its way, and one whose page is awaited
\* has nothing behind the fetcher.
WaitingInv ==
  /\ \A w \in Wallets : status[w] = "queued" => ~InFlight(w)
  /\ fpc = "claim" => status[fwallet] = "queued"
  /\ fpc \in {"page", "saved"} =>
       uwallet # fwallet /\ \A m \in queue : m.wallet # fwallet

\* A transaction is still to be fetched, or queued, or in the writer's hands, or
\* saved, one of them and once.
OnceInv ==
  /\ QueuedOnce
  /\ \A m \in queue : m.kind # "last" => m.sig \notin ftodo \cup Signatures(utxs)
  /\ \A m \in OfKind(queue, "onchain") : m.sig \notin saved
  /\ ftodo \cap (saved \cup Signatures(utxs)) = {}
  /\ wpc = "save" => ~SignatureConflict
  /\ SignaturesInserted

\* The history of one wallet is not another's, and has not a full page.
LEMMA Histories ==
  ASSUME TypeOK
  PROVE  /\ NothingShared => \A v, w, s : s \in History(v) \cap History(w) => v = w
         /\ NoPageFull => \A w \in Wallets : \A P \in SUBSET History(w) :
                            Cardinality(P) < Limit
<1>1. \A w : History(w) \in SUBSET (1..MaxHeight)
  BY LedgerAssumption DEF TypeOK, TypeDatabase, History
<1>2. NothingShared => \A v, w, s : s \in History(v) \cap History(w) => v = w
  BY <1>1 DEF NothingShared, History
<1>3. ASSUME NoPageFull, NEW w \in Wallets, NEW P \in SUBSET History(w)
      PROVE  Cardinality(P) < Limit
  <2> DEFINE All == {s \in 1..MaxHeight : w \in Involves[s]}
  <2>1. P \subseteq All /\ All \in SUBSET (1..MaxHeight)
    BY <1>1 DEF History
  <2>2. IsFiniteSet(All) /\ Cardinality(All) \in Nat
    BY <2>1, FiniteTransactions
  <2>3. Cardinality(P) <= Cardinality(All) /\ Cardinality(P) \in Nat
    BY <2>1, <2>2, FS_Subset, FS_CardinalityType
  <2>4. Cardinality(All) < Limit
    BY <1>3 DEF NoPageFull
  <2> QED BY <2>2, <2>3, <2>4, SyncAssumption
<1> QED BY <1>2, <1>3

\* A message of a transaction is one of its wallet's.
LEMMA QueuedOwn ==
  ASSUME Inv, NEW m \in queue, m.kind # "last"
  PROVE  m.wallet \in Wallets /\ m.sig \in History(m.wallet)
<1>1. m.wallet \in Wallets /\ m.sig \in 1..MaxHeight
  BY DEF Inv, TypeOK, TypeQueue, Messages, TransactionMessages, CursorMessages
<1>2. m.sig \in HistoryOrNone(m.wallet)
  BY DEF Inv, NothingSkipped, QueueInv
<1> QED BY <1>1, <1>2, LedgerAssumption DEF HistoryOrNone, NoSignature

\* While clients wait, a wallet is queued again only when nothing of it is left in
\* memory, and its page is asked for before anything of it is queued.
LEMMA WaitingStep ==
  ASSUME Inv, WaitingInv, NoPageFull, ~EagerRequests, [SyncNext]_vars
  PROVE  WaitingInv'
<1> USE DEF WaitingInv, InFlight
<1>0. TypeOK /\ NothingSkipped
  BY DEF Inv
<1>1. CASE UNCHANGED <<status, queue, fpc, fwallet, uwallet>>
  BY <1>1
<1>2. CASE LoseMemory /\ UNCHANGED status
  BY <1>2, SyncAssumption DEF LoseMemory
<1>3. ASSUME NEW w \in Wallets, RequestSync(w) PROVE WaitingInv'
  <2>1. /\ status' = [status EXCEPT ![w] = "queued"]
        /\ ~InFlight(w)
        /\ UNCHANGED <<queue, fpc, fwallet, uwallet>>
    BY <1>3 DEF RequestSync, memoryVars, queueVars, fetcherVars, writerVars
  <2>2. status \in [Wallets -> Statuses]
    BY <1>0 DEF TypeOK, TypeOutside
  <2>3. \A v \in Wallets : status'[v] = "queued" => v = w \/ status[v] = "queued"
    BY <2>1, <2>2
  <2>4. \A v : status[v] = "queued" /\ v \in Wallets => status'[v] = "queued"
    BY <2>1, <2>2
  <2>5. fpc = "claim" => fwallet \in Wallets
    BY <1>0 DEF TypeOK, TypeFetcher
  <2> QED BY <2>1, <2>3, <2>4, <2>5
<1>4. CASE Load
  <2>1. PICK w \in Wallets : status[w] = "queued" /\ fwallet' = w
    BY <1>4 DEF Load, OldestQueued
  <2>2. fpc' = "claim" /\ UNCHANGED <<status, queue, uwallet>>
    BY <1>4 DEF Load, queueVars, FetcherUnchanged, writerVars
  <2> QED BY <2>1, <2>2
<1>5. CASE UpdateStatus
  <2>1. /\ fpc = "claim" /\ fpc' = "page"
        /\ status' = [status EXCEPT ![fwallet] = "processing"]
        /\ UNCHANGED <<queue, fwallet, uwallet>>
    BY <1>5 DEF UpdateStatus, queueVars, FetcherUnchanged, writerVars
  <2>2. fwallet \in Wallets /\ status \in [Wallets -> Statuses]
    BY <1>0, <2>1 DEF TypeOK, TypeFetcher, TypeOutside
  <2>3. uwallet # fwallet /\ \A m \in queue : m.wallet # fwallet
    BY <2>1, <2>2
  <2>4. \A v \in Wallets : status'[v] = "queued" => v # fwallet /\ status[v] = "queued"
    BY <2>1, <2>2
  <2> QED BY <2>1, <2>3, <2>4
<1>6. CASE FetchSignatures
  <2>1. /\ fpc = "page" /\ fpc' \in {"last", "saved"}
        /\ UNCHANGED <<status, queue, fwallet, uwallet>>
    BY <1>6 DEF FetchSignatures, queueVars, FetcherUnchanged, writerVars
  <2> QED BY <2>1
<1>7. CASE GetSavedTransactions \/ FetchTransaction \/ AppendLast
  <2>1. PICK New : queue' = queue \cup New /\ \A m \in New : m.wallet = fwallet
    <3>1. CASE GetSavedTransactions
      <4>1. PICK o : queue' = queue \cup
                       {Message(position + o[s], fwallet, "saved", s)
                          : s \in fpage \cap saved}
        BY <3>1 DEF GetSavedTransactions
      <4> DEFINE New == {Message(position + o[s], fwallet, "saved", s)
                           : s \in fpage \cap saved}
      <4>2. queue' = queue \cup New /\ \A m \in New : m.wallet = fwallet
        BY <4>1 DEF Message
      <4> QED BY <4>2
    <3>2. CASE FetchTransaction \/ AppendLast
      <4>1. PICK k, s : queue' = queue \cup {Message(position, fwallet, k, s)}
        BY <3>2 DEF FetchTransaction, AppendLast
      <4> DEFINE New == {Message(position, fwallet, k, s)}
      <4>2. \A m \in New : m.wallet = fwallet
        BY DEF Message
      <4>3. queue' = queue \cup New
        BY <4>1
      <4> HIDE DEF New
      <4> QED BY <4>2, <4>3
    <3> QED BY <1>7, <3>1, <3>2
  <2>2. fpc \in {"saved", "txs", "last"} /\ UNCHANGED <<status, uwallet>>
    BY <1>7 DEF GetSavedTransactions, FetchTransaction, AppendLast,
       FetcherUnchanged, writerVars
  <2>3. fpc' \in {"txs", "last", "select"}
    <3>1. fpc # "last" => Cardinality(fpage) < Limit
      <4>1. fpc # "last" => fwallet \in Wallets /\ fpage \subseteq History(fwallet)
        BY <1>0, <2>2 DEF NothingSkipped, FetcherInv
      <4> QED BY <1>0, <4>1, Histories
    <3>2. fpc # "last" => fpc' \in {"txs", "last"}
      BY <1>7, <3>1 DEF GetSavedTransactions, FetchTransaction, AppendLast,
         AfterFetching
    <3>3. fpc = "last" => fpc' = "select"
      BY <1>7 DEF GetSavedTransactions, FetchTransaction, AppendLast
    <3> QED BY <3>2, <3>3
  <2>4. fwallet' \in {fwallet, NoWallet}
    BY <1>7 DEF GetSavedTransactions, FetchTransaction, AppendLast
  <2>5. \A w \in Wallets : status[w] = "queued" => w # fwallet
    BY <2>2
  <2> QED BY <2>1, <2>2, <2>3, <2>4, <2>5, SyncAssumption
<1>8. CASE FetcherReturns
  <2>1. fpc = "select" /\ fpc' = "returned" /\ UNCHANGED <<status, queue, fwallet, uwallet>>
    BY <1>8 DEF FetcherReturns, queueVars, FetcherUnchanged, writerVars
  <2> QED BY <2>1
<1>9. CASE ProcessMessages
  <2>1. PICK first \in queue : uwallet' = first.wallet
    BY <1>9 DEF ProcessMessages
  <2>2. queue' \subseteq queue /\ UNCHANGED <<status, fpc, fwallet>>
    BY <1>9 DEF ProcessMessages, WriterUnchanged, requestVars, fetcherVars
  <2> QED BY <2>1, <2>2
<1>10. CASE UpdateUserLastSignature
  <2>1. uwallet' = NoWallet /\ UNCHANGED <<status, queue, fpc, fwallet>>
    BY <1>10 DEF UpdateUserLastSignature, WriterUnchanged, requestVars, fetcherVars
  <2>2. fpc \in {"page", "saved"} => fwallet \in Wallets
    BY <1>0 DEF TypeOK, TypeFetcher
  <2> QED BY <2>1, <2>2, SyncAssumption
<1>11. CASE Kill \/ SaveTransactions \/ DeduplicateTimestamps \/ Return
  BY <1>1, <1>2, <1>11 DEF Kill, SaveTransactions, DeduplicateTimestamps, Return,
     End, requestVars, WriterUnchanged, fetcherVars
<1>12. CASE ConfirmTransaction \/ Cancel \/ Restart
  BY <1>1, <1>12 DEF ConfirmTransaction, Cancel, Restart, memoryVars, requestVars,
     queueVars, fetcherVars, writerVars
<1>13. CASE UpdateUserSignatures \/ WriterReturns
  BY <1>1, <1>13 DEF UpdateUserSignatures, WriterReturns, WriterUnchanged,
     requestVars, fetcherVars
<1>14. CASE UNCHANGED vars
  BY <1>1, <1>14 DEF vars, memoryVars, requestVars, queueVars, fetcherVars, writerVars
<1> QED BY <1>3, <1>4, <1>5, <1>6, <1>7, <1>8, <1>9, <1>10, <1>11, <1>12, <1>13,
           <1>14 DEF SyncNext, Environment, Fetcher, Writer

\* Then no step brings a transaction to a second place: the fetcher appends what
\* is not yet behind it, and the writer takes it out of the queue with the batch.
LEMMA OnceStep ==
  ASSUME Inv, WaitingInv, OnceInv, NothingShared, [SyncNext]_vars
  PROVE  OnceInv'
<1> USE DEF OnceInv, QueuedOnce, OfKind, Signatures, SignatureConflict,
            SignaturesInserted
<1>1. \A v, w, s : s \in History(v) \cap History(w) => v = w
  BY Histories DEF Inv
<1>2. \A m \in queue : m.kind # "last" => m.sig \in History(m.wallet)
  BY QueuedOwn
<1>3. fpc \in {"saved", "txs"} => fpage \subseteq History(fwallet) /\ ftodo \subseteq fpage
  BY DEF Inv, NothingSkipped, FetcherInv
<1>4. \A n \in utxs : n.sig \in History(uwallet)
  BY DEF Inv, NothingSkipped, WriterInv, WriterIdle
<1>5. CASE /\ UNCHANGED <<queue, ftodo, utxs, saved>>
           /\ wpc' = "save" => wpc = "save"
           /\ process' \in {process, "running"}
  BY <1>5
<1>6. CASE LoseMemory /\ process' # "fatal_signature"
  BY <1>6 DEF LoseMemory
<1>7. CASE GetSavedTransactions
  <2>1. PICK o : queue' = queue \cup {Message(position + o[s], fwallet, "saved", s)
                                        : s \in fpage \cap saved}
    BY <1>7 DEF GetSavedTransactions
  <2> DEFINE New == {Message(position + o[s], fwallet, "saved", s)
                       : s \in fpage \cap saved}
  <2>2. /\ fpc = "saved" /\ ftodo' = fpage \ saved
        /\ UNCHANGED <<utxs, saved, wpc, process>>
    BY <1>7 DEF GetSavedTransactions, FetcherUnchanged, dbVars, writerVars
  <2>3. \A m \in New : /\ m.wallet = fwallet /\ m.kind = "saved"
                       /\ m.sig \in fpage \cap saved
    BY DEF Message
  <2>4. \A m, n \in New : m.sig = n.sig => m = n
    BY DEF Message
  <2>5. queue' = queue \cup New
    BY <2>1
  <2> HIDE DEF New
  <2>6. uwallet # fwallet /\ \A m \in queue : m.wallet # fwallet
    BY <2>2 DEF WaitingInv
  <2>7. \A s \in fpage : s \notin Signatures(utxs)
    BY <1>1, <1>3, <1>4, <2>2, <2>6
  <2>8. \A m \in queue : m.kind # "last" => m.sig \notin fpage
    BY <1>1, <1>2, <1>3, <2>2, <2>6
  <2>9. QueuedOnce'
    BY <2>3, <2>4, <2>5, <2>6
  <2>10. \A m \in queue' : m.kind # "last" => m.sig \notin ftodo' \cup Signatures(utxs)'
    BY <2>2, <2>3, <2>5, <2>7, <2>8
  <2>11. \A m \in OfKind(queue, "onchain")' : m.sig \notin saved'
    BY <2>2, <2>3, <2>5
  <2>12. ftodo' \cap (saved' \cup Signatures(utxs)') = {}
    BY <2>2, <2>7
  <2> QED BY <2>2, <2>9, <2>10, <2>11, <2>12
<1>8. CASE FetchTransaction
  <2>1. PICK s \in ftodo :
          /\ queue' = queue \cup {Message(position, fwallet, "onchain", s)}
          /\ ftodo' = ftodo \ {s}
    BY <1>8 DEF FetchTransaction
  <2> DEFINE m0 == Message(position, fwallet, "onchain", s)
  <2>2. /\ queue' = queue \cup {m0} /\ ftodo' = ftodo \ {s}
        /\ m0.kind = "onchain" /\ m0.sig = s
    BY <2>1 DEF Message
  <2> HIDE DEF m0
  <2>3. UNCHANGED <<utxs, saved, wpc, process>>
    BY <1>8 DEF FetchTransaction, FetcherUnchanged, dbVars, writerVars
  <2>4. \A m \in queue : m.kind # "last" => m.sig # s
    OBVIOUS
  <2>5. s \notin saved /\ s \notin Signatures(utxs)
    OBVIOUS
  <2> QED BY <2>2, <2>3, <2>4, <2>5
<1>9. CASE AppendLast
  <2>1. PICK m0 : queue' = queue \cup {m0} /\ m0.kind = "last"
    BY <1>9 DEF AppendLast, Message
  <2>2. ftodo' = {} /\ UNCHANGED <<utxs, saved, wpc, process>>
    BY <1>9 DEF AppendLast, FetcherUnchanged, dbVars, writerVars
  <2> QED BY <2>1, <2>2
<1>10. CASE ProcessMessages
  <2>1. PICK first \in queue :
          /\ queue' = queue \ Taken(first.wallet)
          /\ utxs' = OfKind(Taken(first.wallet), "onchain")
    BY <1>10 DEF ProcessMessages
  <2>2. UNCHANGED <<ftodo, saved, process>>
    BY <1>10 DEF ProcessMessages, WriterUnchanged, fetcherVars, dbVars
  <2>3. \A n \in utxs' : n \in queue \ queue' /\ n.kind = "onchain"
    BY <2>1 DEF Taken
  <2>4. \A m, n \in queue : m.kind # "last" /\ n.kind # "last" /\ m.sig = n.sig => m = n
    BY <1>1, <1>2
  <2>5. queue' \subseteq queue
    BY <2>1
  <2>6. \A m \in queue' : m.kind # "last" => m.sig \notin Signatures(utxs)'
    BY <2>3, <2>4, <2>5
  <2>7. ftodo' \cap (saved' \cup Signatures(utxs)') = {}
    BY <2>2, <2>3
  <2>8. ~SignatureConflict'
    BY <2>2, <2>3, <2>4
  <2> QED BY <2>2, <2>5, <2>6, <2>7, <2>8
<1>11. CASE SaveTransactions
  <2>1. wpc = "save" /\ ~SignatureConflict
    BY <1>11 DEF SaveTransactions
  <2>2. CASE End("fatal_instruction")
    BY <1>6, <2>2 DEF End
  <2>3. CASE /\ saved' = saved \cup Signatures(utxs)
             /\ wpc' = "link" /\ UNCHANGED <<queue, ftodo, utxs, process>>
    BY <2>3
  <2> QED BY <1>11, <2>1, <2>2, <2>3
          DEF SaveTransactions, WriterUnchanged, fetcherVars
<1>12. CASE UpdateUserLastSignature
  <2>1. /\ utxs' = {} /\ wpc' # "save"
        /\ UNCHANGED <<queue, ftodo, saved, process>>
    BY <1>12 DEF UpdateUserLastSignature, WriterUnchanged, fetcherVars
  <2> QED BY <2>1
<1>13. CASE Kill \/ DeduplicateTimestamps \/ Return
  BY <1>6, <1>13 DEF Kill, DeduplicateTimestamps, Return, End
<1>14. CASE ConfirmTransaction \/ Cancel \/ Restart \/ \E w \in Wallets : RequestSync(w)
  BY <1>5, <1>14 DEF ConfirmTransaction, Cancel, Restart, RequestSync, dbVars,
     memoryVars, queueVars, fetcherVars, writerVars
<1>15. CASE Load \/ UpdateStatus \/ FetchSignatures \/ FetcherReturns
  BY <1>5, <1>15 DEF Load, UpdateStatus, FetchSignatures, FetcherReturns,
     FetcherUnchanged, dbVars, queueVars, writerVars
<1>16. CASE UpdateUserSignatures \/ WriterReturns
  BY <1>5, <1>16 DEF UpdateUserSignatures, WriterReturns, WriterUnchanged, dbVars,
     fetcherVars
<1>17. CASE UNCHANGED vars
  BY <1>5, <1>17 DEF vars, memoryVars, dbVars, queueVars, fetcherVars, writerVars
<1> QED BY <1>7, <1>8, <1>9, <1>10, <1>11, <1>12, <1>13, <1>14, <1>15, <1>16, <1>17
        DEF SyncNext, Environment, Fetcher, Writer

\* Both hold at the beginning.
LEMMA OnceInit == SyncInit => WaitingInv /\ OnceInv
<1> SUFFICES ASSUME SyncInit PROVE WaitingInv /\ OnceInv
  OBVIOUS
<1>1. WaitingInv
  BY SyncAssumption DEF SyncInit, EmptyMemory, WaitingInv, InFlight
<1>2. OnceInv
  BY DEF SyncInit, EmptyMemory, OnceInv, QueuedOnce, OfKind, Signatures,
     SignaturesInserted
<1> QED BY <1>1, <1>2

\* So both hold always.
LEMMA OnceAlways ==
  ASSUME NothingShared, NoPageFull, ~EagerRequests
  PROVE  SyncSpec => []OnceInv
<1>1. SyncInit => Inv /\ WaitingInv /\ OnceInv
  BY InvInit, OnceInit
<1>2. Inv /\ WaitingInv /\ OnceInv /\ [SyncNext]_vars
        => (Inv /\ WaitingInv /\ OnceInv)'
  <2>1. Inv /\ [SyncNext]_vars => Inv'
    BY InvNext, TypeNext DEF Inv
  <2> QED BY <2>1, WaitingStep, OnceStep
<1> QED BY <1>1, <1>2, PTL DEF SyncSpec

\* One synchronisation queues a transaction once, also after kills and restarts
\* that left the page half saved, or saved and not linked.  Without NoPageFull the
\* run FullPage shows otherwise.
THEOREM TransactionsAreQueuedOnce ==
  ASSUME NothingShared, NoPageFull, ~EagerRequests
  PROVE  SyncSpec => []QueuedOnce
<1>1. OnceInv => QueuedOnce
  BY DEF OnceInv
<1> QED BY <1>1, OnceAlways, PTL

\* saveTransactions never inserts a signature that is there (db.go:80), whatever
\* batches earlier lives left half done.  Where clients do not wait the run
\* RepeatedRequest shows otherwise.
THEOREM SignaturesAreInserted ==
  ASSUME NothingShared, NoPageFull, ~EagerRequests
  PROVE  SyncSpec => []SignaturesInserted
<1>1. OnceInv => SignaturesInserted
  BY DEF OnceInv
<1> QED BY <1>1, OnceAlways, PTL

-----------------------------------------------------------------------------
(* And where a page is full, the page loop has no end. *)

\* A fetcher that has met a full page stays with it until the process ends: it
\* never comes to the cursor of this wallet, nor to another wallet's request.
FullPageIsEndless == [][OnFullPage => OnFullPage' \/ process' # "running"]_vars

\* A larger set of transactions is as full.
LEMMA FullerPage ==
  ASSUME NEW S \in SUBSET (1..MaxHeight), NEW P \in SUBSET S,
         Cardinality(P) >= Limit
  PROVE  Cardinality(S) >= Limit
<1>1. IsFiniteSet(S) /\ Cardinality(S) \in Nat /\ Cardinality(P) \in Nat
  BY FiniteTransactions
<1>2. Cardinality(P) <= Cardinality(S)
  BY <1>1, FS_Subset
<1> QED BY <1>1, <1>2, SyncAssumption

\* For every chain, page size and life: what FullPage shows on three transactions.
THEOREM AFullPageIsEndless == SyncSpec => FullPageIsEndless
<1>1. ASSUME Inv, [SyncNext]_vars, OnFullPage, process' = "running"
      PROVE  OnFullPage'
  <2>1. AboveUntil \in SUBSET (1..MaxHeight)
    BY <1>1, LedgerAssumption DEF Inv, TypeOK, TypeDatabase, AboveUntil, History
  <2>2. CASE UNCHANGED <<height, fpc, fwallet, funtil, fpage>>
    BY <1>1, <2>2 DEF OnFullPage, AboveUntil, History
  <2>3. CASE ConfirmTransaction
    <3>1. /\ height \in 0..MaxHeight /\ height' = height + 1 /\ height < MaxHeight
          /\ UNCHANGED <<fpc, fwallet, funtil, fpage>>
      BY <1>1, <2>3 DEF ConfirmTransaction, Confirm, Inv, TypeOK, TypeDatabase,
         memoryVars, fetcherVars
    <3>2. AboveUntil \subseteq AboveUntil' /\ AboveUntil' \in SUBSET (1..MaxHeight)
      BY <3>1, LedgerAssumption DEF AboveUntil, History
    <3>3. Cardinality(AboveUntil) >= Limit => Cardinality(AboveUntil') >= Limit
      BY <3>2, FullerPage
    <3> QED BY <1>1, <3>1, <3>2, <3>3 DEF OnFullPage
  <2>4. CASE FetchSignatures
    <3>1. /\ fpc = "page" /\ Cardinality(AboveUntil) >= Limit
          /\ UNCHANGED <<height, fwallet, funtil>>
      BY <1>1, <2>4 DEF FetchSignatures, OnFullPage, FetcherUnchanged
    <3>2. AboveUntil # {}
      BY <3>1, FS_EmptySet, SyncAssumption
    <3>3. PICK page \in SUBSET AboveUntil : Page(AboveUntil, page) /\ fpage' = page
      BY <2>4, <3>2 DEF FetchSignatures, AboveUntil
    <3>4. Cardinality(page) >= Limit
      BY <3>1, <3>3, SyncAssumption DEF Page
    <3>5. fpc' = "saved"
      BY <2>4, <3>2 DEF FetchSignatures, AboveUntil
    <3>6. AboveUntil' = AboveUntil
      BY <3>1 DEF AboveUntil, History
    <3> QED BY <3>3, <3>4, <3>5, <3>6 DEF OnFullPage
  <2>5. CASE GetSavedTransactions \/ FetchTransaction
    <3>1. /\ fpc \in {"saved", "txs"}
          /\ UNCHANGED <<height, fwallet, funtil, fpage>>
      BY <2>5 DEF GetSavedTransactions, FetchTransaction, FetcherUnchanged
    <3>2. fpage \subseteq AboveUntil /\ Cardinality(fpage) >= Limit
      BY <1>1, <3>1 DEF OnFullPage
    <3>3. Cardinality(fpage) \in Nat /\ Cardinality(AboveUntil) >= Limit
      BY <2>1, <3>2, FullerPage, FiniteTransactions
    <3>4. fpc' \in {"txs", "page"}
      BY <2>5, <3>2, <3>3, SyncAssumption
         DEF GetSavedTransactions, FetchTransaction, AfterFetching
    <3>5. AboveUntil' = AboveUntil
      BY <3>1 DEF AboveUntil, History
    <3> QED BY <3>1, <3>2, <3>3, <3>4, <3>5 DEF OnFullPage
  <2>6. CASE Load \/ UpdateStatus \/ AppendLast \/ FetcherReturns \/ Return
    BY <1>1, <2>6 DEF Load, UpdateStatus, AppendLast, FetcherReturns, Return,
       OnFullPage
  <2>7. CASE Kill \/ DeduplicateTimestamps
    BY <1>1, <2>7 DEF Kill, DeduplicateTimestamps, End
  <2>8. CASE Cancel \/ Restart \/ \E w \in Wallets : RequestSync(w)
    BY <2>2, <2>8 DEF Cancel, Restart, RequestSync, memoryVars, fetcherVars
  <2>9. CASE SaveTransactions
    <3>1. ~End("fatal_signature") /\ ~End("fatal_instruction")
      BY <1>1 DEF End
    <3> QED BY <2>2, <2>9, <3>1 DEF SaveTransactions, WriterUnchanged, fetcherVars
  <2>10. CASE ProcessMessages \/ UpdateUserSignatures \/ UpdateUserLastSignature
                \/ WriterReturns
    BY <2>2, <2>10 DEF ProcessMessages, UpdateUserSignatures,
       UpdateUserLastSignature, WriterReturns, WriterUnchanged, fetcherVars
  <2>11. CASE UNCHANGED vars
    BY <2>2, <2>11 DEF vars, memoryVars, fetcherVars
  <2> QED BY <1>1, <2>3, <2>4, <2>5, <2>6, <2>7, <2>8, <2>9, <2>10, <2>11
          DEF SyncNext, Environment, Fetcher, Writer
<1>2. Inv /\ [SyncNext]_vars => [OnFullPage => OnFullPage' \/ process' # "running"]_vars
  BY <1>1
<1>3. SyncSpec => []Inv
  BY TypeCorrect, NothingIsSkipped, PTL DEF Inv
<1> QED BY <1>2, <1>3, PTL DEF SyncSpec, FullPageIsEndless

=============================================================================
