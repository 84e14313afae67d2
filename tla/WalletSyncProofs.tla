-------------------------- MODULE WalletSyncProofs --------------------------
(***************************************************************************)
(* Proofs about WalletSync, for any wallets, any chain and any bounds.     *)
(***************************************************************************)
EXTENDS WalletSync, FiniteSetTheorems, TLAPS

-----------------------------------------------------------------------------
(* Type correctness. *)

\* The chain is finite, and so is any part of it.
LEMMA FiniteTransactions ==
  ASSUME NEW S \in SUBSET (1..MaxHeight)
  PROVE  IsFiniteSet(S) /\ Cardinality(S) \in Nat
<1>1. IsFiniteSet(1..MaxHeight)
  BY LedgerAssumption, FS_Interval
<1>2. IsFiniteSet(S)
  BY <1>1, FS_Subset
<1> QED BY <1>2, FS_CardinalityType

\* The positions handed to the rows of a query are numbers, and distinct.
LEMMA OrdersType ==
  ASSUME NEW S \in SUBSET (1..MaxHeight), NEW o \in Orders(S)
  PROVE  \A s \in S : o[s] \in Nat /\ o[s] < Cardinality(S)
<1>1. Cardinality(S) \in Nat
  BY FiniteTransactions
<1> QED BY <1>1 DEF Orders

\* What appendMessages adds for the saved transactions of a page.
LEMMA SavedMessagesType ==
  ASSUME position \in Nat, NEW w \in Wallets,
         NEW S \in SUBSET (1..MaxHeight), NEW o \in Orders(S)
  PROVE  LET M == {Message(position + o[s], w, "saved", s) : s \in S}
         IN  M \subseteq Messages /\ IsFiniteSet(M)
<1> DEFINE M == {Message(position + o[s], w, "saved", s) : s \in S}
           f == [m \in M |-> m.sig]
<1>1. M \subseteq Messages
  BY OrdersType, LedgerAssumption DEF Messages, TransactionMessages, Message
<1>2. f \in Injection(M, S)
  <2>1. f \in [M -> S]
    BY DEF Message
  <2>2. \A m, n \in M : f[m] = f[n] => m = n
    BY DEF Message
  <2> QED BY <2>1, <2>2 DEF Injection, IsInjective
<1>3. IsFiniteSet(S)
  BY FiniteTransactions
<1>4. IsFiniteSet(M)
  BY <1>2, <1>3, FS_Injection
<1> QED BY <1>1, <1>4

\* The memory of a program that starts, or has ended.
LEMMA EmptyMemoryType ==
  /\ EmptyMemory => TypeQueue /\ TypeFetcher /\ TypeWriter
  /\ LoseMemory => TypeQueue' /\ TypeFetcher' /\ TypeWriter'
<1> USE LedgerAssumption, FS_EmptySet
        DEF TypeQueue, TypeFetcher, TypeWriter, NoSignature
<1>1. EmptyMemory => TypeQueue /\ TypeFetcher /\ TypeWriter
  BY DEF EmptyMemory
<1>2. LoseMemory => TypeQueue' /\ TypeFetcher' /\ TypeWriter'
  BY DEF LoseMemory
<1> QED BY <1>1, <1>2

\* The initial state is well typed.
LEMMA TypeInit == SyncInit => TypeOK
<1> SUFFICES ASSUME SyncInit PROVE TypeOK
  OBVIOUS
<1>1. TypeDatabase
  BY LedgerAssumption DEF SyncInit, Init, TypeDatabase, NoSignature
<1>2. TypeOutside
  BY DEF SyncInit, EmptyMemory, TypeOutside, Statuses
<1>3. TypeQueue /\ TypeFetcher /\ TypeWriter
  BY EmptyMemoryType DEF SyncInit
<1> QED BY <1>1, <1>2, <1>3 DEF TypeOK

\* So is the state in which the process ends.
LEMMA EndType ==
  ASSUME TypeOK, NEW how \in Ends, End(how)
  PROVE  TypeOK'
<1>1. TypeDatabase' /\ TypeOutside'
  BY DEF TypeOK, TypeDatabase, TypeOutside, End, LoseMemory, dbVars,
         requestVars
<1>2. TypeQueue' /\ TypeFetcher' /\ TypeWriter'
  BY EmptyMemoryType DEF End
<1> QED BY <1>1, <1>2 DEF TypeOK

\* Chain, clients and operator keep the types.
LEMMA EnvironmentType == TypeOK /\ Environment => TypeOK'
<1> SUFFICES ASSUME TypeOK, Environment PROVE TypeOK'
  OBVIOUS
<1> USE DEF TypeOK, TypeDatabase, TypeOutside, TypeQueue, TypeFetcher,
            TypeWriter, dbVars, requestVars, queueVars, fetcherVars,
            writerVars, memoryVars
<1>1. CASE ConfirmTransaction
  BY <1>1, LedgerAssumption DEF ConfirmTransaction, Confirm
<1>2. ASSUME NEW w \in Wallets, RequestSync(w) PROVE TypeOK'
  <2> DEFINE rank == Cardinality({v \in Wallets : status[v] # "none"}) + 1
  <2>1. created' \in [Wallets -> Nat]
    <3>1. CASE status[w] # "none"
      BY <1>2, <3>1 DEF RequestSync
    <3>2. CASE status[w] = "none"
      <4>1. rank \in Nat
        BY SyncAssumption, FS_Subset, FS_CardinalityType
      <4>2. created' = [created EXCEPT ![w] = rank]
        BY <1>2, <3>2 DEF RequestSync
      <4> QED BY <4>1, <4>2
    <3> QED BY <3>1, <3>2
  <2>2. status' \in [Wallets -> Statuses]
    BY <1>2 DEF RequestSync, Statuses
  <2> QED BY <1>2, <2>1, <2>2 DEF RequestSync
<1>3. CASE Kill
  BY <1>3, EndType DEF Kill, Ends
<1>4. CASE Cancel
  BY <1>4 DEF Cancel
<1>5. CASE Restart
  BY <1>5 DEF Restart
<1> QED BY <1>1, <1>2, <1>3, <1>4, <1>5 DEF Environment

\* So does the fetcher.
LEMMA FetcherType == TypeOK /\ (Fetcher \/ FetcherReturns) => TypeOK'
<1> SUFFICES ASSUME TypeOK, Fetcher \/ FetcherReturns PROVE TypeOK'
  OBVIOUS
<1> USE DEF TypeOK, TypeDatabase, TypeOutside, TypeQueue, TypeFetcher,
            TypeWriter, dbVars, queueVars, writerVars, FetcherUnchanged
<1>1. CASE Load
  BY <1>1 DEF Load
<1>2. CASE UpdateStatus
  BY <1>2 DEF UpdateStatus, Statuses
<1>3. CASE FetchSignatures
  <2>1. History(fwallet) \subseteq 1..MaxHeight
    BY LedgerAssumption DEF History
  <2> DEFINE found == {s \in History(fwallet) : s > funtil}
  <2>0. /\ fpc = "page"
        /\ UNCHANGED <<status, queueVars, fwallet, funtil, ftodo>>
        /\ FetcherUnchanged
    BY <1>3 DEF FetchSignatures
  <2>2. CASE found = {} /\ fpc' = "last" /\ UNCHANGED <<fpage, fnewest>>
    BY <2>0, <2>2
  <2>3. ASSUME NEW page \in SUBSET found,
               fpage' = page, fpc' = "saved",
               IF fnewest = NoSignature THEN IsNewest(fnewest', page)
                                        ELSE UNCHANGED fnewest
        PROVE  TypeOK'
    <3>1. page \subseteq 1..MaxHeight /\ page \subseteq 0..MaxHeight
      BY <2>1, LedgerAssumption
    <3>2. fnewest' \in page \/ fnewest' = fnewest
      BY <2>3 DEF IsNewest
    <3>3. fnewest' \in 0..MaxHeight
      BY <3>1, <3>2
    <3> QED BY <2>0, <2>3, <3>1, <3>3
  <2> QED BY <1>3, <2>2, <2>3 DEF FetchSignatures
<1>4. CASE GetSavedTransactions
  <2> DEFINE S == fpage \cap saved
  <2>1. S \in SUBSET (1..MaxHeight) /\ fwallet \in Wallets
    BY <1>4 DEF GetSavedTransactions
  <2>2. PICK o \in Orders(S) :
          queue' = queue \cup {Message(position + o[s], fwallet, "saved", s)
                                 : s \in S}
    BY <1>4 DEF GetSavedTransactions
  <2>3. queue' \subseteq Messages /\ IsFiniteSet(queue')
    <3> DEFINE M == {Message(position + o[s], fwallet, "saved", s) : s \in S}
    <3>1. M \subseteq Messages /\ IsFiniteSet(M)
      BY <2>1, SavedMessagesType
    <3> HIDE DEF M
    <3>2. IsFiniteSet(queue \cup M)
      BY <3>1, FS_Union
    <3>3. queue' = queue \cup M
      BY <2>2 DEF M
    <3> QED BY <3>1, <3>2, <3>3
  <2>4. position' \in Nat
    BY <1>4, <2>1, FiniteTransactions DEF GetSavedTransactions
  <2> QED BY <1>4, <2>1, <2>3, <2>4 DEF GetSavedTransactions, AfterFetching
<1>5. CASE FetchTransaction
  <2>1. PICK s \in ftodo :
          /\ queue' = queue \cup {Message(position, fwallet, "onchain", s)}
          /\ ftodo' = ftodo \ {s}
          /\ fpc' = AfterFetching(ftodo \ {s})
    BY <1>5 DEF FetchTransaction
  <2>2. Message(position, fwallet, "onchain", s) \in Messages
    BY <1>5, LedgerAssumption DEF FetchTransaction, Message, Messages, TransactionMessages
  <2>3. IsFiniteSet(queue')
    BY <2>1, FS_AddElement
  <2>4. TypeQueue'
    BY <1>5, <2>1, <2>2, <2>3 DEF FetchTransaction
  <2> QED BY <1>5, <2>1, <2>4 DEF FetchTransaction, AfterFetching
<1>6. CASE AppendLast
  <2>1. Message(position, fwallet, "last", fnewest) \in Messages
    BY <1>6 DEF AppendLast, Message, Messages, CursorMessages
  <2>2. IsFiniteSet(queue')
    BY <1>6, FS_AddElement DEF AppendLast
  <2> QED BY <1>6, <2>1, <2>2, LedgerAssumption DEF AppendLast, NoSignature
<1>7. CASE FetcherReturns
  BY <1>7 DEF FetcherReturns
<1> QED BY <1>1, <1>2, <1>3, <1>4, <1>5, <1>6, <1>7 DEF Fetcher

\* So does the writer.
LEMMA WriterType == TypeOK /\ (Writer \/ WriterReturns \/ Return) => TypeOK'
<1> SUFFICES ASSUME TypeOK, Writer \/ WriterReturns \/ Return PROVE TypeOK'
  OBVIOUS
<1> USE DEF TypeOK, TypeDatabase, TypeOutside, TypeQueue, TypeFetcher,
            TypeWriter, requestVars, fetcherVars, WriterUnchanged
<1>1. CASE ProcessMessages
  <2>1. PICK first \in queue :
          /\ uwallet' = first.wallet
          /\ queue' = queue \ Taken(first.wallet)
          /\ utxs' = OfKind(Taken(first.wallet), "onchain")
          /\ uids' = Signatures(OfKind(Taken(first.wallet), "saved"))
          /\ ulast' \in LastSignatureOf(Taken(first.wallet))
    BY <1>1 DEF ProcessMessages
  <2> DEFINE T == Taken(first.wallet)
  <2>2. T \subseteq queue
    BY DEF Taken
  <2> HIDE DEF T
  <2>3. utxs' \subseteq queue /\ uids' \subseteq 1..MaxHeight
    BY <2>1, <2>2 DEF T, OfKind, Signatures, Messages, TransactionMessages,
                      CursorMessages
  <2> HIDE DEF T
  <2>4. ulast' \in 0..MaxHeight
    BY <2>1, <2>2, LedgerAssumption
       DEF T, LastSignatureOf, OfKind, Messages, TransactionMessages,
           CursorMessages, NoSignature
  <2>5. IsFiniteSet(utxs') /\ IsFiniteSet(queue')
    BY <2>1, <2>3, FS_Subset, FS_Difference
  <2>6. utxs' \subseteq TransactionMessages /\ first.wallet \in Wallets
    BY <2>1, <2>2 DEF T, OfKind, Messages, TransactionMessages, CursorMessages
  <2> QED BY <1>1, <2>1, <2>3, <2>4, <2>5, <2>6 DEF ProcessMessages, dbVars
<1>2. CASE SaveTransactions
  <2>1. CASE End("fatal_signature") \/ End("fatal_instruction")
    BY <2>1, EndType DEF Ends
  <2>2. CASE saved' = saved \cup Signatures(utxs)
    <3>1. Signatures(utxs) \subseteq 1..MaxHeight
      BY DEF Signatures, TransactionMessages
    <3> QED BY <1>2, <2>1, <2>2, <3>1 DEF SaveTransactions
  <2> QED BY <1>2, <2>1, <2>2 DEF SaveTransactions
<1>3. CASE UpdateUserSignatures
  <2>1. Cardinality(uids \ Linked(uwallet)) \in Nat
    BY FiniteTransactions
  <2>2. signatures' \in [Wallets -> Nat]
    BY <1>3, <2>1 DEF UpdateUserSignatures
  <2>3. links' \subseteq Wallets \X (1..MaxHeight)
    BY <1>3 DEF UpdateUserSignatures
  <2> QED BY <1>3, <2>2, <2>3 DEF UpdateUserSignatures
<1>4. CASE UpdateUserLastSignature
  <2>1. last' \in [Wallets -> 0..MaxHeight]
    BY <1>4, LedgerAssumption DEF UpdateUserLastSignature, CursorTaken, NoSignature
  <2> QED BY <1>4, <2>1, FS_EmptySet, LedgerAssumption
          DEF UpdateUserLastSignature, CursorTaken, NoSignature
<1>5. CASE DeduplicateTimestamps
  BY <1>5, EndType DEF DeduplicateTimestamps, Ends
<1>6. CASE WriterReturns
  BY <1>6 DEF WriterReturns, dbVars
<1>7. CASE Return
  BY <1>7, EndType DEF Return, Ends
<1> QED BY <1>1, <1>2, <1>3, <1>4, <1>5, <1>6, <1>7 DEF Writer

\* So does stuttering.
LEMMA TypeUnchanged == TypeOK /\ UNCHANGED vars => TypeOK'
BY DEF TypeOK, TypeDatabase, TypeOutside, TypeQueue, TypeFetcher, TypeWriter,
       vars, dbVars, requestVars, memoryVars, queueVars, fetcherVars,
       writerVars

\* So does every step.
LEMMA TypeNext == TypeOK /\ [SyncNext]_vars => TypeOK'
BY TypeUnchanged, EnvironmentType, FetcherType, WriterType DEF SyncNext

\* Each goroutine keeps the types of its own memory, of the queue and of the
\* tables, whatever the other does in between.
THEOREM TypeCorrect == SyncSpec => []TypeOK
BY TypeInit, TypeNext, PTL DEF SyncSpec

=============================================================================
