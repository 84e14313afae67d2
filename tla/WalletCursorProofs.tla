------------------------- MODULE WalletCursorProofs -------------------------
(***************************************************************************)
(* No transaction is passed over by a wallet's cursor: NothingSkipped is   *)
(* an inductive invariant of WalletSync.  From it follow the safety        *)
(* properties of WalletLedger, that the synchronisation implements it, and *)
(* what a step may never do to a cursor.                                   *)
(***************************************************************************)
EXTENDS WalletSyncProofs

Inv == TypeOK /\ NothingSkipped

-----------------------------------------------------------------------------
(* The parts of the state. *)

\* The fields of a queued message.
LEMMA QueueTypes ==
  ASSUME TypeQueue
  PROVE  \A m \in queue : /\ m.pos \in Nat
                          /\ m.wallet \in Wallets
                          /\ m.sig \in Nat
                          /\ m.kind \in {"saved", "onchain", "last"}
                          /\ m.kind # "last" => m.sig # 0
BY LedgerAssumption
   DEF TypeQueue, Messages, TransactionMessages, CursorMessages

\* Transactions are numbered from 1, so none is NoSignature.
LEMMA HistoryTypes ==
  ASSUME TypeDatabase
  PROVE  \A w : /\ History(w) \subseteq 1..height
                /\ History(w) \subseteq 1..MaxHeight
                /\ History(w) \subseteq Nat
                /\ NoSignature \notin History(w)
BY LedgerAssumption DEF History, TypeDatabase, NoSignature

\* A batch is a prefix of its wallet's messages.
LEMMA TakenIsPrefix ==
  ASSUME TypeQueue, NEW w \in Wallets, NEW m \in Taken(w), NEW n \in queue,
         n.wallet = w, n.pos <= m.pos
  PROVE  n \in Taken(w)
<1>1. m \in queue /\ m.wallet = w
  BY DEF Taken
<1>2. ASSUME NEW k PROVE Cardinality(TakenBefore(n, k)) <=
                           Cardinality(TakenBefore(m, k))
  <2>1. TakenBefore(n, k) \subseteq TakenBefore(m, k)
    BY <1>1, QueueTypes DEF TakenBefore
  <2>2. TakenBefore(m, k) \subseteq queue
    BY DEF TakenBefore
  <2>3. IsFiniteSet(TakenBefore(m, k))
    BY <2>2, FS_Subset DEF TypeQueue
  <2> QED BY <2>1, <2>3, FS_Subset
<1>3. ASSUME NEW k, NEW q \in queue
      PROVE  Cardinality(TakenBefore(q, k)) \in Nat
  BY FS_Subset, FS_CardinalityType DEF TakenBefore, TypeQueue
<1>4. \A k : Cardinality(TakenBefore(m, k)) <= BatchCap =>
               Cardinality(TakenBefore(n, k)) <= BatchCap
  BY <1>1, <1>2, <1>3, SyncAssumption
<1> QED BY <1>1, <1>4 DEF Taken

\* What lies ahead of a cursor stays ahead while messages are added.
LEMMA AheadKept ==
  ASSUME UNCHANGED <<height, links, uwallet, utxs, uids>>,
         queue \subseteq queue'
  PROVE  /\ \A w : History(w)' = History(w)
         /\ \A w, s, p : Ahead(w, s, p) => Ahead(w, s, p)'
BY DEF History, Ahead, InHand

-----------------------------------------------------------------------------

\* The tables are empty and so is the memory.
LEMMA InvInit == SyncInit => Inv
<1> SUFFICES ASSUME SyncInit PROVE NothingSkipped
  BY TypeInit DEF Inv
<1> USE DEF SyncInit, Init, EmptyMemory
<1>1. DatabaseInv
  <2>1. \A w \in Wallets : Linked(w) = {}
    BY DEF Linked
  <2>2. CountMatchesLinks
    BY <2>1, FS_EmptySet DEF CountMatchesLinks
  <2>3. CursorCovers
    BY LedgerAssumption DEF CursorCovers, CoveredUpTo, History, NoSignature
  <2> QED BY <2>2, <2>3
          DEF DatabaseInv, LinksAreOwn, HistoryOrNone
<1>2. QueueInv /\ CursorsInv
  BY DEF QueueInv, CursorsInv, Cursors
<1>3. WriterInv /\ FetcherInv
  BY DEF WriterInv, WriterIdle, FetcherInv, FetcherIdle
<1> QED BY <1>1, <1>2, <1>3 DEF NothingSkipped

\* A step that leaves the database and the chain alone keeps DatabaseInv.
LEMMA DatabaseKept ==
  ASSUME Inv, UNCHANGED <<height, dbVars>>
  PROVE  DatabaseInv'
BY DEF Inv, NothingSkipped, DatabaseInv, dbVars, LinksAreOwn,
       CountMatchesLinks, CursorCovers, CoveredUpTo, Linked, History,
       HistoryOrNone

\* The end of the process, however it comes: what was in memory claims nothing.
LEMMA EndInv ==
  ASSUME Inv, NEW how, End(how)
  PROVE  NothingSkipped'
<1>1. DatabaseInv'
  BY DatabaseKept DEF End
<1>2. QueueInv' /\ CursorsInv'
  BY DEF End, LoseMemory, QueueInv, CursorsInv, Cursors
<1>3. WriterInv' /\ FetcherInv'
  BY DEF End, LoseMemory, WriterInv, WriterIdle, FetcherInv, FetcherIdle
<1> QED BY <1>1, <1>2, <1>3 DEF NothingSkipped

\* A step of the fetcher that appends nothing keeps what is not its own.
LEMMA QueueKept ==
  ASSUME Inv, UNCHANGED <<height, dbVars, queueVars, writerVars>>
  PROVE  DatabaseInv' /\ QueueInv' /\ CursorsInv' /\ WriterInv'
<1> USE DEF Inv, NothingSkipped, dbVars, queueVars, writerVars
<1>1. DatabaseInv'
  BY DatabaseKept
<1>2. QueueInv'
  BY DEF QueueInv, HistoryOrNone, History
<1>3. CursorsInv'
  BY DEF CursorsInv, Cursors, History, Ahead, InHand
<1>4. WriterInv'
  BY DEF WriterInv, WriterIdle, Cursors, HistoryOrNone, History, InHand
<1> QED BY <1>1, <1>2, <1>3, <1>4

\* The steps that touch neither the tables nor the goroutines' memory.
LEMMA OutsideInv ==
  ASSUME Inv, UNCHANGED <<height, dbVars, queueVars, fetcherVars, writerVars>>
  PROVE  NothingSkipped'
<1>1. DatabaseInv' /\ QueueInv' /\ CursorsInv' /\ WriterInv'
  BY QueueKept
<1>2. FetcherInv'
  BY DEF Inv, NothingSkipped, FetcherInv, FetcherIdle, PageLeft, Cursors,
         HistoryOrNone, History, CoveredUpTo, Ahead, InHand, dbVars, queueVars,
         fetcherVars, writerVars
<1> QED BY <1>1, <1>2 DEF NothingSkipped

\* A transaction confirmed later is newer than every cursor.
LEMMA ConfirmInv == Inv /\ ConfirmTransaction => NothingSkipped'
<1> SUFFICES ASSUME Inv, ConfirmTransaction PROVE NothingSkipped'
  OBVIOUS
<1> USE DEF Inv, TypeOK, NothingSkipped
<1>1. /\ height \in Nat /\ height' = height + 1
      /\ UNCHANGED <<links, signatures, last, saved, queueVars, fetcherVars,
                     writerVars>>
  BY LedgerAssumption
     DEF ConfirmTransaction, Confirm, TypeDatabase, memoryVars
<1>2. \A w :
        /\ History(w) \subseteq History(w)'
        /\ \A s \in History(w)' : s \in Nat /\ (s <= height => s \in History(w))
        /\ \A s \in History(w) : s \in Nat /\ s <= height
        /\ HistoryOrNone(w) \subseteq HistoryOrNone(w)'
        /\ \A s \in HistoryOrNone(w) : s \in Nat /\ s <= height
  BY <1>1 DEF History, HistoryOrNone, NoSignature
<1>3. \A w, s, p : Ahead(w, s, p)' = Ahead(w, s, p)
  BY <1>1 DEF Ahead, InHand, queueVars, writerVars
<1>4. \A w : Cursors(w)' = Cursors(w)
  BY <1>1 DEF Cursors, queueVars
<1>5. \A w, s : CoveredUpTo(w, s) /\ s \in HistoryOrNone(w) => CoveredUpTo(w, s)'
  BY <1>1, <1>2 DEF CoveredUpTo
<1>6. DatabaseInv'
  <2>1. LinksAreOwn'
    BY <1>1 DEF DatabaseInv, LinksAreOwn
  <2>2. \A w : Linked(w)' = Linked(w)
    BY <1>1 DEF DatabaseInv, LinksAreOwn, Linked
  <2>3. CountMatchesLinks'
    BY <1>1, <2>2 DEF DatabaseInv, CountMatchesLinks
  <2>4. CursorCovers'
    BY <1>1, <1>5 DEF DatabaseInv, CursorCovers
  <2> QED BY <1>1, <1>2, <2>1, <2>3, <2>4 DEF DatabaseInv
<1>7. QueueInv'
  BY <1>1, <1>2 DEF QueueInv, queueVars
<1>8. CursorsInv'
  <2>1. \A w \in Wallets : \A m \in Cursors(w) : m.sig \in HistoryOrNone(w)
    BY DEF QueueInv, Cursors
  <2>2. ASSUME NEW w \in Wallets, NEW m \in Cursors(w), m.sig # NoSignature,
               NEW s \in History(w)', s <= m.sig
        PROVE  Ahead(w, s, m.pos)'
    <3>1. s \in History(w)
      BY <1>1, <1>2, <2>1, <2>2
    <3> QED BY <1>3, <2>2, <3>1 DEF CursorsInv
  <2> QED BY <1>1, <1>4, <2>2 DEF CursorsInv
<1>9. WriterInv'
  <2>1. CASE wpc \in {"select", "returned", "dedup"}
    BY <1>1, <2>1 DEF WriterInv, WriterIdle, writerVars
  <2>2. CASE ~(wpc \in {"select", "returned", "dedup"})
    <3>1. ASSUME ulast # NoSignature, NEW s \in History(uwallet)', s <= ulast
          PROVE  (<<uwallet, s>> \in links \/ InHand(uwallet, s))'
      <4>1. s \in History(uwallet)
        BY <1>1, <1>2, <2>2, <3>1 DEF WriterInv, writerVars
      <4> QED BY <1>1, <2>2, <3>1, <4>1 DEF WriterInv, InHand, writerVars
    <3> QED BY <1>1, <1>2, <1>4, <2>2, <3>1 DEF WriterInv, writerVars
  <2> QED BY <2>1, <2>2
<1>10. FetcherInv'
  <2>1. CASE fpc \in {"select", "returned"}
    BY <1>1, <2>1 DEF FetcherInv, FetcherIdle, fetcherVars
  <2>2. CASE ~(fpc \in {"select", "returned"})
    <3> DEFINE w == fwallet
    <3>1. PageLeft' = PageLeft
      BY <1>1 DEF PageLeft, fetcherVars
    <3>2. ASSUME fnewest # NoSignature,
                 \A s \in History(w) :
                   s <= fnewest => s \in PageLeft \/ Ahead(w, s, position),
                 NEW s \in History(w)', s <= fnewest
          PROVE  s \in PageLeft \/ Ahead(w, s, position)
      <4>1. s \in History(w)
        BY <1>1, <1>2, <2>2, <3>2 DEF FetcherInv, fetcherVars
      <4> QED BY <3>2, <4>1
    <3> QED BY <1>1, <1>2, <1>3, <1>4, <1>5, <2>2, <3>1, <3>2
            DEF FetcherInv, fetcherVars, writerVars, queueVars
  <2> QED BY <2>1, <2>2
<1> QED BY <1>6, <1>7, <1>8, <1>9, <1>10

-----------------------------------------------------------------------------
(* The fetcher. *)

\* Messages that carry transactions may be added at the end of the queue.
LEMMA AppendInv ==
  ASSUME Inv, UNCHANGED <<height, dbVars, writerVars>>,
         position' \in Nat, position <= position',
         NEW New, queue' = queue \cup New,
         \A m \in New : /\ m.kind \in {"saved", "onchain"}
                        /\ m.pos \in Nat /\ m.pos < position'
                        /\ m.sig \in History(m.wallet)
                        /\ m.kind = "saved" => m.sig \in saved
  PROVE  DatabaseInv' /\ QueueInv' /\ CursorsInv' /\ WriterInv'
<1> USE DEF Inv, TypeOK, NothingSkipped
<1>1. /\ \A w : History(w)' = History(w)
      /\ \A w, s, p : Ahead(w, s, p) => Ahead(w, s, p)'
  BY AheadKept DEF dbVars, writerVars
<1>2. \A w : Cursors(w)' = Cursors(w)
  BY DEF Cursors
<1>3. DatabaseInv'
  BY DatabaseKept
<1>4. QueueInv'
  BY <1>1, QueueTypes DEF QueueInv, HistoryOrNone, dbVars, TypeQueue
<1>5. CursorsInv'
  BY <1>1, <1>2 DEF CursorsInv, dbVars
<1>6. WriterInv'
  BY <1>1, <1>2 DEF WriterInv, WriterIdle, HistoryOrNone, InHand, dbVars,
                    writerVars
<1> QED BY <1>3, <1>4, <1>5, <1>6

\* load: the cursor becomes `until`, and everything up to it is linked.
LEMMA LoadInv == Inv /\ Load => NothingSkipped'
<1> SUFFICES ASSUME Inv, Load PROVE NothingSkipped'
  OBVIOUS
<1> USE DEF Inv, TypeOK, NothingSkipped, FetcherUnchanged
<1>1. DatabaseInv' /\ QueueInv' /\ CursorsInv' /\ WriterInv'
  BY QueueKept DEF Load
<1>2. PICK w \in Wallets : fwallet' = w /\ funtil' = last[w]
  BY DEF Load
<1>3. \A v, s : /\ HistoryOrNone(v)' = HistoryOrNone(v)
               /\ CoveredUpTo(v, s)' = CoveredUpTo(v, s)
  BY DEF Load, HistoryOrNone, History, CoveredUpTo, dbVars
<1>4. /\ last[w] \in HistoryOrNone(w) /\ last[w] \in Nat
      /\ CoveredUpTo(w, last[w])
  BY LedgerAssumption DEF DatabaseInv, CursorCovers, TypeDatabase
<1>5. fpage = {} /\ ftodo = {} /\ fnewest = NoSignature
  BY DEF Load, FetcherInv, FetcherIdle
<1>6. FetcherInv'
  BY <1>2, <1>3, <1>4, <1>5 DEF Load, FetcherInv, dbVars, HistoryOrNone
<1> QED BY <1>1, <1>6

\* updateStatus writes no more than a status.
LEMMA UpdateStatusInv == Inv /\ UpdateStatus => NothingSkipped'
<1> SUFFICES ASSUME Inv, UpdateStatus PROVE NothingSkipped'
  OBVIOUS
<1> USE DEF Inv, NothingSkipped, FetcherUnchanged
<1>1. DatabaseInv' /\ QueueInv' /\ CursorsInv' /\ WriterInv'
  BY QueueKept DEF UpdateStatus
<1>2. FetcherInv'
  BY DEF UpdateStatus, FetcherInv, HistoryOrNone, History, CoveredUpTo,
         Cursors, dbVars, queueVars, writerVars
<1> QED BY <1>1, <1>2

\* An idle fetcher leaves nothing behind.
LEMMA FetcherReturnsInv == Inv /\ FetcherReturns => NothingSkipped'
<1> SUFFICES ASSUME Inv, FetcherReturns PROVE NothingSkipped'
  OBVIOUS
<1> USE DEF Inv, NothingSkipped, FetcherUnchanged
<1>1. DatabaseInv' /\ QueueInv' /\ CursorsInv' /\ WriterInv'
  BY QueueKept DEF FetcherReturns
<1>2. FetcherInv'
  BY DEF FetcherReturns, FetcherInv, FetcherIdle
<1> QED BY <1>1, <1>2

\* The newest transaction of the first page is the newest of the wallet, and a
\* page that is not full holds all that is newer than the stored cursor.
LEMMA FetchSignaturesInv == Inv /\ FetchSignatures => NothingSkipped'
<1> SUFFICES ASSUME Inv, FetchSignatures PROVE NothingSkipped'
  OBVIOUS
<1> USE DEF Inv, TypeOK, NothingSkipped
<1> DEFINE w == fwallet
           found == {s \in History(w) : s > funtil}
<1>1. DatabaseInv' /\ QueueInv' /\ CursorsInv' /\ WriterInv'
  BY QueueKept DEF FetchSignatures, FetcherUnchanged
<1>2. /\ fpc = "page"
      /\ UNCHANGED <<fwallet, funtil, ftodo>>
      /\ UNCHANGED <<height, links, last, queue, position, uwallet, utxs, uids,
                     ulast>>
  BY DEF FetchSignatures, FetcherUnchanged, dbVars, queueVars, writerVars
<1>3. /\ \A v : HistoryOrNone(v)' = HistoryOrNone(v) /\ History(v)' = History(v)
      /\ \A v, s : CoveredUpTo(v, s)' = CoveredUpTo(v, s)
      /\ \A v : Cursors(v)' = Cursors(v)
      /\ \A v, s, p : Ahead(v, s, p)' = Ahead(v, s, p)
  BY <1>2 DEF HistoryOrNone, History, CoveredUpTo, Cursors, Ahead, InHand
<1>4. /\ w \in Wallets
      /\ funtil \in HistoryOrNone(w) /\ funtil \in Nat
      /\ funtil <= last[w]
      /\ CoveredUpTo(w, funtil)
      /\ ftodo = {} /\ fpage \subseteq History(w)
      /\ fnewest \in HistoryOrNone(w)
      /\ fnewest # NoSignature =>
           /\ funtil < fnewest
           /\ last[w] <= fnewest
           /\ uwallet = w => ulast <= fnewest
           /\ \A m \in Cursors(w) : m.sig <= fnewest
  BY <1>2, LedgerAssumption DEF FetcherInv, TypeFetcher
<1>5. /\ History(w) \subseteq Nat
      /\ last[w] \in HistoryOrNone(w) /\ last[w] \in Nat
      /\ uwallet = w => ulast \in HistoryOrNone(w)
      /\ \A m \in Cursors(w) : m.sig \in HistoryOrNone(w)
  <2>1. uwallet = w => ulast \in HistoryOrNone(w)
    BY <1>4, SyncAssumption DEF WriterInv, WriterIdle
  <2> QED BY <1>4, <2>1, HistoryTypes, LedgerAssumption
          DEF DatabaseInv, QueueInv, Cursors, TypeDatabase
<1>6. CASE found = {} /\ fpc' = "last" /\ UNCHANGED <<fpage, fnewest>>
  <2>1. fnewest = NoSignature
    BY <1>4, <1>6 DEF HistoryOrNone
  <2>2. \A m \in Cursors(w) : m.sig <= last[w]
    BY <1>4, <1>5, <1>6 DEF HistoryOrNone, NoSignature
  <2>3. FetcherInv'
    BY <1>2, <1>3, <1>4, <1>6, <2>1, <2>2 DEF FetcherInv
  <2> QED BY <1>1, <2>3
<1>7. ASSUME NEW page \in SUBSET found, found # {}, Page(found, page),
             fpage' = page, fpc' = "saved",
             IF fnewest = NoSignature THEN IsNewest(fnewest', page)
                                      ELSE UNCHANGED fnewest
      PROVE  NothingSkipped'
  <2>1. /\ fnewest' \in History(w) /\ funtil < fnewest'
        /\ \A t \in HistoryOrNone(w) : fnewest = NoSignature => t <= fnewest'
    <3>1. CASE fnewest = NoSignature
      <4>1. fnewest' \in page /\ \A t \in page : t <= fnewest'
        BY <1>7, <3>1 DEF IsNewest
      <4>2. \A t \in found \ page : fnewest' > t
        BY <1>7, <4>1 DEF Page
      <4> QED BY <1>4, <1>5, <1>7, <4>1, <4>2 DEF HistoryOrNone, NoSignature
    <3>2. CASE fnewest # NoSignature
      BY <1>4, <1>7, <3>2 DEF HistoryOrNone
    <3> QED BY <3>1, <3>2
  <2>2. /\ last[w] <= fnewest'
        /\ uwallet = w => ulast <= fnewest'
        /\ \A m \in Cursors(w) : m.sig <= fnewest'
    <3>1. CASE fnewest = NoSignature
      BY <1>5, <2>1, <3>1
    <3>2. CASE fnewest # NoSignature
      BY <1>4, <1>7, <3>2
    <3> QED BY <3>1, <3>2
  <2>3. ASSUME Cardinality(page) < Limit, NEW s \in History(w)
        PROVE  s \in page \/ Ahead(w, s, position)
    <3>1. page = found
      <4>1. Cardinality(page) # Limit
        <5>1. page \subseteq 1..MaxHeight
          BY HistoryTypes
        <5>2. Cardinality(page) \in Nat
          BY <5>1, FiniteTransactions
        <5> QED BY <2>3, <5>2, SyncAssumption
      <4> QED BY <1>7, <4>1 DEF Page
    <3>2. CASE s > funtil
      BY <3>1, <3>2
    <3>3. CASE s <= funtil
      BY <1>4, <3>3 DEF CoveredUpTo, Ahead
    <3> QED BY <1>4, <1>5, <3>2, <3>3
  <2>4. PageLeft' = page
    BY <1>7 DEF PageLeft
  <2>5. /\ page \subseteq History(w)
        /\ ftodo \subseteq page
        /\ fnewest' # NoSignature
        /\ fnewest' \in HistoryOrNone(w)
    BY <1>4, <2>1, HistoryTypes DEF HistoryOrNone
  <2> HIDE DEF found
  <2>6. FetcherInv'
    BY <1>2, <1>3, <1>4, <1>7, <2>1, <2>2, <2>3, <2>4, <2>5
       DEF FetcherInv
  <2> QED BY <1>1, <2>6
<1> QED BY <1>6, <1>7 DEF FetchSignatures


\* A step that queues some of what is left of the page, and keeps the rest.
LEMMA QueuedInv ==
  ASSUME Inv, fpc \in {"saved", "txs"},
         UNCHANGED <<height, dbVars, writerVars, fwallet, funtil, fpage, fnewest>>,
         position' \in Nat, position <= position',
         NEW New, queue' = queue \cup New,
         \A m \in New : /\ m.kind \in {"saved", "onchain"}
                        /\ m.wallet = fwallet
                        /\ m.pos \in Nat /\ m.pos < position'
                        /\ m.sig \in History(fwallet)
                        /\ m.kind = "saved" => m.sig \in saved,
         NEW todo, todo \subseteq PageLeft,
         \A s \in PageLeft \ todo : \E m \in New : m.sig = s,
         ftodo' = todo, fpc' = AfterFetching(todo)
  PROVE  NothingSkipped'
<1> USE DEF Inv, TypeOK, NothingSkipped
<1> DEFINE w == fwallet
<1>1. DatabaseInv' /\ QueueInv' /\ CursorsInv' /\ WriterInv'
  BY AppendInv
<1>2. /\ \A v : History(v)' = History(v) /\ HistoryOrNone(v)' = HistoryOrNone(v)
      /\ \A v, s : CoveredUpTo(v, s)' = CoveredUpTo(v, s)
      /\ \A v : Cursors(v)' = Cursors(v)
      /\ UNCHANGED <<last, uwallet, ulast>>
  BY DEF HistoryOrNone, History, CoveredUpTo, Cursors, dbVars, writerVars
<1>3. ASSUME NEW s, Ahead(w, s, position)
      PROVE  Ahead(w, s, position)'
  BY <1>3, QueueTypes DEF Ahead, InHand, dbVars, writerVars, TypeQueue
<1>4. ASSUME NEW s \in PageLeft \ todo
      PROVE  Ahead(w, s, position)'
  <2>1. PICK m \in New : m.sig = s
    BY <1>4
  <2> QED BY <2>1 DEF Ahead
<1>5. /\ fpc' \in {"txs", "last", "page"}
      /\ fpc' # "txs" => todo = {}
      /\ fpc' = "last" => Cardinality(fpage) < Limit
      /\ PageLeft' = todo
  BY DEF AfterFetching, PageLeft
<1>6. ASSUME Cardinality(fpage) < Limit, NEW s \in History(w), s <= fnewest
      PROVE  s \in todo \/ Ahead(w, s, position)'
  <2>1. s \in PageLeft \/ Ahead(w, s, position)
    BY <1>6 DEF FetcherInv
  <2> QED BY <1>3, <1>4, <2>1
<1>7. todo \subseteq fpage
  BY DEF PageLeft, FetcherInv
<1>8. FetcherInv'
  BY <1>2, <1>5, <1>6, <1>7 DEF FetcherInv
<1> QED BY <1>1, <1>8

\* The saved part of the page goes from PageLeft to the queue.
LEMMA GetSavedTransactionsInv == Inv /\ GetSavedTransactions => NothingSkipped'
<1> SUFFICES ASSUME Inv, GetSavedTransactions PROVE NothingSkipped'
  OBVIOUS
<1> USE DEF Inv, TypeOK, NothingSkipped
<1> DEFINE S == fpage \cap saved
<1>1. PICK o \in Orders(S) :
        queue' = queue \cup {Message(position + o[s], fwallet, "saved", s) : s \in S}
  BY DEF GetSavedTransactions
<1> DEFINE New == {Message(position + o[s], fwallet, "saved", s) : s \in S}
<1>2. S \subseteq 1..MaxHeight /\ Cardinality(S) \in Nat
  BY FiniteTransactions DEF TypeFetcher
<1>3. \A s \in S : o[s] \in Nat /\ o[s] < Cardinality(S)
  BY <1>2, OrdersType
<1>4. /\ position \in Nat /\ position' = position + Cardinality(S)
      /\ fpc = "saved" /\ ftodo' = fpage \ saved
      /\ fpc' = AfterFetching(fpage \ saved)
      /\ UNCHANGED <<height, dbVars, writerVars, fwallet, funtil, fpage, fnewest>>
  BY DEF GetSavedTransactions, FetcherUnchanged, TypeQueue
<1>5. fpage \subseteq History(fwallet)
  BY <1>4 DEF FetcherInv
<1>6. ASSUME NEW m \in New
      PROVE  /\ m.kind = "saved" /\ m.wallet = fwallet
             /\ m.pos \in Nat /\ m.pos < position'
             /\ m.sig \in History(fwallet) /\ m.sig \in saved
  <2>1. PICK s \in S : m = Message(position + o[s], fwallet, "saved", s)
    OBVIOUS
  <2>2. position + o[s] \in Nat /\ position + o[s] < position'
    BY <1>2, <1>3, <1>4
  <2>3. s \in History(fwallet) /\ s \in saved
    BY <1>5
  <2> QED BY <2>1, <2>2, <2>3 DEF Message
<1>7. ASSUME NEW s \in S
      PROVE  \E m \in New : m.sig = s
  <2> WITNESS Message(position + o[s], fwallet, "saved", s) \in New
  <2> QED BY DEF Message
<1>8. PageLeft = fpage
  BY <1>4 DEF PageLeft
<1> HIDE DEF New
<1>9. position' \in Nat /\ position <= position'
  BY <1>2, <1>4
<1>10. queue' = queue \cup New
  BY <1>1 DEF New
<1>11. /\ fpage \ saved \subseteq PageLeft
       /\ \A s \in PageLeft \ (fpage \ saved) : \E m \in New : m.sig = s
       /\ \A m \in New : /\ m.kind = "saved" /\ m.wallet = fwallet
                         /\ m.pos \in Nat /\ m.pos < position'
                         /\ m.sig \in History(fwallet) /\ m.sig \in saved
  BY <1>6, <1>7, <1>8
<1> QED BY <1>4, <1>9, <1>10, <1>11, QueuedInv

\* One transaction goes from PageLeft to the queue.
LEMMA FetchTransactionInv == Inv /\ FetchTransaction => NothingSkipped'
<1> SUFFICES ASSUME Inv, FetchTransaction PROVE NothingSkipped'
  OBVIOUS
<1> USE DEF Inv, TypeOK, NothingSkipped
<1>1. PICK s \in ftodo :
        /\ queue' = queue \cup {Message(position, fwallet, "onchain", s)}
        /\ ftodo' = ftodo \ {s}
        /\ fpc' = AfterFetching(ftodo \ {s})
  BY DEF FetchTransaction
<1> DEFINE New == {Message(position, fwallet, "onchain", s)}
<1>2. /\ fpc = "txs" /\ position \in Nat /\ position' = position + 1
      /\ UNCHANGED <<height, dbVars, writerVars, fwallet, funtil, fpage, fnewest>>
  BY DEF FetchTransaction, FetcherUnchanged, TypeQueue
<1>3. s \in History(fwallet)
  BY <1>2 DEF FetcherInv
<1>4. \A m \in New : /\ m.kind = "onchain" /\ m.wallet = fwallet
                     /\ m.pos \in Nat /\ m.pos < position'
                     /\ m.sig \in History(fwallet) /\ m.sig = s
  BY <1>2, <1>3 DEF Message
<1>5. \E m \in New : m.sig = s
  BY DEF Message
<1>6. PageLeft = ftodo
  BY <1>2 DEF PageLeft
<1> HIDE DEF New
<1>7. position' \in Nat /\ position <= position'
  BY <1>2
<1>8. queue' = queue \cup New
  BY <1>1 DEF New
<1> QED BY <1>1, <1>2, <1>4, <1>5, <1>6, <1>7, <1>8, QueuedInv

\* The cursor of a synchronisation is queued behind all that it vouches for.
LEMMA AppendLastInv == Inv /\ AppendLast => NothingSkipped'
<1> SUFFICES ASSUME Inv, AppendLast PROVE NothingSkipped'
  OBVIOUS
<1> USE DEF Inv, TypeOK, NothingSkipped
<1>0. PICK c, w : c = Message(position, fwallet, "last", fnewest) /\ w = fwallet
  OBVIOUS
<1>1. /\ fpc = "last" /\ fpc' = "select" /\ FetcherIdle'
      /\ position \in Nat /\ position' = position + 1
      /\ queue' = queue \cup {c}
      /\ UNCHANGED <<height, dbVars, writerVars>>
  BY <1>0 DEF AppendLast, FetcherUnchanged, FetcherIdle, TypeQueue
<1>2. /\ c.pos = position /\ c.wallet = w /\ c.kind = "last"
      /\ c.sig = fnewest
  BY <1>0 DEF Message
<1>3. /\ \A v : History(v)' = History(v) /\ HistoryOrNone(v)' = HistoryOrNone(v)
      /\ \A v, s, p : Ahead(v, s, p) => Ahead(v, s, p)'
  BY <1>1, AheadKept DEF dbVars, writerVars, HistoryOrNone
<1>4. \A v : Cursors(v)' = Cursors(v) \cup (IF v = w THEN {c} ELSE {})
  BY <1>1, <1>2 DEF Cursors
<1>5. \A v : \A m \in Cursors(v) : m \in queue /\ m.pos \in Nat /\ m.pos < position
  BY QueueTypes DEF Cursors, QueueInv
<1>6. DatabaseInv'
  BY <1>1, DatabaseKept
<1>7. QueueInv'
  BY <1>0, <1>1, <1>2, <1>3, QueueTypes DEF QueueInv, FetcherInv, dbVars
<1>8. CursorsInv'
  <2>1. UNCHANGED last
    BY <1>1 DEF dbVars
  <2>2. ASSUME NEW v \in Wallets, NEW m \in Cursors(v)
        PROVE  /\ m.sig # NoSignature =>
                    /\ last[v] <= m.sig
                    /\ \A s \in History(v) : s <= m.sig => Ahead(v, s, m.pos)'
               /\ \A n \in Cursors(v)' :
                    m.pos <= n.pos => m.sig <= n.sig \/ m.sig <= last[v]
    <3>1. v = w => m.sig <= fnewest \/ m.sig <= last[v]
      BY <1>0, <1>1, <2>2 DEF FetcherInv
    <3> QED BY <1>2, <1>3, <1>4, <2>2, <3>1 DEF CursorsInv
  <2>3. /\ c.sig # NoSignature =>
             /\ last[w] <= c.sig
             /\ \A s \in History(w) :
                  s <= c.sig => Ahead(w, s, c.pos)'
        /\ \A n \in Cursors(w)' : c.pos <= n.pos => n = c
    <3>1. PageLeft = {}
      BY <1>1 DEF PageLeft
    <3>2. \A n \in Cursors(w) : ~(c.pos <= n.pos)
      BY <1>1, <1>2, <1>5
    <3> QED BY <1>0, <1>1, <1>2, <1>3, <1>4, <3>1, <3>2 DEF FetcherInv
  <2>4. c.sig <= c.sig
    BY <1>2, LedgerAssumption DEF TypeFetcher
  <2> QED BY <1>3, <1>4, <2>1, <2>2, <2>3, <2>4 DEF CursorsInv
<1>9. WriterInv'
  <2>1. UNCHANGED <<links, last, saved, wpc, uwallet, utxs, uids, ulast>>
    BY <1>1 DEF dbVars, writerVars
  <2>2. CASE wpc \in {"select", "returned", "dedup"}
    BY <2>1, <2>2 DEF WriterInv, WriterIdle
  <2>3. CASE ~(wpc \in {"select", "returned", "dedup"})
    <3>1. uwallet = w /\ c.sig # NoSignature => ulast <= c.sig
      BY <1>0, <1>1, <1>2 DEF FetcherInv
    <3>2. \A s : InHand(uwallet, s)' = InHand(uwallet, s)
      BY <2>1 DEF InHand
    <3> QED BY <1>3, <1>4, <2>1, <2>3, <3>1, <3>2 DEF WriterInv
  <2> QED BY <2>2, <2>3
<1>10. FetcherInv'
  BY <1>1 DEF FetcherInv
<1> QED BY <1>6, <1>7, <1>8, <1>9, <1>10


-----------------------------------------------------------------------------
(* The writer. *)

\* A batch that holds a cursor holds all the messages queued before it.
LEMMA ProcessMessagesInv == Inv /\ ProcessMessages => NothingSkipped'
<1> SUFFICES ASSUME Inv, ProcessMessages PROVE NothingSkipped'
  OBVIOUS
<1> USE DEF Inv, TypeOK, NothingSkipped
<1>1. PICK first \in queue :
        /\ uwallet' = first.wallet
        /\ queue' = queue \ Taken(first.wallet)
        /\ utxs' = OfKind(Taken(first.wallet), "onchain")
        /\ uids' = Signatures(OfKind(Taken(first.wallet), "saved"))
        /\ ulast' \in LastSignatureOf(Taken(first.wallet))
  BY DEF ProcessMessages
<1>2. PICK w, T : w = first.wallet /\ T = Taken(w)
  OBVIOUS
<1>3. w \in Wallets /\ T \subseteq queue /\ \A m \in T : m.wallet = w
  BY <1>2, QueueTypes DEF Taken
<1>4. /\ UNCHANGED <<height, dbVars, position, fetcherVars>>
      /\ wpc' = "save" /\ uwallet' = w /\ queue' = queue \ T
      /\ uwallet = NoWallet /\ NoWallet \notin Wallets
  BY <1>1, <1>2, SyncAssumption
     DEF ProcessMessages, WriterUnchanged, WriterInv, WriterIdle
<1>5. /\ \A m \in T : m.kind # "last" => InHand(w, m.sig)'
      /\ Signatures(utxs)' = {m.sig : m \in OfKind(T, "onchain")}
      /\ uids' = {m.sig : m \in OfKind(T, "saved")}
  BY <1>1, <1>2, <1>3, <1>4, QueueTypes DEF InHand, Signatures, OfKind
<1>6. /\ \A v : History(v)' = History(v) /\ HistoryOrNone(v)' = HistoryOrNone(v)
      /\ \A v, s : CoveredUpTo(v, s)' = CoveredUpTo(v, s)
      /\ \A v : Cursors(v)' = Cursors(v) \ T
  BY <1>4 DEF History, HistoryOrNone, CoveredUpTo, Cursors, dbVars
<1>7. ASSUME NEW v \in Wallets, NEW s, NEW p, Ahead(v, s, p)
      PROVE  Ahead(v, s, p)'
  <2>1. CASE <<v, s>> \in links
    BY <1>4, <2>1 DEF Ahead, dbVars
  <2>2. ASSUME NEW m \in queue, m.wallet = v, m.kind # "last", m.sig = s,
               m.pos < p
        PROVE  Ahead(v, s, p)'
    BY <1>3, <1>4, <1>5, <2>2 DEF Ahead
  <2>3. ~InHand(v, s)
    BY <1>4, <1>7 DEF InHand
  <2> QED BY <1>7, <2>1, <2>2, <2>3 DEF Ahead
<1>8. DatabaseInv'
  BY <1>4, DatabaseKept
<1>9. QueueInv'
  BY <1>4, <1>6 DEF QueueInv, dbVars
<1>10. CursorsInv'
  BY <1>4, <1>6, <1>7 DEF CursorsInv, dbVars
<1>11. \/ ulast' = NoSignature
       \/ \E l \in Cursors(w) \cap T :
            ulast' = l.sig /\ \A n \in Cursors(w) \cap T : n.pos <= l.pos
  BY <1>1, <1>2, <1>3 DEF LastSignatureOf, OfKind, Cursors
<1>12. ASSUME ulast' # NoSignature
       PROVE  /\ last[w] <= ulast'
              /\ ulast' \in History(w)
              /\ \A s \in History(w) :
                   s <= ulast' => <<w, s>> \in links \/ InHand(w, s)'
              /\ \A n \in Cursors(w)' : n.sig # NoSignature => ulast' <= n.sig
  <2>1. PICK l \in Cursors(w) \cap T : ulast' = l.sig
    BY <1>11, <1>12
  <2>2. /\ last[w] <= ulast'
        /\ \A s \in History(w) : s <= l.sig => Ahead(w, s, l.pos)
        /\ \A n \in Cursors(w) :
             l.pos <= n.pos => l.sig <= n.sig \/ l.sig <= last[w]
    BY <1>3, <1>12, <2>1 DEF CursorsInv
  <2>3. ulast' \in History(w)
    BY <1>12, <2>1 DEF QueueInv, Cursors, HistoryOrNone
  <2>4. \A n \in queue : n.wallet = w /\ n.pos <= l.pos => n \in T
    BY <1>2, <1>3, <2>1, TakenIsPrefix
  <2>5. ASSUME NEW s \in History(w), s <= ulast'
        PROVE  <<w, s>> \in links \/ InHand(w, s)'
    <3>1. ~InHand(w, s)
      BY <1>3, <1>4 DEF InHand
    <3>2. ASSUME NEW m \in queue, m.wallet = w, m.kind # "last", m.sig = s,
                 m.pos < l.pos
          PROVE  InHand(w, s)'
      <4>1. m.pos <= l.pos
        BY <2>1, <3>2, QueueTypes DEF Cursors
      <4> QED BY <1>5, <2>4, <3>2, <4>1
    <3> QED BY <2>1, <2>2, <2>5, <3>1, <3>2 DEF Ahead
  <2>6. ASSUME NEW n \in Cursors(w)', n.sig # NoSignature
        PROVE  ulast' <= n.sig
    <3>1. n \in Cursors(w) /\ n \in queue /\ n \notin T /\ n.wallet = w
      BY <1>6, <2>6 DEF Cursors
    <3>2. l.pos <= n.pos
      BY <2>1, <2>4, <3>1, QueueTypes DEF Cursors
    <3>3. last[w] <= n.sig
      BY <1>3, <2>6, <3>1 DEF CursorsInv
    <3>4. l.sig \in Nat /\ n.sig \in Nat /\ last[w] \in Nat
      BY <1>3, <2>1, <3>1, QueueTypes, LedgerAssumption DEF TypeDatabase, Cursors
    <3> QED BY <2>1, <2>2, <3>1, <3>2, <3>3, <3>4
  <2> QED BY <2>2, <2>3, <2>5, <2>6
<1>13. WriterInv'
  <2>1. Signatures(utxs)' \subseteq History(w)
    BY <1>3, <1>5, QueueTypes DEF QueueInv, OfKind, HistoryOrNone, NoSignature
  <2>2. uids' \subseteq History(w) \cap saved
    BY <1>3, <1>5, QueueTypes DEF QueueInv, OfKind, HistoryOrNone, NoSignature
  <2> QED BY <1>3, <1>4, <1>6, <1>12, <2>1, <2>2
          DEF WriterInv, HistoryOrNone, dbVars
<1>14. FetcherInv'
  <2>1. CASE fpc \in {"select", "returned"}
    BY <1>4, <2>1 DEF FetcherInv, FetcherIdle, fetcherVars
  <2>2. CASE ~(fpc \in {"select", "returned"})
    <3>1. fnewest # NoSignature /\ w = fwallet => ulast' <= fnewest
      BY <1>11, <2>2, LedgerAssumption
         DEF FetcherInv, TypeFetcher, NoSignature
    <3>2. PageLeft' = PageLeft
      BY <1>4 DEF PageLeft, fetcherVars
    <3> QED BY <1>4, <1>6, <1>7, <2>2, <3>1, <3>2
            DEF FetcherInv, fetcherVars, dbVars
  <2> QED BY <2>1, <2>2
<1> QED BY <1>8, <1>9, <1>10, <1>13, <1>14


\* What the batch carried is saved and its ids are in the writer's hands.
LEMMA SaveTransactionsInv == Inv /\ SaveTransactions => NothingSkipped'
<1> SUFFICES ASSUME Inv, SaveTransactions PROVE NothingSkipped'
  OBVIOUS
<1> USE DEF Inv, TypeOK, NothingSkipped
<1>1. CASE End("fatal_signature") \/ End("fatal_instruction")
  BY <1>1, EndInv
<1>2. ASSUME saved' = saved \cup Signatures(utxs),
             uids' = uids \cup Signatures(utxs),
             wpc = "save", wpc' = "link",
             UNCHANGED <<links, signatures, last, queue, uwallet, utxs, ulast>>,
             WriterUnchanged
      PROVE  NothingSkipped'
  <2>1. UNCHANGED <<height, position, fetcherVars>>
    BY <1>2 DEF WriterUnchanged
  <2>2. /\ \A v : History(v)' = History(v) /\ HistoryOrNone(v)' = HistoryOrNone(v)
        /\ \A v, s : CoveredUpTo(v, s)' = CoveredUpTo(v, s)
        /\ \A v : Cursors(v)' = Cursors(v)
        /\ \A v : Linked(v)' = Linked(v)
    BY <1>2, <2>1 DEF History, HistoryOrNone, CoveredUpTo, Cursors, Linked
  <2>3. \A v, s : InHand(v, s)' <=> InHand(v, s)
    BY <1>2 DEF InHand, Signatures
  <2>4. \A v, s, p : Ahead(v, s, p) => Ahead(v, s, p)'
    BY <1>2, <2>3 DEF Ahead
  <2>5. DatabaseInv'
    BY <1>2, <2>1, <2>2
       DEF DatabaseInv, LinksAreOwn, CountMatchesLinks, CursorCovers
  <2>6. QueueInv'
    BY <1>2, <2>1, <2>2 DEF QueueInv
  <2>7. CursorsInv'
    BY <1>2, <2>2, <2>4 DEF CursorsInv
  <2>8. WriterInv'
    <3>1. Signatures(utxs)' = Signatures(utxs)
      BY <1>2 DEF Signatures
    <3> QED BY <1>2, <2>2, <2>3, <3>1 DEF WriterInv
  <2>9. FetcherInv'
    <3>1. PageLeft' = PageLeft
      BY <2>1 DEF PageLeft, fetcherVars
    <3> QED BY <1>2, <2>1, <2>2, <2>4, <3>1
            DEF FetcherInv, FetcherIdle, fetcherVars
  <2> QED BY <2>5, <2>6, <2>7, <2>8, <2>9
<1> QED BY <1>1, <1>2 DEF SaveTransactions

\* The rows that ON CONFLICT DO NOTHING lets through are the ones counted.
LEMMA LinkedCount ==
  ASSUME TypeDatabase, CountMatchesLinks, LinksAreOwn, UNCHANGED height,
         NEW w \in Wallets, NEW S, S \subseteq 1..height,
         links' = links \cup ({w} \X S),
         signatures' = [signatures EXCEPT ![w] = @ + Cardinality(S \ Linked(w))]
  PROVE  CountMatchesLinks'
<1>1. \A v \in Wallets : Linked(v)' = IF v = w THEN Linked(v) \cup S ELSE Linked(v)
  BY DEF Linked
<1>2. 1..height \subseteq 1..MaxHeight
  BY LedgerAssumption DEF TypeDatabase
<1>3. /\ IsFiniteSet(Linked(w)) /\ Cardinality(Linked(w)) \in Nat
      /\ IsFiniteSet(S \ Linked(w)) /\ Cardinality(S \ Linked(w)) \in Nat
  <2>1. Linked(w) \subseteq 1..MaxHeight
    BY <1>2 DEF Linked
  <2> QED BY <1>2, <2>1, FiniteTransactions
<1>4. Cardinality(Linked(w) \cup S) = Cardinality(Linked(w)) + Cardinality(S \ Linked(w))
  <2> DEFINE A == Linked(w)
             B == S \ Linked(w)
  <2>1. Cardinality(A \cup B) = Cardinality(A) + Cardinality(B) - Cardinality(A \cap B)
    BY <1>3, FS_Union
  <2>2. Cardinality(A \cap B) = 0
    <3>1. A \cap B = {}
      OBVIOUS
    <3> QED BY <3>1, FS_EmptySet
  <2>3. A \cup B = Linked(w) \cup S
    OBVIOUS
  <2> HIDE DEF A, B
  <2>4. Cardinality(A) \in Nat /\ Cardinality(B) \in Nat
    BY <1>3 DEF A, B
  <2>5. Cardinality(A \cup B) = Cardinality(A) + Cardinality(B)
    BY <2>1, <2>2, <2>4
  <2> QED BY <2>3, <2>5 DEF A, B
<1>5. signatures[w] = Cardinality(Linked(w))
  BY DEF CountMatchesLinks
<1>6. ASSUME NEW v \in Wallets
      PROVE  signatures'[v] = Cardinality(Linked(v)')
  <2>1. CASE v = w
    BY <1>1, <1>4, <1>5, <2>1 DEF TypeDatabase
  <2>2. CASE v # w
    BY <1>1, <2>2 DEF TypeDatabase, CountMatchesLinks
  <2> QED BY <2>1, <2>2
<1> QED BY <1>6 DEF CountMatchesLinks

\* The ids in hand become links, each counted once.
LEMMA UpdateUserSignaturesInv == Inv /\ UpdateUserSignatures => NothingSkipped'
<1> SUFFICES ASSUME Inv, UpdateUserSignatures PROVE NothingSkipped'
  OBVIOUS
<1> USE DEF Inv, TypeOK, NothingSkipped
<1>1. /\ wpc = "link" /\ wpc' = "cursor"
      /\ links' = links \cup ({uwallet} \X uids)
      /\ signatures' = [signatures EXCEPT ![uwallet] =
                          @ + Cardinality(uids \ Linked(uwallet))]
      /\ UNCHANGED <<height, saved, last, queue, position, uwallet, utxs, uids,
                     ulast, fetcherVars>>
  BY DEF UpdateUserSignatures, WriterUnchanged
<1>2. /\ uwallet \in Wallets
      /\ uids \subseteq History(uwallet) \cap saved
      /\ History(uwallet) \subseteq 1..height
  BY <1>1, HistoryTypes DEF WriterInv
<1>3. /\ \A v : History(v)' = History(v) /\ HistoryOrNone(v)' = HistoryOrNone(v)
      /\ \A v, s : CoveredUpTo(v, s) => CoveredUpTo(v, s)'
      /\ \A v : Cursors(v)' = Cursors(v)
      /\ \A v, s : InHand(v, s)' <=> InHand(v, s)
      /\ \A v, s, p : Ahead(v, s, p) => Ahead(v, s, p)'
  BY <1>1 DEF History, HistoryOrNone, CoveredUpTo, Cursors, InHand, Ahead,
              Signatures
<1>4. DatabaseInv'
  <2>1. CountMatchesLinks'
    BY <1>1, <1>2, LinkedCount DEF DatabaseInv
  <2>2. LinksAreOwn'
    BY <1>1, <1>2 DEF DatabaseInv, LinksAreOwn, History
  <2>3. CursorCovers'
    BY <1>1, <1>3 DEF DatabaseInv, CursorCovers
  <2> QED BY <1>1, <1>2, <1>3, <2>1, <2>2, <2>3 DEF DatabaseInv
<1>5. QueueInv'
  BY <1>1, <1>3 DEF QueueInv
<1>6. CursorsInv'
  BY <1>1, <1>3 DEF CursorsInv
<1>7. WriterInv'
  <2>1. Signatures(utxs)' = Signatures(utxs)
    BY <1>1 DEF Signatures
  <2> QED BY <1>1, <1>3, <2>1 DEF WriterInv
<1>8. FetcherInv'
  <2>1. PageLeft' = PageLeft
    BY <1>1 DEF PageLeft, fetcherVars
  <2> QED BY <1>1, <1>3, <2>1 DEF FetcherInv, FetcherIdle, fetcherVars
<1> QED BY <1>4, <1>5, <1>6, <1>7, <1>8

\* By now the batch is linked: what the cursor passes over is in the database.
LEMMA CursorReady ==
  ASSUME Inv, wpc = "cursor", ulast # NoSignature, NEW w, w = uwallet
  PROVE  /\ ulast \in History(w) /\ ulast \in saved
         /\ last[w] <= ulast
         /\ CoveredUpTo(w, ulast)
         /\ \A n \in Cursors(w) : n.sig # NoSignature => ulast <= n.sig
         /\ fnewest # NoSignature /\ w = fwallet => ulast <= fnewest
<1> USE DEF Inv, TypeOK, NothingSkipped
<1>1. /\ ulast \in History(w) /\ ulast \in Nat
      /\ Signatures(utxs) \subseteq uids
      /\ {w} \X uids \subseteq links
      /\ last[w] <= ulast
      /\ \A s \in History(w) : s <= ulast => <<w, s>> \in links \/ InHand(w, s)
      /\ \A n \in Cursors(w) : n.sig # NoSignature => ulast <= n.sig
  BY LedgerAssumption DEF WriterInv, TypeWriter, HistoryOrNone
<1>2. CoveredUpTo(w, ulast)
  BY <1>1 DEF CoveredUpTo, InHand
<1>3. ulast \in saved
  <2>1. <<w, ulast>> \in links
    BY <1>1, <1>2 DEF CoveredUpTo
  <2>2. \A l \in links : l[2] \in saved
    BY DEF DatabaseInv
  <2>3. <<w, ulast>>[2] \in saved
    BY <2>1, <2>2
  <2> QED BY <2>3
<1>4. fnewest # NoSignature /\ w = fwallet => ulast <= fnewest
  <2>1. CASE fpc \in {"select", "returned"}
    BY <2>1 DEF FetcherInv, FetcherIdle
  <2>2. CASE ~(fpc \in {"select", "returned"})
    BY <2>2 DEF FetcherInv
  <2> QED BY <2>1, <2>2
<1> QED BY <1>1, <1>2, <1>3, <1>4

\* The cursor moves to a transaction up to which everything is linked.
LEMMA UpdateUserLastSignatureInv ==
  Inv /\ UpdateUserLastSignature => NothingSkipped'
<1> SUFFICES ASSUME Inv, UpdateUserLastSignature PROVE NothingSkipped'
  OBVIOUS
<1> USE DEF Inv, TypeOK, NothingSkipped
<1>1. PICK w : w = uwallet
  OBVIOUS
<1>2. /\ wpc = "cursor" /\ wpc' \in {"select", "dedup"} /\ WriterIdle'
      /\ UNCHANGED <<height, saved, links, signatures, queue, position,
                     fetcherVars>>
      /\ last' = IF ulast = NoSignature THEN last
                 ELSE [last EXCEPT ![w] = IF ulast \in saved THEN ulast
                                                            ELSE NoSignature]
  BY <1>1 DEF UpdateUserLastSignature, CursorTaken, WriterUnchanged, WriterIdle
<1>3. /\ w \in Wallets
      /\ Signatures(utxs) \subseteq uids
      /\ {w} \X uids \subseteq links
      /\ ulast \in HistoryOrNone(w) /\ ulast \in Nat
      /\ last \in [Wallets -> Nat]
  BY <1>1, <1>2, LedgerAssumption DEF WriterInv, TypeWriter, TypeDatabase
<1>4. \A v, s : InHand(v, s) => <<v, s>> \in links
  BY <1>1, <1>3 DEF InHand
<1>5. ulast # NoSignature =>
        /\ ulast \in saved /\ last[w] <= ulast
        /\ CoveredUpTo(w, ulast)
        /\ \A n \in Cursors(w) : n.sig # NoSignature => ulast <= n.sig
        /\ fnewest # NoSignature /\ w = fwallet => ulast <= fnewest
  BY <1>1, <1>2, CursorReady
<1>6. last' = IF ulast = NoSignature THEN last ELSE [last EXCEPT ![w] = ulast]
  BY <1>2, <1>5
<1>7. /\ \A v : History(v)' = History(v) /\ HistoryOrNone(v)' = HistoryOrNone(v)
      /\ \A v, s : CoveredUpTo(v, s)' = CoveredUpTo(v, s)
      /\ \A v : Cursors(v)' = Cursors(v)
      /\ \A v : Linked(v)' = Linked(v)
      /\ \A v, s, p : Ahead(v, s, p) => Ahead(v, s, p)'
  BY <1>2, <1>4 DEF History, HistoryOrNone, CoveredUpTo, Cursors, Linked, Ahead
<1>8. /\ \A v \in Wallets : last[v] <= last'[v] /\ last[v] \in Nat /\ last'[v] \in Nat
      /\ \A v \in Wallets : last'[v] = last[v] \/ (v = w /\ last'[v] = ulast
                                                   /\ ulast # NoSignature)
  BY <1>3, <1>5, <1>6
<1>9. DatabaseInv'
  <2>1. CountMatchesLinks'
    BY <1>2, <1>7 DEF DatabaseInv, CountMatchesLinks
  <2>2. LinksAreOwn'
    BY <1>2 DEF DatabaseInv, LinksAreOwn
  <2>3. CursorCovers'
    BY <1>5, <1>7, <1>8 DEF DatabaseInv, CursorCovers
  <2> QED BY <1>2, <1>3, <1>7, <1>8, <2>1, <2>2, <2>3 DEF DatabaseInv
<1>10. QueueInv'
  BY <1>2, <1>7 DEF QueueInv
<1>11. CursorsInv'
  <2>1. ASSUME NEW v \in Wallets, NEW m \in Cursors(v), m.sig # NoSignature
        PROVE  last'[v] <= m.sig
    BY <1>5, <1>8, <2>1 DEF CursorsInv
  <2>2. ASSUME NEW v \in Wallets, NEW m \in Cursors(v), m.sig <= last[v]
        PROVE  m.sig <= last'[v]
    <3>1. m.sig \in Nat
      BY QueueTypes DEF Cursors
    <3> QED BY <1>8, <2>2, <3>1
  <2> QED BY <1>7, <2>1, <2>2 DEF CursorsInv
<1>12. WriterInv'
  BY <1>2 DEF WriterInv
<1>13. FetcherInv'
  <2>1. CASE fpc \in {"select", "returned"}
    BY <1>2, <2>1 DEF FetcherInv, FetcherIdle, fetcherVars
  <2>2. CASE ~(fpc \in {"select", "returned"})
    <3>1. PageLeft' = PageLeft
      BY <1>2 DEF PageLeft, fetcherVars
    <3>2. /\ funtil <= last'[fwallet]
          /\ fnewest # NoSignature => last'[fwallet] <= fnewest
          /\ \A m \in Cursors(fwallet) :
               m.sig <= last[fwallet] => m.sig <= last'[fwallet]
      <4>1. fwallet \in Wallets /\ funtil \in Nat
        BY <2>2, LedgerAssumption DEF FetcherInv, TypeFetcher
      <4>2. \A m \in Cursors(fwallet) : m.sig \in Nat
        BY QueueTypes DEF Cursors
      <4> QED BY <1>5, <1>8, <2>2, <4>1, <4>2 DEF FetcherInv
    <3>3. uwallet' # fwallet
      BY <1>2, <2>2, SyncAssumption DEF WriterIdle, FetcherInv
    <3> QED BY <1>2, <1>7, <2>2, <3>1, <3>2, <3>3 DEF FetcherInv, fetcherVars
  <2> QED BY <2>1, <2>2
<1> QED BY <1>9, <1>10, <1>11, <1>12, <1>13


\* An idle writer leaves nothing behind.
LEMMA WriterReturnsInv == Inv /\ WriterReturns => NothingSkipped'
<1> SUFFICES ASSUME Inv, WriterReturns PROVE NothingSkipped'
  OBVIOUS
<1>1. UNCHANGED <<height, dbVars, queueVars, fetcherVars>>
  BY DEF WriterReturns, WriterUnchanged, queueVars
<1>2. UNCHANGED <<uwallet, utxs, uids, ulast>>
  BY DEF WriterReturns
<1> USE DEF Inv, NothingSkipped
<1>3. DatabaseInv' /\ QueueInv'
  BY <1>1, DatabaseKept DEF QueueInv, HistoryOrNone, History, queueVars, dbVars
<1>4. CursorsInv'
  BY <1>1, <1>2 DEF CursorsInv, Cursors, History, Ahead, InHand, queueVars, dbVars
<1>5. WriterInv'
  BY <1>1, <1>2 DEF WriterReturns, WriterInv, WriterIdle
<1>6. FetcherInv'
  BY <1>1, <1>2
     DEF FetcherInv, FetcherIdle, PageLeft, Cursors, HistoryOrNone, History,
         CoveredUpTo, Ahead, InHand, dbVars, queueVars, fetcherVars
<1> QED BY <1>3, <1>4, <1>5, <1>6

-----------------------------------------------------------------------------
(* Every step, and what follows for every behaviour. *)

\* Every step keeps the invariant.
LEMMA InvNext == Inv /\ [SyncNext]_vars => NothingSkipped'
<1> SUFFICES ASSUME Inv, [SyncNext]_vars PROVE NothingSkipped'
  OBVIOUS
<1>1. CASE Environment
  <2>1. CASE ConfirmTransaction
    BY <2>1, ConfirmInv
  <2>2. ASSUME NEW w \in Wallets, RequestSync(w) PROVE NothingSkipped'
    BY <2>2, OutsideInv DEF RequestSync, memoryVars
  <2>3. CASE Kill
    BY <2>3, EndInv DEF Kill
  <2>4. CASE Cancel
    BY <2>4, OutsideInv DEF Cancel
  <2>5. CASE Restart
    BY <2>5, OutsideInv DEF Restart, memoryVars
  <2> QED BY <1>1, <2>1, <2>2, <2>3, <2>4, <2>5 DEF Environment
<1>2. CASE Fetcher \/ FetcherReturns
  BY <1>2, LoadInv, UpdateStatusInv, FetchSignaturesInv,
     GetSavedTransactionsInv, FetchTransactionInv, AppendLastInv,
     FetcherReturnsInv DEF Fetcher
<1>3. CASE Writer \/ WriterReturns \/ Return
  <2>1. CASE DeduplicateTimestamps
    BY <2>1, EndInv DEF DeduplicateTimestamps
  <2>2. CASE Return
    BY <2>2, EndInv DEF Return
  <2> QED BY <1>3, <2>1, <2>2, ProcessMessagesInv, SaveTransactionsInv,
             UpdateUserSignaturesInv, UpdateUserLastSignatureInv,
             WriterReturnsInv DEF Writer
<1>4. CASE UNCHANGED vars
  BY <1>4, OutsideInv DEF vars, memoryVars
<1> QED BY <1>1, <1>2, <1>3, <1>4 DEF SyncNext

\* Cursors, queue, batch and page keep together so that no transaction at or
\* below a cursor is ever left behind.
THEOREM NothingIsSkipped == SyncSpec => []NothingSkipped
<1>1. SyncInit => Inv
  BY InvInit
<1>2. Inv /\ [SyncNext]_vars => Inv'
  BY InvNext, TypeNext DEF Inv
<1>3. Inv => NothingSkipped
  BY DEF Inv
<1> QED BY <1>1, <1>2, <1>3, PTL DEF SyncSpec


\* wallet.last_signature_id never passes over a transaction that is not linked.
THEOREM CursorIsCovered == SyncSpec => []CursorCovers
<1>1. NothingSkipped => CursorCovers
  BY DEF NothingSkipped, DatabaseInv
<1> QED BY <1>1, NothingIsSkipped, PTL

\* wallet.signatures is the number of the wallet's rows in wallet_to_signature.
THEOREM CountIsExact == SyncSpec => []CountMatchesLinks
<1>1. NothingSkipped => CountMatchesLinks
  BY DEF NothingSkipped, DatabaseInv
<1> QED BY <1>1, NothingIsSkipped, PTL

\* A batch never mixes the transactions of two wallets.
THEOREM LinksStayOwn == SyncSpec => []LinksAreOwn
<1>1. NothingSkipped => LinksAreOwn
  BY DEF NothingSkipped, DatabaseInv
<1> QED BY <1>1, NothingIsSkipped, PTL

\* Each of the two database transactions of updateUser is one step of the
\* ledger; no other step of the program touches it.
LEMMA LedgerStep == Inv /\ [SyncNext]_vars => [Next]_ledgerVars
<1> SUFFICES ASSUME Inv, [SyncNext]_vars PROVE [Next]_ledgerVars
  OBVIOUS
<1> USE DEF ledgerVars
<1>1. CASE ConfirmTransaction
  BY <1>1 DEF ConfirmTransaction, Next
<1>2. CASE UpdateUserSignatures
  <2>1. uwallet \in Wallets /\ uids \subseteq History(uwallet)
    BY <1>2 DEF Inv, NothingSkipped, WriterInv, UpdateUserSignatures
  <2>2. Link(uwallet, uids)
    BY <1>2, <2>1 DEF UpdateUserSignatures, Link, WriterUnchanged
  <2> QED BY <2>1, <2>2 DEF Next
<1>3. CASE UpdateUserLastSignature
  <2>1. CASE ulast = NoSignature
    BY <1>3, <2>1 DEF UpdateUserLastSignature, CursorTaken, WriterUnchanged
  <2>2. CASE ulast # NoSignature
    <3>1. /\ ulast \in History(uwallet) /\ ulast \in saved
          /\ last[uwallet] <= ulast /\ CoveredUpTo(uwallet, ulast)
      BY <1>3, <2>2, CursorReady DEF UpdateUserLastSignature
    <3>2. uwallet \in Wallets
      BY <1>3 DEF Inv, NothingSkipped, WriterInv, UpdateUserLastSignature
    <3>3. MoveCursor(uwallet, ulast)
      BY <1>3, <2>2, <3>1
         DEF UpdateUserLastSignature, CursorTaken, MoveCursor, WriterUnchanged
    <3> QED BY <3>1, <3>2, <3>3 DEF Next
  <2> QED BY <2>1, <2>2
<1>4. CASE Environment /\ ~ConfirmTransaction
  BY <1>4 DEF Environment, RequestSync, Kill, Cancel, Restart, End, dbVars
<1>5. CASE Fetcher \/ FetcherReturns
  BY <1>5 DEF Fetcher, Load, UpdateStatus, FetchSignatures,
     GetSavedTransactions, FetchTransaction, AppendLast, FetcherReturns,
     FetcherUnchanged, dbVars
<1>6. CASE ProcessMessages \/ SaveTransactions \/ DeduplicateTimestamps
  BY <1>6 DEF ProcessMessages, SaveTransactions, DeduplicateTimestamps, End,
     WriterUnchanged, dbVars
<1>7. CASE WriterReturns \/ Return
  BY <1>7 DEF WriterReturns, Return, End, WriterUnchanged, dbVars
<1>8. CASE UNCHANGED vars
  BY <1>8 DEF vars, dbVars
<1> QED BY <1>1, <1>2, <1>3, <1>4, <1>5, <1>6, <1>7, <1>8
        DEF SyncNext, Environment, Writer

\* The two goroutines, their crashes and restarts implement the ledger.
THEOREM Refinement == SyncSpec => ImplementsLedger
<1>1. SyncInit => Init
  BY DEF SyncInit
<1>2. SyncInit => Inv
  BY InvInit
<1>3. Inv /\ [SyncNext]_vars => Inv'
  BY InvNext, TypeNext DEF Inv
<1>4. Inv /\ [SyncNext]_vars => [Next]_ledgerVars
  BY LedgerStep
<1> QED BY <1>1, <1>2, <1>3, <1>4, PTL DEF SyncSpec, ImplementsLedger, Spec

\* wallet.last_signature_id never moves back to an older transaction, and never
\* to NULL because its row could not be found.
THEOREM CursorIsMonotonic == SyncSpec => CursorMovesForward
<1> DEFINE Forward == \A w \in Wallets : last'[w] >= last[w]
<1>1. Inv /\ [SyncNext]_vars => [Forward]_last
  <2> SUFFICES ASSUME Inv, [SyncNext]_vars, last' # last PROVE Forward
    OBVIOUS
  <2>1. \E w \in Wallets : \E s \in History(w) : MoveCursor(w, s)
    BY LedgerStep DEF ledgerVars, Next, Confirm, Link
  <2>a. PICK w \in Wallets : \E s \in History(w) : MoveCursor(w, s)
    BY <2>1
  <2>b. PICK s \in History(w) : MoveCursor(w, s)
    BY <2>a
  <2>2. /\ last' = [last EXCEPT ![w] = s]
        /\ last[w] <= s
        /\ last \in [Wallets -> Nat]
    BY <2>b, LedgerAssumption DEF MoveCursor, Inv, TypeOK, TypeDatabase
  <2>3. s \in Nat
    BY HistoryTypes DEF Inv, TypeOK
  <2> QED BY <2>2, <2>3
<1>2. SyncInit => Inv
  BY InvInit
<1>3. Inv /\ [SyncNext]_vars => Inv'
  BY InvNext, TypeNext DEF Inv
<1> QED BY <1>1, <1>2, <1>3, PTL DEF SyncSpec, CursorMovesForward



\* No cursor is lost when the writer takes several cursor messages at once: the
\* messages are queued in the order of their cursors, so the last one stands for
\* the others (wallet_sync.go:455-459).
THEOREM CursorsAreKept == SyncSpec => NoCursorDropped
<1> DEFINE Kept == \A m \in OfKind(queue \ queue', "last") :
                     process' = "running" => \/ ulast' >= m.sig
                                             \/ last[m.wallet] >= m.sig
<1>1. Inv /\ [SyncNext]_vars => [Kept]_queue
  <2> SUFFICES ASSUME Inv, [SyncNext]_vars,
                      NEW m \in queue, m \notin queue', m.kind = "last",
                      process' = "running"
               PROVE  ulast' >= m.sig \/ last[m.wallet] >= m.sig
    BY DEF OfKind
  <2>1. CASE ProcessMessages
    <3>1. PICK first \in queue :
            /\ queue' = queue \ Taken(first.wallet)
            /\ ulast' \in LastSignatureOf(Taken(first.wallet))
      BY <2>1 DEF ProcessMessages
    <3>2. m \in Cursors(first.wallet) /\ m \in Taken(first.wallet)
      BY <3>1 DEF Taken, Cursors
    <3>3. PICK l \in Cursors(first.wallet) : ulast' = l.sig /\ m.pos <= l.pos
      BY <3>1, <3>2 DEF LastSignatureOf, OfKind, Taken, Cursors
    <3>4. first.wallet \in Wallets /\ m.wallet = first.wallet
      BY <3>2, QueueTypes DEF Inv, TypeOK, Cursors
    <3>5. m.sig <= l.sig \/ m.sig <= last[first.wallet]
      BY <3>2, <3>3, <3>4 DEF Inv, NothingSkipped, CursorsInv
    <3>6. m.sig \in Nat /\ l.sig \in Nat /\ last[first.wallet] \in Nat
      BY <3>3, <3>4, QueueTypes, LedgerAssumption
         DEF Inv, TypeOK, TypeDatabase, Cursors
    <3> QED BY <3>3, <3>4, <3>5, <3>6
  <2>2. CASE Kill \/ Return \/ SaveTransactions \/ DeduplicateTimestamps
    BY <2>2 DEF Kill, Return, SaveTransactions, DeduplicateTimestamps, End
  <2>3. CASE Environment /\ ~Kill
    BY <2>3 DEF Environment, ConfirmTransaction, RequestSync, Cancel, Restart,
       memoryVars, queueVars
  <2>4. CASE Fetcher \/ FetcherReturns
    BY <2>4 DEF Fetcher, Load, UpdateStatus, FetchSignatures,
       GetSavedTransactions, FetchTransaction, AppendLast, FetcherReturns,
       queueVars
  <2>5. CASE UpdateUserSignatures \/ UpdateUserLastSignature \/ WriterReturns
    BY <2>5 DEF UpdateUserSignatures, UpdateUserLastSignature, WriterReturns
  <2>6. CASE UNCHANGED vars
    BY <2>6 DEF vars, memoryVars, queueVars
  <2> QED BY <2>1, <2>2, <2>3, <2>4, <2>5, <2>6 DEF SyncNext, Writer, Environment
<1>2. SyncInit => Inv
  BY InvInit
<1>3. Inv /\ [SyncNext]_vars => Inv'
  BY InvNext, TypeNext DEF Inv
<1> QED BY <1>1, <1>2, <1>3, PTL DEF SyncSpec, NoCursorDropped

=============================================================================
