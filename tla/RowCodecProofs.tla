--------------------------- MODULE RowCodecProofs ---------------------------
(***************************************************************************)
(* Proofs about RowCodec: its type invariant, IdsResolve, UpdateIsValid    *)
(* and the refinement of SavedBatches, for any transactions, any order in  *)
(* which ids are given out, any rollbacks and any clients.                 *)
(***************************************************************************)
EXTENDS RowCodec, SortingLemmas, SequenceTheorems

-----------------------------------------------------------------------------
(* The inductive invariant. *)

\* The signatures of the batch have an id each, and no row yet.
SignatureInv ==
  /\ \A t \in Transactions : signatures[t] # 0 => signatureId[t] = 0
  /\ pc \in {"select", "insert", "write"} =>
       \A t \in Transactions : signatures[t] # 0 <=> t \in Range(batch)

\* What has been selected is still so.
SelectedInv == pc = "insert" => \A a \in Addresses : accounts[a] \in {0, addressId[a]}

\* What has been inserted differs from all that anybody has inserted.
InsertedInv ==
  pc = "write" =>
    /\ \A a \in InsertableAddresses(batch) : accounts[a] # 0
    /\ \A a \in Addresses : accounts[a] # 0 => addressId[a] \in {0, accounts[a]}
    /\ \A a, b \in Addresses :
         accounts[a] # 0 /\ accounts[a] \in {accounts[b], addressId[b]} => a = b

\* No two addresses have the same id.
UniqueInv ==
  \A a, b \in Addresses : addressId[a] # 0 /\ addressId[a] = addressId[b] => a = b

\* Nor do two signatures, inserted or about to be.
SignatureIdInv ==
  \A t, u \in Transactions :
    /\ signatureId[t] # 0 /\ signatureId[t] = signatureId[u] => t = u
    /\ signatures[t] # 0 /\ signatures[t] \in {signatures[u], signatureId[u]} => t = u

\* A signature that has been inserted has all its rows, and no two instructions
\* have the same primary key.
RowsInv ==
  /\ \A t \in Transactions : signatureId[t] # 0 =>
       /\ Visible(t)
       /\ \A i \in DOMAIN Compiled[t] : \E r \in instruction :
            r.signature = signatureId[t] /\ r.index = i
  /\ \A r, s \in instruction : r.signature = s.signature /\ r.index = s.index => r = s

IInv ==
  /\ TypeOK
  /\ SignatureInv
  /\ SelectedInv
  /\ InsertedInv
  /\ UniqueInv
  /\ IdsResolve
  /\ SignatureIdInv
  /\ RowsInv

-----------------------------------------------------------------------------
(* The decoded transaction. *)

\* The elements of three sequences one after the other.
LEMMA ThreeSequences ==
  ASSUME NEW S, NEW p \in Seq(S), NEW q \in Seq(S), NEW r \in Seq(S)
  PROVE  /\ p \o q \o r \in Seq(S)
         /\ Len(p \o q \o r) = Len(p) + Len(q) + Len(r)
         /\ Len(p) + Len(q) + Len(r) \in Nat
         /\ \A k \in 1 .. Len(p) + Len(q) + Len(r) :
              (p \o q \o r)[k] = IF k <= Len(p) THEN p[k]
                                 ELSE IF k <= Len(p) + Len(q) THEN q[k - Len(p)]
                                 ELSE r[k - (Len(p) + Len(q))]
<1> DEFINE pq == p \o q
<1>1. Len(p) \in Nat /\ Len(q) \in Nat /\ Len(r) \in Nat
  BY LenProperties
<1>2. /\ pq \in Seq(S)
      /\ Len(pq) = Len(p) + Len(q)
      /\ \A k \in 1 .. Len(p) + Len(q) :
           pq[k] = IF k <= Len(p) THEN p[k] ELSE q[k - Len(p)]
  BY ConcatProperties
<1> HIDE DEF pq
<1>3. pq \in Seq(S)
  BY <1>2
<1>4. /\ pq \o r \in Seq(S)
      /\ Len(pq \o r) = Len(pq) + Len(r)
      /\ \A k \in 1 .. Len(pq) + Len(r) :
           (pq \o r)[k] = IF k <= Len(pq) THEN pq[k] ELSE r[k - Len(pq)]
  BY <1>3, ConcatProperties, Zenon
<1>5. ASSUME NEW k \in 1 .. Len(p) + Len(q) + Len(r)
      PROVE  (pq \o r)[k] = IF k <= Len(p) THEN p[k]
                            ELSE IF k <= Len(p) + Len(q) THEN q[k - Len(p)]
                            ELSE r[k - (Len(p) + Len(q))]
  <2>1. (pq \o r)[k] = IF k <= Len(pq) THEN pq[k] ELSE r[k - Len(pq)]
    BY <1>2, <1>4
  <2>2. k <= Len(pq) => pq[k] = IF k <= Len(p) THEN p[k] ELSE q[k - Len(p)]
    BY <1>1, <1>2
  <2> QED
    BY <1>1, <1>2, <2>1, <2>2
<1> QED
  BY <1>1, <1>2, <1>4, <1>5 DEF pq

\* The list decompileAccounts makes has, at each place, the key the chain counts
\* there.
LEMMA DecompiledKeys ==
  ASSUME NEW t \in Transactions
  PROVE  /\ DecompileAccounts(t) \in Seq(Addresses)
         /\ Len(DecompileAccounts(t)) = Keys(t)
         /\ Keys(t) \in Nat
         /\ \A k \in 1 .. Keys(t) : DecompileAccounts(t)[k] = KeyAt(t, k)
<1> DEFINE p == Static[t]
           q == Writable[t]
           r == ReadOnly[t]
<1>1. p \in Seq(Addresses) /\ q \in Seq(Addresses) /\ r \in Seq(Addresses)
  BY RowCodecAssumption
<1>2. DecompileAccounts(t) = p \o q \o r /\ Keys(t) = Len(p) + Len(q) + Len(r)
  BY DEF DecompileAccounts, Keys
<1>3. \A k : KeyAt(t, k) = IF k <= Len(p) THEN p[k]
                           ELSE IF k <= Len(p) + Len(q) THEN q[k - Len(p)]
                           ELSE r[k - (Len(p) + Len(q))]
  BY DEF KeyAt
<1> HIDE DEF p, q, r
<1>4. /\ p \o q \o r \in Seq(Addresses)
      /\ Len(p \o q \o r) = Len(p) + Len(q) + Len(r)
      /\ Len(p) + Len(q) + Len(r) \in Nat
      /\ \A k \in 1 .. Len(p) + Len(q) + Len(r) :
           (p \o q \o r)[k] = IF k <= Len(p) THEN p[k]
                              ELSE IF k <= Len(p) + Len(q) THEN q[k - Len(p)]
                              ELSE r[k - (Len(p) + Len(q))]
  BY <1>1, ThreeSequences, SMTT(30)
<1> DEFINE pqr == p \o q \o r
<1>5. pqr = DecompileAccounts(t)
  BY <1>2
<1>6. ASSUME NEW k \in 1 .. Keys(t) PROVE pqr[k] = KeyAt(t, k)
  <2>1. pqr[k] = IF k <= Len(p) THEN p[k]
                 ELSE IF k <= Len(p) + Len(q) THEN q[k - Len(p)]
                 ELSE r[k - (Len(p) + Len(q))]
    BY <1>2, <1>4, Zenon
  <2> QED
    BY <1>3, <2>1, Zenon
<1> HIDE DEF pqr
<1> QED
  BY <1>2, <1>4, <1>5, <1>6

\* A key is an address of the batch.
LEMMA KeyInserted ==
  ASSUME NEW t \in Transactions, NEW k \in 1 .. Keys(t)
  PROVE  KeyAt(t, k) \in Addresses /\ KeyAt(t, k) \in Range(DecompileAccounts(t))
<1>1. k \in DOMAIN DecompileAccounts(t) /\ DecompileAccounts(t)[k] = KeyAt(t, k)
  BY DecompiledKeys
<1> QED
  BY <1>1, DecompiledKeys DEF Range

\* setFromCompiled gives the addresses the chain means.
LEMMA SetFromCompiledKeys ==
  ASSUME NEW t \in Transactions, NEW ix, CompiledBy(t, ix)
  PROVE  LET oix == SetFromCompiled(ix, DecompileAccounts(t))
         IN  /\ oix.program = KeyAt(t, ix.program)
             /\ DOMAIN oix.accounts = DOMAIN ix.accounts
             /\ \A k \in DOMAIN ix.accounts :
                  oix.accounts[k] = KeyAt(t, ix.accounts[k])
             /\ oix.program \in Range(DecompileAccounts(t))
             /\ Range(oix.accounts) \subseteq Range(DecompileAccounts(t))
<1> DEFINE oix == SetFromCompiled(ix, DecompileAccounts(t))
<1>1. ix.program \in 1 .. Keys(t) /\ \A k \in DOMAIN ix.accounts : ix.accounts[k] \in 1 .. Keys(t)
  BY LenProperties, ElementOfSeq DEF CompiledBy
<1>2. oix.program = KeyAt(t, ix.program)
  BY <1>1, DecompiledKeys DEF SetFromCompiled
<1>3. DOMAIN oix.accounts = DOMAIN ix.accounts
  BY DEF SetFromCompiled
<1>4. \A k \in DOMAIN ix.accounts : oix.accounts[k] = KeyAt(t, ix.accounts[k])
  BY <1>1, DecompiledKeys DEF SetFromCompiled
<1>5. oix.program \in Range(DecompileAccounts(t))
  BY <1>1, <1>2, KeyInserted
<1>6. Range(oix.accounts) \subseteq Range(DecompileAccounts(t))
  <2>1. \A k \in DOMAIN oix.accounts : oix.accounts[k] \in Range(DecompileAccounts(t))
    BY <1>1, <1>3, <1>4, KeyInserted
  <2> QED
    BY <2>1 DEF Range
<1> QED
  BY <1>2, <1>3, <1>4, <1>5, <1>6

\* An instruction of a transaction.
LEMMA IxsKeys ==
  ASSUME NEW t \in Transactions, NEW i \in DOMAIN Compiled[t]
  PROVE  /\ CompiledBy(t, Compiled[t][i])
         /\ Ixs(t)[i].program = KeyAt(t, Compiled[t][i].program)
         /\ DOMAIN Ixs(t)[i].accounts = DOMAIN Compiled[t][i].accounts
         /\ \A k \in DOMAIN Compiled[t][i].accounts :
              Ixs(t)[i].accounts[k] = KeyAt(t, Compiled[t][i].accounts[k])
         /\ Ixs(t)[i].program \in Range(DecompileAccounts(t))
         /\ Range(Ixs(t)[i].accounts) \subseteq Range(DecompileAccounts(t))
<1>1. CompiledBy(t, Compiled[t][i])
  BY RowCodecAssumption
<1>2. Ixs(t)[i] = SetFromCompiled(Compiled[t][i], DecompileAccounts(t))
  BY DEF Ixs
<1> QED
  BY <1>1, <1>2, SetFromCompiledKeys

\* One inside an instruction.
LEMMA InnerIxsKeys ==
  ASSUME NEW t \in Transactions, NEW i \in DOMAIN Inner[t], NEW j \in DOMAIN Inner[t][i]
  PROVE  /\ InnerIxs(t)[i][j].program \in Range(DecompileAccounts(t))
         /\ Range(InnerIxs(t)[i][j].accounts) \subseteq Range(DecompileAccounts(t))
<1>1. CompiledBy(t, Inner[t][i][j])
  BY RowCodecAssumption
<1>2. InnerIxs(t)[i][j] = SetFromCompiled(Inner[t][i][j], DecompileAccounts(t))
  BY DEF InnerIxs
<1> QED
  BY <1>1, <1>2, SetFromCompiledKeys

-----------------------------------------------------------------------------
(* The batch. *)

\* A batch is a sequence of transactions.
LEMMA BatchType ==
  ASSUME batch \in Batches
  PROVE  /\ Len(batch) \in Nat
         /\ DOMAIN batch = 1 .. Len(batch)
         /\ Range(batch) \subseteq Transactions
         /\ InsertableAddresses(batch) \subseteq Addresses
<1>1. batch \in Seq(Transactions)
  BY RowCodecAssumption DEF Batches, BoundedSeq, SeqOf
<1>2. Range(batch) \subseteq Transactions
  BY <1>1 DEF Range
<1>3. ASSUME NEW t \in Transactions PROVE Range(DecompileAccounts(t)) \subseteq Addresses
  BY DecompiledKeys DEF Range
<1> QED
  BY <1>1, <1>2, <1>3 DEF InsertableAddresses

\* The empty batch is one.
LEMMA EmptyBatch == <<>> \in Batches /\ Range(<<>>) = {}
<1>1. 0 \in 0 .. MaxLength
  BY RowCodecAssumption
<1>2. <<>> \in [1 .. 0 -> Transactions]
  OBVIOUS
<1> QED
  BY <1>1, <1>2 DEF Batches, BoundedSeq, SeqOf, Range

\* The number of addresses to insert is a number.
LEMMA UnsavedCount ==
  ASSUME batch \in Batches
  PROVE  UnsavedAddresses \subseteq Addresses /\ Cardinality(UnsavedAddresses) \in Nat
<1>1. UnsavedAddresses \subseteq Addresses
  BY BatchType DEF UnsavedAddresses
<1> QED
  BY <1>1, RowCodecAssumption, FS_Subset, FS_CardinalityType

\* When the statements before it are through, prepareInsertableComponents finds
\* all it looks for.
LEMMA ValidUpdates == IInv => UpdateIsValid
<1> SUFFICES ASSUME IInv, pc = "write", NEW t \in Range(batch) PROVE ValidUpdate(t)
  BY DEF UpdateIsValid
<1>1. t \in Transactions
  BY BatchType DEF IInv, TypeOK
<1>2. signatures[t] # 0
  BY <1>1 DEF IInv, SignatureInv
<1>3. \A a \in Range(DecompileAccounts(t)) : accounts[a] # 0
  BY DEF IInv, InsertedInv, InsertableAddresses
<1>4. ASSUME NEW i \in DOMAIN Ixs(t) PROVE Found(Ixs(t)[i])
  <2>1. i \in DOMAIN Compiled[t]
    BY DEF Ixs
  <2> QED
    BY <1>1, <1>3, <2>1, IxsKeys DEF Found
<1>5. ASSUME NEW i \in DOMAIN Ixs(t), NEW j \in DOMAIN InnerIxs(t)[i]
      PROVE  Found(InnerIxs(t)[i][j])
  <2>1. i \in DOMAIN Inner[t]
    BY <1>1, RowCodecAssumption DEF Ixs
  <2>2. j \in DOMAIN Inner[t][i]
    BY <2>1 DEF InnerIxs
  <2> QED
    BY <1>1, <1>3, <2>1, <2>2, InnerIxsKeys DEF Found
<1> QED
  BY <1>2, <1>3, <1>4, <1>5 DEF ValidUpdate

-----------------------------------------------------------------------------
(* The invariant. *)

\* Init establishes the invariant.
LEMMA InitIInv == Init => IInv
<1> SUFFICES ASSUME Init PROVE IInv
  OBVIOUS
<1> USE DEF Init, NoAccounts, NoSignatures
<1>1. TypeOK
  BY EmptyBatch, RowCodecAssumption DEF TypeOK
<1> QED
  BY <1>1 DEF IInv, SignatureInv, SelectedInv, InsertedInv, UniqueInv, IdsResolve,
              SignatureIdInv, RowsInv

\* What SaveSignatures makes of the ids it gets.
LEMMA NewSignatures ==
  ASSUME TypeOK, SaveSignatures, ~SignatureConflict
  PROVE  /\ signatures' \in [Transactions -> 0 .. nextSignature' - 1]
         /\ nextSignature' \in Nat \ {0}
         /\ nextSignature <= nextSignature'
         /\ \A t \in Transactions : signatures'[t] # 0 <=> t \in Range(batch)
         /\ \A t \in Range(batch) : signatures'[t] >= nextSignature
         /\ \A t, u \in Range(batch) : signatures'[t] = signatures'[u] => t = u
<1>1. Len(batch) \in Nat /\ DOMAIN batch = 1 .. Len(batch)
  BY BatchType DEF TypeOK
<1>2. nextSignature' = nextSignature + Len(batch) /\ nextSignature \in Nat \ {0}
  BY DEF SaveSignatures, TypeOK
<1>3. ASSUME NEW t \in Range(batch) PROVE Place(t) \in 1 .. Len(batch)
  BY <1>1 DEF Range, Place
<1>4. signatures' = [t \in Transactions |->
                       IF t \in Range(batch)
                       THEN nextSignature + Place(t) - 1
                       ELSE 0]
  BY DEF SaveSignatures
<1>5. ASSUME NEW t \in Transactions
      PROVE  /\ signatures'[t] \in 0 .. nextSignature' - 1
             /\ (signatures'[t] # 0) <=> (t \in Range(batch))
  <2>1. CASE t \in Range(batch)
    <3>1. Place(t) \in 1 .. Len(batch)
      BY <1>3, <2>1
    <3>2. signatures'[t] = nextSignature + Place(t) - 1
      BY <1>4, <2>1
    <3> QED
      BY <1>1, <1>2, <2>1, <3>1, <3>2
  <2>2. CASE t \notin Range(batch)
    BY <1>1, <1>2, <1>4, <2>2
  <2> QED
    BY <2>1, <2>2
<1>6. signatures' \in [Transactions -> 0 .. nextSignature' - 1]
  BY <1>4, <1>5, Zenon
<1>7. \A t \in Range(batch) :
        t \in Transactions /\ signatures'[t] = nextSignature + Place(t) - 1
  BY <1>4, BatchType DEF TypeOK
<1>8. \A t \in Range(batch) : signatures'[t] >= nextSignature
  BY <1>1, <1>2, <1>3, <1>7
<1>9. ASSUME NEW t \in Range(batch), NEW u \in Range(batch), signatures'[t] = signatures'[u]
      PROVE  t = u
  <2>1. Place(t) = Place(u)
    BY <1>1, <1>2, <1>3, <1>7, <1>9
  <2>2. batch[Place(t)] = t /\ batch[Place(u)] = u
    BY DEF Place, Range
  <2> QED
    BY <2>1, <2>2
<1> QED
  BY <1>1, <1>2, <1>5, <1>6, <1>8, <1>9

\* What InsertAddresses makes of the ids it gets.
LEMMA NewAccounts ==
  ASSUME TypeOK, InsertAddresses, \A a \in UnsavedAddresses : addressId[a] = 0
  PROVE  /\ accounts' \in [Addresses -> 0 .. nextAddress' - 1]
         /\ nextAddress' \in Nat \ {0}
         /\ nextAddress <= nextAddress'
         /\ \A a \in Addresses \ UnsavedAddresses : accounts'[a] = accounts[a]
         /\ \A a \in UnsavedAddresses : accounts'[a] >= nextAddress
         /\ \A a, b \in UnsavedAddresses : accounts'[a] = accounts'[b] => a = b
<1>1. UnsavedAddresses \subseteq Addresses /\ Cardinality(UnsavedAddresses) \in Nat
  BY UnsavedCount DEF TypeOK
<1>2. nextAddress' = Unused /\ Unused = nextAddress + Cardinality(UnsavedAddresses)
  BY DEF InsertAddresses, Unused
<1>3. nextAddress \in Nat \ {0} /\ accounts \in [Addresses -> 0 .. nextAddress - 1]
  BY DEF TypeOK
<1>4. PICK id \in NewIds :
        accounts' = [a \in Addresses |-> IF a \in UnsavedAddresses THEN id[a] ELSE accounts[a]]
  BY DEF InsertAddresses
<1>5. /\ \A a \in UnsavedAddresses : id[a] \in nextAddress .. nextAddress' - 1
      /\ \A a, b \in UnsavedAddresses : id[a] = id[b] => a = b
  BY <1>2 DEF NewIds, Injection, IsInjective
<1>6. ASSUME NEW a \in Addresses PROVE accounts'[a] \in 0 .. nextAddress' - 1
  BY <1>1, <1>2, <1>3, <1>4, <1>5
<1> QED
  BY <1>1, <1>2, <1>3, <1>4, <1>5, <1>6

\* A commit gives ids to what had none and leaves the others as they were.
LEMMA Commit ==
  ASSUME IInv, Write, \A t \in Range(batch) : ValidUpdate(t) /\ ~Rejected(t)
  PROVE  /\ signatureId' = [t \in Transactions |->
                              IF signatures[t] # 0 THEN signatures[t] ELSE signatureId[t]]
         /\ addressId' = [a \in Addresses |->
                            IF accounts[a] # 0 THEN accounts[a] ELSE addressId[a]]
         /\ \A t \in Transactions : signatureId[t] # 0 => signatureId'[t] = signatureId[t]
         /\ \A a \in Addresses : addressId[a] # 0 => addressId'[a] = addressId[a]
<1>1. signatureId' = [t \in Transactions |->
                        IF signatures[t] # 0 THEN signatures[t] ELSE signatureId[t]]
  BY DEF Write
<1>2. addressId' = [a \in Addresses |->
                      IF accounts[a] # 0 THEN accounts[a] ELSE addressId[a]]
  BY DEF Write
<1>3. \A t \in Transactions : signatureId[t] # 0 => signatureId'[t] = signatureId[t]
  BY <1>1 DEF IInv, SignatureInv
<1>4. \A a \in Addresses : addressId[a] # 0 => addressId'[a] = addressId[a]
  BY <1>2 DEF IInv, InsertedInv, Write
<1> QED
  BY <1>1, <1>2, <1>3, <1>4

\* No step takes an id back or changes one.
LEMMA IdsStay ==
  ASSUME IInv, [Next]_vars
  PROVE  /\ \A t \in Transactions : signatureId[t] # 0 => signatureId'[t] = signatureId[t]
         /\ \A a \in Addresses : addressId[a] # 0 => addressId'[a] = addressId[a]
<1>1. CASE UNCHANGED <<signatureId, addressId>>
  BY <1>1
<1>2. CASE Write
  BY <1>2, Commit DEF Write, tables
<1>3. ASSUME NEW a \in Addresses, InsertAddress(a)
      PROVE  /\ \A t \in Transactions : signatureId[t] # 0 => signatureId'[t] = signatureId[t]
             /\ \A b \in Addresses : addressId[b] # 0 => addressId'[b] = addressId[b]
  BY <1>3 DEF InsertAddress, IInv, TypeOK
<1> QED
  BY <1>1, <1>2, <1>3
  DEF Next, Begin, SaveSignatures, SelectAddresses, InsertAddresses, Kill, End,
      vars, tables

\* Every step keeps the types of what does not refer to a row.
LEMMA TypeStep ==
  ASSUME IInv, [Next]_vars
  PROVE  /\ nextAddress' \in Nat \ {0}
         /\ nextSignature' \in Nat \ {0}
         /\ addressId' \in [Addresses -> 0 .. nextAddress' - 1]
         /\ signatureId' \in [Transactions -> 0 .. nextSignature' - 1]
         /\ pc' \in {"idle", "signatures", "select", "insert", "write"}
         /\ batch' \in Batches
         /\ signatures' \in [Transactions -> 0 .. nextSignature' - 1]
         /\ accounts' \in [Addresses -> 0 .. nextAddress' - 1]
         /\ pc' = "idle" => batch' = <<>>
         /\ pc' \in {"idle", "signatures"} => signatures' = NoSignatures
         /\ pc' \in {"idle", "signatures", "select"} => accounts' = NoAccounts
         /\ batches' \in 0 .. MaxBatches
<1> DEFINE Q == /\ nextAddress \in Nat \ {0}
                /\ nextSignature \in Nat \ {0}
                /\ addressId \in [Addresses -> 0 .. nextAddress - 1]
                /\ signatureId \in [Transactions -> 0 .. nextSignature - 1]
                /\ pc \in {"idle", "signatures", "select", "insert", "write"}
                /\ batch \in Batches
                /\ signatures \in [Transactions -> 0 .. nextSignature - 1]
                /\ accounts \in [Addresses -> 0 .. nextAddress - 1]
                /\ pc = "idle" => batch = <<>>
                /\ pc \in {"idle", "signatures"} => signatures = NoSignatures
                /\ pc \in {"idle", "signatures", "select"} => accounts = NoAccounts
                /\ batches \in 0 .. MaxBatches
<1> SUFFICES Q'
  OBVIOUS
<1>1. Q
  BY DEF IInv, TypeOK
<1>2. /\ \A m \in Nat \ {0} : NoSignatures \in [Transactions -> 0 .. m - 1]
      /\ \A m \in Nat \ {0} : NoAccounts \in [Addresses -> 0 .. m - 1]
  BY DEF NoSignatures, NoAccounts
<1> USE <1>1, RowCodecAssumption DEF tables
<1>3. ASSUME NEW b \in Batches, Begin(b) PROVE Q'
  BY <1>3 DEF Begin
<1>4. CASE SaveSignatures
  <2>1. CASE SignatureConflict
    <3>1. Len(batch) \in Nat
      BY BatchType
    <3>2. nextSignature' \in Nat \ {0} /\ nextSignature <= nextSignature'
      BY <1>4, <2>1, <3>1 DEF SaveSignatures
    <3>3. signatureId \in [Transactions -> 0 .. nextSignature' - 1]
      BY <3>2
    <3> QED
      BY <1>2, <1>4, <2>1, <3>2, <3>3, EmptyBatch DEF SaveSignatures, End, Forget
  <2>2. CASE ~SignatureConflict
    <3>1. /\ signatures' \in [Transactions -> 0 .. nextSignature' - 1]
          /\ nextSignature' \in Nat \ {0}
          /\ nextSignature <= nextSignature'
      BY <1>4, <2>2, NewSignatures DEF IInv
    <3>2. signatureId \in [Transactions -> 0 .. nextSignature' - 1]
      BY <3>1
    <3> QED
      BY <1>4, <2>2, <3>1, <3>2 DEF SaveSignatures
  <2> QED
    BY <2>1, <2>2
<1>5. CASE SelectAddresses
  BY <1>5 DEF SelectAddresses
<1>6. CASE InsertAddresses
  <2>1. CASE \E a \in UnsavedAddresses : addressId[a] # 0
    <3>1. nextAddress' \in Nat \ {0} /\ nextAddress <= nextAddress'
      BY <1>6, <2>1, UnsavedCount DEF InsertAddresses, Unused
    <3>2. addressId \in [Addresses -> 0 .. nextAddress' - 1]
      BY <3>1
    <3> QED
      BY <1>2, <1>6, <2>1, <3>1, <3>2, EmptyBatch DEF InsertAddresses, End, Forget
  <2>2. CASE \A a \in UnsavedAddresses : addressId[a] = 0
    <3>1. /\ accounts' \in [Addresses -> 0 .. nextAddress' - 1]
          /\ nextAddress' \in Nat \ {0}
          /\ nextAddress <= nextAddress'
      BY <1>6, <2>2, NewAccounts DEF IInv
    <3>2. addressId \in [Addresses -> 0 .. nextAddress' - 1]
      BY <3>1
    <3> QED
      BY <1>6, <2>2, <3>1, <3>2 DEF InsertAddresses
  <2> QED
    BY <2>1, <2>2
<1>7. CASE Write
  BY <1>2, <1>7, EmptyBatch DEF Write, Forget
<1>8. CASE Kill
  BY <1>2, <1>8, EmptyBatch DEF Kill, End, Forget
<1>9. ASSUME NEW a \in Addresses, InsertAddress(a) PROVE Q'
  <2>1. nextAddress' = nextAddress + 1
    BY <1>9 DEF InsertAddress
  <2>2. addressId' \in [Addresses -> 0 .. nextAddress' - 1]
    BY <1>9, <2>1 DEF InsertAddress
  <2>3. accounts \in [Addresses -> 0 .. nextAddress' - 1]
    BY <2>1
  <2> QED
    BY <1>9, <2>1, <2>2, <2>3 DEF InsertAddress
<1>10. CASE UNCHANGED vars
  BY <1>10 DEF vars
<1> QED
  BY <1>3, <1>4, <1>5, <1>6, <1>7, <1>8, <1>9, <1>10 DEF Next

\* Every step keeps the ids of the batch's signatures apart from the table's.
LEMMA SignatureStep ==
  ASSUME IInv, [Next]_vars
  PROVE  SignatureInv'
<1> USE DEF IInv, SignatureInv, tables
<1>1. /\ pc = "idle" => signatures = NoSignatures
      /\ pc = "signatures" => signatures = NoSignatures
      /\ \A t \in Transactions : NoSignatures[t] = 0
  BY DEF TypeOK, NoSignatures
<1>2. ASSUME NEW b \in Batches, Begin(b) PROVE SignatureInv'
  BY <1>1, <1>2 DEF Begin
<1>3. CASE SaveSignatures /\ ~SignatureConflict
  <2>1. \A t \in Transactions : (signatures'[t] # 0) <=> (t \in Range(batch))
    BY <1>3, NewSignatures
  <2>2. \A t \in Range(batch) : signatureId[t] = 0
    BY <1>3 DEF SignatureConflict
  <2>3. UNCHANGED <<batch, signatureId>>
    BY <1>3 DEF SaveSignatures
  <2> QED
    BY <2>1, <2>2, <2>3
<1>4. CASE Forget
  BY <1>1, <1>4 DEF Forget
<1>5. CASE SelectAddresses
  BY <1>5 DEF SelectAddresses
<1>6. CASE InsertAddresses
  BY <1>4, <1>6 DEF InsertAddresses, End
<1>7. ASSUME NEW a \in Addresses, InsertAddress(a) PROVE SignatureInv'
  BY <1>7 DEF InsertAddress
<1>8. CASE UNCHANGED vars
  BY <1>8 DEF vars
<1> QED
  BY <1>2, <1>3, <1>4, <1>5, <1>6, <1>7, <1>8
  DEF Next, SaveSignatures, Write, Kill, End

\* Every step keeps the ids of addresses apart, inserted, selected or not.
LEMMA AddressStep ==
  ASSUME IInv, [Next]_vars
  PROVE  SelectedInv' /\ InsertedInv' /\ UniqueInv'
<1> DEFINE Q == SelectedInv /\ InsertedInv /\ UniqueInv
<1> SUFFICES Q'
  OBVIOUS
<1> USE DEF SelectedInv, InsertedInv, UniqueInv
<1>1. /\ Q
      /\ nextAddress \in Nat \ {0}
      /\ addressId \in [Addresses -> 0 .. nextAddress - 1]
      /\ accounts \in [Addresses -> 0 .. nextAddress - 1]
      /\ InsertableAddresses(batch) \subseteq Addresses
  BY BatchType DEF IInv, TypeOK
<1>2. ASSUME UNCHANGED addressId, pc' \notin {"insert", "write"} PROVE Q'
  BY <1>1, <1>2
<1>3. CASE SelectAddresses
  BY <1>1, <1>3 DEF SelectAddresses, tables
<1>4. CASE InsertAddresses /\ \A a \in UnsavedAddresses : addressId[a] = 0
  <2>1. /\ \A a \in Addresses \ UnsavedAddresses : accounts'[a] = accounts[a]
        /\ \A a \in UnsavedAddresses : accounts'[a] >= nextAddress
        /\ \A a, b \in UnsavedAddresses : accounts'[a] = accounts'[b] => a = b
    BY <1>4, NewAccounts DEF IInv
  <2>2. UNCHANGED <<addressId, batch>> /\ pc = "insert" /\ pc' = "write"
    BY <1>4 DEF InsertAddresses, tables
  <2>3. \A a \in Addresses : accounts[a] \in {0, addressId[a]}
    BY <1>1, <2>2
  <2>4. UnsavedAddresses \subseteq Addresses
    BY <1>1 DEF UnsavedAddresses
  <2>5. \A a \in Addresses : accounts[a] < nextAddress /\ addressId[a] < nextAddress
    BY <1>1
  <2>6. ASSUME NEW a \in InsertableAddresses(batch) PROVE accounts'[a] # 0
    <3>1. CASE a \in UnsavedAddresses
      BY <1>1, <2>1, <3>1
    <3>2. CASE a \notin UnsavedAddresses
      BY <1>1, <2>1, <3>2 DEF UnsavedAddresses
    <3> QED
      BY <3>1, <3>2
  <2>7. ASSUME NEW a \in Addresses, accounts'[a] # 0
        PROVE  addressId[a] \in {0, accounts'[a]}
    BY <1>4, <2>1, <2>3, <2>7
  <2>8. ASSUME NEW a \in Addresses, NEW b \in Addresses, accounts'[a] # 0,
               accounts'[a] \in {accounts'[b], addressId[b]}
        PROVE  a = b
    <3>1. CASE a \in UnsavedAddresses
      <4>1. accounts'[a] >= nextAddress
        BY <2>1, <3>1
      <4>2. accounts'[a] = accounts'[b] /\ b \in UnsavedAddresses
        BY <1>1, <2>1, <2>5, <2>8, <4>1
      <4> QED
        BY <2>1, <3>1, <4>2
    <3>2. CASE a \notin UnsavedAddresses
      <4>1. accounts'[a] = addressId[a] /\ addressId[a] # 0 /\ addressId[a] < nextAddress
        BY <2>1, <2>3, <2>5, <2>8, <3>2
      <4>2. accounts'[b] < nextAddress => accounts'[b] \in {0, addressId[b]}
        <5>1. CASE b \in UnsavedAddresses
          <6>1. accounts'[b] \in Nat
            BY <1>4, NewAccounts DEF IInv
          <6> QED
            BY <1>1, <2>1, <5>1, <6>1
        <5>2. CASE b \notin UnsavedAddresses
          BY <2>1, <2>3, <5>2
        <5> QED
          BY <5>1, <5>2
      <4>3. addressId[a] = addressId[b]
        BY <2>8, <4>1, <4>2
      <4> QED
        BY <1>1, <4>1, <4>3
    <3> QED
      BY <3>1, <3>2
  <2> QED
    BY <1>1, <2>2, <2>6, <2>7, <2>8
<1>5. CASE Write /\ \A t \in Range(batch) : ValidUpdate(t) /\ ~Rejected(t)
  <2>1. addressId' = [a \in Addresses |->
                        IF accounts[a] # 0 THEN accounts[a] ELSE addressId[a]]
    BY <1>5, Commit
  <2>2. UniqueInv'
    BY <1>1, <1>5, <2>1 DEF Write
  <2> QED
    BY <1>5, <2>2 DEF Write, Forget
<1>6. ASSUME NEW a \in Addresses, InsertAddress(a) PROVE Q'
  <2>1. addressId' = [addressId EXCEPT ![a] = nextAddress] /\ addressId[a] = 0
    BY <1>6 DEF InsertAddress
  <2>2. UNCHANGED <<pc, batch, accounts>> /\ (pc = "write" => accounts[a] = 0)
    BY <1>6 DEF InsertAddress
  <2>3. \A b \in Addresses : addressId[b] < nextAddress /\ accounts[b] < nextAddress
    BY <1>1
  <2>4. UniqueInv'
    BY <1>1, <2>1, <2>3
  <2>5. SelectedInv'
    BY <1>1, <2>1, <2>2
  <2>6. InsertedInv'
    BY <1>1, <2>1, <2>2, <2>3
  <2> QED
    BY <2>4, <2>5, <2>6
<1>7. CASE UNCHANGED vars
  BY <1>1, <1>7 DEF vars, tables
<1> QED
  BY <1>2, <1>3, <1>4, <1>5, <1>6, <1>7
  DEF Next, Begin, SaveSignatures, InsertAddresses, Write, Kill, End, Forget, tables

\* Every step keeps the ids of signatures apart, inserted or about to be.
LEMMA SignatureIdStep ==
  ASSUME IInv, [Next]_vars
  PROVE  SignatureIdInv'
<1> USE DEF SignatureIdInv
<1>1. /\ SignatureIdInv
      /\ nextSignature \in Nat \ {0}
      /\ signatureId \in [Transactions -> 0 .. nextSignature - 1]
      /\ \A t \in Transactions : signatures[t] # 0 => signatureId[t] = 0
  BY DEF IInv, TypeOK, SignatureInv
<1>2. CASE SaveSignatures /\ ~SignatureConflict
  <2>1. /\ \A t \in Transactions : signatures'[t] # 0 <=> t \in Range(batch)
        /\ \A t \in Range(batch) : signatures'[t] >= nextSignature
        /\ \A t, u \in Range(batch) : signatures'[t] = signatures'[u] => t = u
        /\ signatures' \in [Transactions -> 0 .. nextSignature' - 1]
        /\ nextSignature' \in Nat \ {0}
    BY <1>2, NewSignatures DEF IInv
  <2>2. UNCHANGED signatureId
    BY <1>2 DEF SaveSignatures, tables
  <2>3. ASSUME NEW t \in Transactions, NEW u \in Transactions,
               signatures'[t] # 0, signatures'[t] \in {signatures'[u], signatureId[u]}
        PROVE  t = u
    <3>1. t \in Range(batch) /\ signatures'[t] >= nextSignature /\ signatures'[t] \in Int
      BY <2>1, <2>3
    <3>2. signatureId[u] < nextSignature /\ signatureId[u] \in Int
      BY <1>1
    <3>3. signatures'[t] = signatures'[u]
      BY <1>1, <2>3, <3>1, <3>2
    <3> QED
      BY <2>1, <2>3, <3>1, <3>3
  <2> QED
    BY <1>1, <2>2, <2>3
<1>3. CASE Forget /\ UNCHANGED signatureId
  BY <1>1, <1>3 DEF Forget, NoSignatures
<1>4. CASE Write /\ \A t \in Range(batch) : ValidUpdate(t) /\ ~Rejected(t)
  <2>1. \A t \in Transactions :
          signatureId'[t] = IF signatures[t] # 0 THEN signatures[t] ELSE signatureId[t]
    BY <1>4, Commit
  <2>2. \A t \in Transactions : signatures'[t] = 0
    BY <1>4 DEF Write, Forget, NoSignatures
  <2>3. ASSUME NEW t \in Transactions, NEW u \in Transactions,
               signatureId'[t] # 0, signatureId'[t] = signatureId'[u]
        PROVE  t = u
    BY <1>1, <2>1, <2>3
  <2> QED
    BY <2>2, <2>3
<1>5. CASE UNCHANGED <<signatures, signatureId>>
  BY <1>1, <1>5
<1> QED
  BY <1>2, <1>3, <1>4, <1>5
  DEF Next, Begin, SaveSignatures, SelectAddresses, InsertAddresses, Write, Kill,
      InsertAddress, End, vars, tables

-----------------------------------------------------------------------------
(* The rows. *)

\* An id that names an address does so for good.
LEMMA NamesStay ==
  ASSUME IInv, [Next]_vars, NEW id, NEW a \in Addresses, Names(id, a)
  PROVE  Names(id, a)'
<1>1. addressId'[a] = id
  BY IdsStay DEF Names
<1> QED
  BY <1>1, AddressStep DEF Names, UniqueInv

\* What was found has, after the commit, an id that names it.
LEMMA FoundNamed ==
  ASSUME IInv, [Next]_vars, Write, \A t \in Range(batch) : ValidUpdate(t) /\ ~Rejected(t),
         NEW a \in Addresses, accounts[a] # 0
  PROVE  /\ addressId'[a] = accounts[a]
         /\ \A b \in Addresses : addressId'[b] = accounts[a] => b = a
<1>1. addressId'[a] = accounts[a]
  BY Commit
<1> QED
  BY <1>1, AddressStep DEF UniqueInv

\* The rows a commit adds.
LEMMA NewRows ==
  ASSUME Write
  PROVE  /\ instruction' \subseteq
              instruction \cup UNION {InstructionRows(t) : t \in Range(batch)}
         /\ transaction' \subseteq
              transaction \cup {TransactionRow(t) : t \in Range(batch)}
  BY DEF Write, tables

\* Only a commit adds rows.
LEMMA OldRows ==
  ASSUME [Next]_vars, ~(Write /\ \A t \in Range(batch) : ValidUpdate(t) /\ ~Rejected(t))
  PROVE  UNCHANGED <<instruction, transaction>>
  BY DEF Next, Begin, SaveSignatures, SelectAddresses, InsertAddresses, Write, Kill,
         InsertAddress, End, vars, tables

\* A row that is right stays right.
LEMMA OldRowsResolve ==
  ASSUME IInv, [Next]_vars
  PROVE  /\ \A r \in instruction : \E t \in Transactions :
              signatureId'[t] = r.signature /\ Resolves(r, t)'
         /\ \A r \in transaction : \E t \in Transactions :
              signatureId'[t] = r.signature /\ ListsKeys(r, t)'
<1>1. ASSUME NEW r \in instruction
      PROVE  \E t \in Transactions : signatureId'[t] = r.signature /\ Resolves(r, t)'
  <2>1. PICK t \in Transactions : signatureId[t] = r.signature /\ Resolves(r, t)
    BY DEF IInv, IdsResolve
  <2>2. signatureId[t] # 0
    BY <2>1 DEF IInv, TypeOK
  <2>3. signatureId'[t] = r.signature
    BY <2>1, <2>2, IdsStay
  <2>4. r.index \in DOMAIN Compiled[t]
    BY <2>1 DEF Resolves
  <2> DEFINE ix == Compiled[t][r.index]
  <2>5. CompiledBy(t, ix)
    BY <2>4, IxsKeys
  <2>6. /\ KeyAt(t, ix.program) \in Addresses
        /\ \A k \in DOMAIN ix.accounts : KeyAt(t, ix.accounts[k]) \in Addresses
    BY <2>5, KeyInserted, LenProperties, ElementOfSeq DEF CompiledBy
  <2>7. Names(r.program, KeyAt(t, ix.program))'
    BY <2>1, <2>6, NamesStay DEF Resolves
  <2>8. \A k \in DOMAIN ix.accounts : Names(r.accounts[k], KeyAt(t, ix.accounts[k]))'
    BY <2>1, <2>6, NamesStay DEF Resolves
  <2> QED
    BY <2>1, <2>3, <2>4, <2>7, <2>8 DEF Resolves
<1>2. ASSUME NEW r \in transaction
      PROVE  \E t \in Transactions : signatureId'[t] = r.signature /\ ListsKeys(r, t)'
  <2>1. PICK t \in Transactions : signatureId[t] = r.signature /\ ListsKeys(r, t)
    BY DEF IInv, IdsResolve
  <2>2. signatureId[t] # 0
    BY <2>1 DEF IInv, TypeOK
  <2>3. signatureId'[t] = r.signature
    BY <2>1, <2>2, IdsStay
  <2>4. \A k \in 1 .. Keys(t) : Names(r.accounts[Keys(t) + k], KeyAt(t, k))'
    BY <2>1, KeyInserted, NamesStay DEF ListsKeys
  <2> QED
    BY <2>1, <2>3, <2>4 DEF ListsKeys
<1> QED
  BY <1>1, <1>2

\* A row of an instruction of the batch is right.
LEMMA NewInstructionResolves ==
  ASSUME IInv, [Next]_vars, Write, \A t \in Range(batch) : ValidUpdate(t) /\ ~Rejected(t),
         NEW t \in Range(batch), NEW r \in InstructionRows(t)
  PROVE  signatureId'[t] = r.signature /\ r.signature # 0 /\ Resolves(r, t)'
<1>1. t \in Transactions /\ signatures[t] # 0
  BY BatchType DEF IInv, TypeOK, ValidUpdate
<1>2. PICK i \in DOMAIN Compiled[t] : r = PrepareForInsert(t, i)
  BY DEF InstructionRows, Ixs
<1>3. /\ r.signature = signatures[t]
      /\ r.index = i
      /\ r.program = accounts[Ixs(t)[i].program]
      /\ DOMAIN r.accounts = DOMAIN Ixs(t)[i].accounts
      /\ \A k \in DOMAIN Ixs(t)[i].accounts : r.accounts[k] = accounts[Ixs(t)[i].accounts[k]]
  BY <1>2 DEF PrepareForInsert
<1>4. signatureId'[t] = r.signature
  BY <1>1, <1>3, Commit
<1> DEFINE ix == Compiled[t][i]
<1>5. CompiledBy(t, ix)
  BY <1>1, IxsKeys
<1>6. /\ ix.program \in 1 .. Keys(t)
      /\ \A k \in DOMAIN ix.accounts : ix.accounts[k] \in 1 .. Keys(t)
  BY <1>5, LenProperties, ElementOfSeq DEF CompiledBy
<1>7. \A k \in 1 .. Keys(t) : KeyAt(t, k) \in Addresses /\ accounts[KeyAt(t, k)] # 0
  BY <1>1, KeyInserted DEF ValidUpdate
<1>8. ASSUME NEW k \in 1 .. Keys(t), NEW id, id = accounts[KeyAt(t, k)]
      PROVE  Names(id, KeyAt(t, k))'
  BY <1>7, <1>8, FoundNamed DEF Names
<1>9. Names(r.program, KeyAt(t, ix.program))'
  BY <1>1, <1>3, <1>6, <1>8, IxsKeys
<1>10. DOMAIN r.accounts = DOMAIN ix.accounts
  BY <1>1, <1>3, IxsKeys
<1>11. ASSUME NEW k \in DOMAIN ix.accounts
       PROVE  Names(r.accounts[k], KeyAt(t, ix.accounts[k]))'
  BY <1>1, <1>3, <1>6, <1>8, IxsKeys
<1> QED
  BY <1>1, <1>3, <1>4, <1>9, <1>10, <1>11 DEF Resolves

\* And so is a row of a transaction of the batch.
LEMMA NewTransactionResolves ==
  ASSUME IInv, [Next]_vars, Write, \A t \in Range(batch) : ValidUpdate(t) /\ ~Rejected(t),
         NEW t \in Range(batch), NEW r, r = TransactionRow(t)
  PROVE  signatureId'[t] = r.signature /\ r.signature # 0 /\ ListsKeys(r, t)'
<1>1. t \in Transactions /\ signatures[t] # 0
  BY BatchType DEF IInv, TypeOK, ValidUpdate
<1> DEFINE keys == DecompileAccounts(t)
<1>2. /\ r.signature = signatures[t]
      /\ r.accounts = [k \in 1 .. 2 * Len(keys) |->
                         IF k <= Len(keys) THEN 0 ELSE accounts[keys[k - Len(keys)]]]
  BY DEF TransactionRow
<1>3. /\ Len(keys) = Keys(t)
      /\ Keys(t) \in Nat
      /\ \A k \in 1 .. Keys(t) : keys[k] = KeyAt(t, k)
  BY <1>1, DecompiledKeys
<1> HIDE DEF keys
<1>4. signatureId'[t] = r.signature
  BY <1>1, <1>2, Commit
<1>5. \A k \in 1 .. Keys(t) : KeyAt(t, k) \in Addresses /\ accounts[KeyAt(t, k)] # 0
  BY <1>1, KeyInserted DEF ValidUpdate
<1>6. DOMAIN r.accounts = 1 .. 2 * Keys(t)
  BY <1>2, <1>3
<1>7. ASSUME NEW k \in 1 .. Keys(t)
      PROVE  r.accounts[k] = 0 /\ r.accounts[Keys(t) + k] = accounts[KeyAt(t, k)]
  <2>1. k \in 1 .. 2 * Keys(t) /\ Keys(t) + k \in 1 .. 2 * Keys(t)
    BY <1>3
  <2>2. k <= Keys(t) /\ ~(Keys(t) + k <= Keys(t)) /\ (Keys(t) + k) - Keys(t) = k
    BY <1>3
  <2> QED
    BY <1>2, <1>3, <2>1, <2>2
<1>8. ASSUME NEW k \in 1 .. Keys(t)
      PROVE  Names(r.accounts[Keys(t) + k], KeyAt(t, k))'
  BY <1>5, <1>7, FoundNamed DEF Names
<1> QED
  BY <1>1, <1>2, <1>4, <1>6, <1>7, <1>8 DEF ListsKeys

\* Every step keeps the rows right.
LEMMA RowsStep == IInv /\ [Next]_vars => IdsResolve'
<1> SUFFICES ASSUME IInv, [Next]_vars PROVE IdsResolve'
  OBVIOUS
<1>1. CASE Write /\ \A t \in Range(batch) : ValidUpdate(t) /\ ~Rejected(t)
  <2>1. Range(batch) \subseteq Transactions
    BY BatchType DEF IInv, TypeOK
  <2>2. ASSUME NEW r \in instruction'
        PROVE  \E t \in Transactions : signatureId'[t] = r.signature /\ Resolves(r, t)'
    <3>1. CASE r \in instruction
      BY <3>1, OldRowsResolve
    <3>2. CASE r \notin instruction
      <4>1. PICK t \in Range(batch) : r \in InstructionRows(t)
        BY <1>1, <2>2, <3>2, NewRows
      <4> QED
        BY <1>1, <2>1, <4>1, NewInstructionResolves
    <3> QED
      BY <3>1, <3>2
  <2>3. ASSUME NEW r \in transaction'
        PROVE  \E t \in Transactions : signatureId'[t] = r.signature /\ ListsKeys(r, t)'
    <3>1. CASE r \in transaction
      BY <3>1, OldRowsResolve
    <3>2. CASE r \notin transaction
      <4>1. PICK t \in Range(batch) : r = TransactionRow(t)
        BY <1>1, <2>3, <3>2, NewRows
      <4> QED
        BY <1>1, <2>1, <4>1, NewTransactionResolves
    <3> QED
      BY <3>1, <3>2
  <2> QED
    BY <2>2, <2>3 DEF IdsResolve
<1>2. CASE ~(Write /\ \A t \in Range(batch) : ValidUpdate(t) /\ ~Rejected(t))
  BY <1>2, OldRows, OldRowsResolve DEF IdsResolve
<1> QED
  BY <1>1, <1>2

\* Rows that are right refer to rows that are there.
LEMMA References ==
  ASSUME IInv, [Next]_vars
  PROVE  /\ \A r \in transaction' \cup instruction' :
              r.signature \in Range(signatureId') \ {0}
         /\ \A r \in instruction' : r.program \in AddressIds'
<1>1. DOMAIN signatureId' = Transactions /\ DOMAIN addressId' = Addresses
  BY TypeStep
<1>2. ASSUME NEW r \in transaction' \cup instruction' PROVE r.signature # 0
  <2>1. CASE r \in transaction \cup instruction
    BY <2>1 DEF IInv, TypeOK
  <2>2. CASE r \notin transaction \cup instruction
    <3>1. Write /\ \A t \in Range(batch) : ValidUpdate(t) /\ ~Rejected(t)
      BY <1>2, <2>2, OldRows
    <3>2. PICK t \in Range(batch) : r \in InstructionRows(t) \/ r = TransactionRow(t)
      BY <1>2, <2>2, <3>1, NewRows
    <3> QED
      BY <3>1, <3>2, NewInstructionResolves, NewTransactionResolves
  <2> QED
    BY <2>1, <2>2
<1>3. ASSUME NEW r \in transaction' \cup instruction'
      PROVE  \E t \in Transactions : signatureId'[t] = r.signature
  BY RowsStep DEF IdsResolve
<1>4. ASSUME NEW r \in instruction' PROVE r.program \in AddressIds'
  <2>1. PICK t \in Transactions : Resolves(r, t)'
    BY RowsStep DEF IdsResolve
  <2>2. PICK k \in 1 .. Keys(t) : Names(r.program, KeyAt(t, k))'
    BY <2>1, IxsKeys DEF Resolves, CompiledBy
  <2>3. KeyAt(t, k) \in Addresses
    BY KeyInserted
  <2> QED
    BY <1>1, <2>2, <2>3 DEF Names, AddressIds, Range
<1> QED
  BY <1>1, <1>2, <1>3, <1>4 DEF Range

\* Only a commit gives a signature an id.
LEMMA OldSignatures ==
  ASSUME [Next]_vars, ~(Write /\ \A t \in Range(batch) : ValidUpdate(t) /\ ~Rejected(t))
  PROVE  UNCHANGED signatureId
  BY DEF Next, Begin, SaveSignatures, SelectAddresses, InsertAddresses, Write, Kill,
         InsertAddress, End, vars, tables

\* An instruction a commit adds has a primary key no row has.
LEMMA NewKeys ==
  ASSUME IInv, NEW r \in instruction, NEW t \in Range(batch),
         NEW s \in InstructionRows(t), signatures[t] # 0, t \in Transactions
  PROVE  r.signature # s.signature
<1>1. s.signature = signatures[t]
  BY DEF InstructionRows, PrepareForInsert
<1>2. PICK u \in Transactions : signatureId[u] = r.signature
  BY DEF IInv, IdsResolve
<1> QED
  BY <1>1, <1>2 DEF IInv, SignatureInv, SignatureIdInv

\* Every step keeps the rows complete, and their primary keys apart.
LEMMA RowsInvStep ==
  ASSUME IInv, [Next]_vars
  PROVE  RowsInv'
<1> DEFINE Has(t) ==
      /\ Visible(t)
      /\ \A i \in DOMAIN Compiled[t] : \E r \in instruction :
           r.signature = signatureId[t] /\ r.index = i
<1>1. /\ \A t \in Transactions : signatureId[t] # 0 => Has(t)
      /\ \A r, s \in instruction : r.signature = s.signature /\ r.index = s.index => r = s
  BY DEF IInv, RowsInv
<1>2. CASE ~(Write /\ \A t \in Range(batch) : ValidUpdate(t) /\ ~Rejected(t))
  <2>1. UNCHANGED <<signatureId, instruction, transaction>>
    BY <1>2, OldSignatures, OldRows
  <2> QED
    BY <1>1, <2>1 DEF RowsInv, Visible
<1>3. CASE Write /\ \A t \in Range(batch) : ValidUpdate(t) /\ ~Rejected(t)
  <2>1. /\ transaction' = transaction \cup {TransactionRow(t) : t \in Range(batch)}
        /\ instruction' = instruction \cup UNION {InstructionRows(t) : t \in Range(batch)}
    BY <1>3 DEF Write
  <2>2. \A t \in Transactions :
          signatureId'[t] = IF signatures[t] # 0 THEN signatures[t] ELSE signatureId[t]
    BY <1>3, Commit
  <2>3. \A t \in Range(batch) : t \in Transactions /\ signatures[t] # 0
    BY <1>3, BatchType DEF IInv, TypeOK, ValidUpdate
  <2>4. ASSUME NEW t \in Transactions, signatureId'[t] # 0 PROVE Has(t)'
    <3>1. CASE signatureId[t] # 0
      <4>1. signatureId'[t] = signatureId[t]
        BY <1>3, <3>1, Commit
      <4> QED
        BY <1>1, <2>1, <3>1, <4>1 DEF Visible
    <3>2. CASE signatureId[t] = 0
      <4>1. signatureId'[t] = signatures[t] /\ t \in Range(batch)
        BY <1>3, <2>2, <2>4, <3>2 DEF IInv, SignatureInv, Write
      <4>2. TransactionRow(t) \in transaction' /\ TransactionRow(t).signature = signatures[t]
        BY <2>1, <4>1 DEF TransactionRow
      <4>3. ASSUME NEW i \in DOMAIN Compiled[t]
            PROVE  /\ PrepareForInsert(t, i) \in instruction'
                   /\ PrepareForInsert(t, i).signature = signatures[t]
                   /\ PrepareForInsert(t, i).index = i
        <5>1. i \in DOMAIN Ixs(t)
          BY DEF Ixs
        <5>2. PrepareForInsert(t, i) \in instruction'
          BY <2>1, <4>1, <5>1 DEF InstructionRows
        <5> QED
          BY <5>2 DEF PrepareForInsert
      <4>4. Visible(t)'
        BY <2>4, <4>1, <4>2 DEF Visible
      <4>5. ASSUME NEW i \in DOMAIN Compiled[t]
            PROVE  \E r \in instruction' : r.signature = signatureId'[t] /\ r.index = i
        BY <4>1, <4>3, Zenon
      <4> QED
        BY <4>4, <4>5
    <3> QED
      BY <3>1, <3>2
  <2>5. ASSUME NEW r \in instruction', NEW s \in instruction',
               r.signature = s.signature, r.index = s.index
        PROVE  r = s
    <3>1. CASE r \in instruction /\ s \in instruction
      BY <1>1, <2>5, <3>1
    <3>2. ASSUME NEW t \in Range(batch), r \in instruction, s \in InstructionRows(t)
          PROVE  FALSE
      BY <2>3, <2>5, <3>2, NewKeys
    <3>3. ASSUME NEW t \in Range(batch), s \in instruction, r \in InstructionRows(t)
          PROVE  FALSE
      BY <2>3, <2>5, <3>3, NewKeys
    <3>4. ASSUME NEW t \in Range(batch), NEW u \in Range(batch),
                 r \in InstructionRows(t), s \in InstructionRows(u)
          PROVE  r = s
      <4>1. PICK i \in DOMAIN Ixs(t) : r = PrepareForInsert(t, i)
        BY <3>4 DEF InstructionRows
      <4>2. PICK j \in DOMAIN Ixs(u) : s = PrepareForInsert(u, j)
        BY <3>4 DEF InstructionRows
      <4>3. /\ r.signature = signatures[t] /\ r.index = i
            /\ s.signature = signatures[u] /\ s.index = j
        BY <4>1, <4>2 DEF PrepareForInsert
      <4>4. t = u /\ i = j
        BY <2>3, <2>5, <4>3 DEF IInv, SignatureIdInv
      <4> QED
        BY <4>1, <4>2, <4>4
    <3> QED
      BY <2>1, <3>1, <3>2, <3>3, <3>4
  <2> QED
    BY <2>4, <2>5 DEF RowsInv
<1> QED
  BY <1>2, <1>3

\* The invariant holds.
LEMMA Invariance == Spec => []IInv
<1>1. IInv /\ [Next]_vars => IInv'
  <2> SUFFICES ASSUME IInv, [Next]_vars PROVE IInv'
    OBVIOUS
  <2>1. TypeOK'
    BY TypeStep, References DEF TypeOK
  <2> QED
    BY <2>1, SignatureStep, AddressStep, RowsStep, SignatureIdStep, RowsInvStep DEF IInv
<1> QED
  BY InitIInv, <1>1, PTL DEF Spec

-----------------------------------------------------------------------------
(* Reading back. *)

\* array_position gives the first place of an id.
LEMMA FirstPlace ==
  ASSUME NEW n \in Nat, NEW ids, DOMAIN ids = 1 .. n, NEW id \in Range(ids)
  PROVE  /\ Ord(ids, id) \in 1 .. n
         /\ ids[Ord(ids, id)] = id
         /\ \A l \in 1 .. Ord(ids, id) - 1 : ids[l] # id
<1> DEFINE places == {k \in 1 .. n : ids[k] = id}
<1>1. places \subseteq Nat /\ places # {}
  BY DEF Range
<1>2. PICK k \in places : \A l \in places : k <= l
  BY <1>1, Smallest
<1>3. k \in DOMAIN ids /\ ids[k] = id /\ \A l \in 1 .. k - 1 : ids[l] # id
  BY <1>2
<1> QED
  BY <1>3 DEF Ord

\* The ids of a list of accounts, each naming the account at its place, give the
\* accounts back, each where it comes first.
LEMMA SelectedAccounts ==
  ASSUME NEW n \in Nat, NEW ids, DOMAIN ids = 1 .. n,
         NEW s \in [1 .. n -> Addresses],
         DOMAIN addressId = Addresses,
         \A k \in 1 .. n : Names(ids[k], s[k])
  PROVE  SelectAccounts(ids) = FirstOccurrences(s)
<1> DEFINE found == Matching(ids)
           ord == [id \in found |-> Ord(ids, id)]
           sorted == SortedBy(found, ord)
           m == Cardinality(found)
           firsts == Firsts(s)
           place == [i \in 1 .. m |-> Ord(ids, sorted[i])]
<1>1. \A k, l \in 1 .. n : ids[k] = ids[l] <=> s[k] = s[l]
  BY DEF Names
<1>2. found = Range(ids) /\ found = {ids[k] : k \in 1 .. n}
  BY DEF Matching, AddressIds, Names, Range
<1>3. IsFiniteSet(found)
  <2> DEFINE f == [k \in 1 .. n |-> ids[k]]
  <2>1. f \in Surjection(1 .. n, found)
    BY <1>2 DEF Surjection
  <2>2. IsFiniteSet(1 .. n)
    BY FS_Interval
  <2> HIDE DEF f, found
  <2> QED
    BY <2>1, <2>2, FS_Surjection
<1>4. \A id \in found : /\ ord[id] = Ord(ids, id)
                        /\ Ord(ids, id) \in 1 .. n
                        /\ ids[Ord(ids, id)] = id
                        /\ \A l \in 1 .. Ord(ids, id) - 1 : ids[l] # id
  BY <1>2, FirstPlace
<1> HIDE DEF found, ord, firsts
<1>5. /\ \A id \in found : ord[id] \in Int
      /\ \A x, y \in found : ord[x] = ord[y] => x = y
  BY <1>4
<1>6. /\ m \in Nat
      /\ sorted \in [1 .. m -> found]
      /\ \A i, j \in 1 .. m : i < j => ord[sorted[i]] < ord[sorted[j]]
  BY <1>3, <1>5, Sorted
<1> HIDE DEF sorted, m
<1>7. firsts = {k \in 1 .. n : \A l \in 1 .. k - 1 : s[l] # s[k]}
  BY DEF firsts, Firsts
<1>8. \A id \in found : Ord(ids, id) \in firsts
  BY <1>1, <1>4, <1>7
<1>9. \A k \in firsts : ids[k] \in found /\ Ord(ids, ids[k]) = k
  <2> SUFFICES ASSUME NEW k \in firsts PROVE ids[k] \in found /\ Ord(ids, ids[k]) = k
    OBVIOUS
  <2>1. k \in 1 .. n /\ ids[k] \in found /\ \A l \in 1 .. k - 1 : ids[l] # ids[k]
    BY <1>1, <1>2, <1>7
  <2>2. /\ Ord(ids, ids[k]) \in 1 .. n
        /\ ids[Ord(ids, ids[k])] = ids[k]
        /\ \A l \in 1 .. Ord(ids, ids[k]) - 1 : ids[l] # ids[k]
    BY <1>4, <2>1
  <2>3. ~(Ord(ids, ids[k]) < k) /\ ~(k < Ord(ids, ids[k]))
    BY <2>1, <2>2
  <2> QED
    BY <2>1, <2>2, <2>3
<1>10. IsFiniteSet(firsts) /\ Cardinality(firsts) = m
  <2>1. ord \in Bijection(found, firsts)
    <3>1. DOMAIN ord = found /\ ord = [id \in found |-> ord[id]]
      BY DEF ord
    <3>2. ord \in [found -> firsts]
      BY <1>4, <1>8, <3>1
    <3>3. \A k \in firsts : \E id \in found : ord[id] = k
      BY <1>4, <1>9
    <3> QED
      BY <1>5, <3>1, <3>2, <3>3 DEF Bijection, Injection, Surjection, IsInjective
  <2> QED
    BY <1>3, <2>1, FS_Bijection DEF ExistsBijection, m
<1>11. /\ place \in [1 .. m -> firsts]
       /\ \A i \in 1 .. m : place[i] = ord[sorted[i]]
  BY <1>4, <1>6, <1>8
<1> HIDE DEF place
<1> DEFINE own == [k \in firsts |-> k]
<1>12. \A i, j \in 1 .. m : i < j => own[place[i]] < own[place[j]]
  BY <1>6, <1>11
<1>13. \A k \in firsts : own[k] \in Int
  BY <1>7
<1> HIDE DEF own
<1>14. place = SortedBy(firsts, own)
  BY <1>10, <1>11, <1>12, <1>13, IncreasingIsSorted
<1>15. FirstOccurrences(s) = [i \in 1 .. m |-> s[place[i]]]
  BY <1>11, <1>14 DEF FirstOccurrences, firsts, own
<1>16. SelectAccounts(ids) = [i \in 1 .. m |-> AddressOf(sorted[i])]
  BY <1>6 DEF SelectAccounts, sorted, found, ord
<1>17. ASSUME NEW i \in 1 .. m PROVE AddressOf(sorted[i]) = s[place[i]]
  <2>1. sorted[i] \in found /\ place[i] = Ord(ids, sorted[i])
    BY <1>4, <1>6, <1>11
  <2>2. place[i] \in 1 .. n /\ ids[place[i]] = sorted[i]
    BY <1>4, <2>1
  <2>3. Names(sorted[i], s[place[i]]) /\ s[place[i]] \in Addresses
    BY <2>2
  <2> QED
    BY <2>3 DEF Names, AddressOf
<1> QED
  BY <1>15, <1>16, <1>17

\* The rows of a signature that has been inserted are those of its instructions,
\* and are sorted by index.
LEMMA SortedRows ==
  ASSUME IInv, NEW t \in Transactions, signatureId[t] # 0
  PROVE  LET rows == SortedBy(RowsOf(t), [r \in RowsOf(t) |-> r.index])
         IN  /\ DOMAIN rows = DOMAIN Compiled[t]
             /\ \A i \in DOMAIN Compiled[t] : rows[i].index = i /\ Resolves(rows[i], t)
<1> DEFINE n == Len(Compiled[t])
           key == [r \in RowsOf(t) |-> r.index]
           q == [i \in 1 .. n |-> CHOOSE r \in RowsOf(t) : r.index = i]
<1>1. n \in Nat /\ DOMAIN Compiled[t] = 1 .. n
  BY RowCodecAssumption
<1>2. \A r \in RowsOf(t) : r \in instruction /\ r.signature = signatureId[t]
  BY DEF RowsOf
<1>3. ASSUME NEW r \in RowsOf(t) PROVE Resolves(r, t) /\ r.index \in 1 .. n
  <2>1. PICK u \in Transactions : signatureId[u] = r.signature /\ Resolves(r, u)
    BY <1>2 DEF IInv, IdsResolve
  <2>2. u = t
    BY <1>2, <2>1 DEF IInv, SignatureIdInv
  <2> QED
    BY <1>1, <2>1, <2>2 DEF Resolves
<1>4. \A r, s \in RowsOf(t) : r.index = s.index => r = s
  BY <1>2 DEF IInv, RowsInv
<1>5. \A i \in 1 .. n : \E r \in RowsOf(t) : r.index = i
  <2> SUFFICES ASSUME NEW i \in 1 .. n PROVE \E r \in RowsOf(t) : r.index = i
    OBVIOUS
  <2>1. PICK r \in instruction : r.signature = signatureId[t] /\ r.index = i
    BY <1>1 DEF IInv, RowsInv
  <2>2. r.program \in AddressIds
    BY DEF IInv, TypeOK
  <2> QED
    BY <2>1, <2>2 DEF RowsOf
<1>6. \A i \in 1 .. n : q[i] \in RowsOf(t) /\ q[i].index = i
  BY <1>5
<1>7. q \in [1 .. n -> RowsOf(t)]
  BY <1>6
<1> HIDE DEF q
<1>8. q \in Bijection(1 .. n, RowsOf(t))
  BY <1>3, <1>4, <1>6, <1>7 DEF Bijection, Injection, Surjection, IsInjective
<1>9. IsFiniteSet(RowsOf(t)) /\ Cardinality(RowsOf(t)) = n
  BY <1>1, <1>8, FS_CountingElements, FS_NatBijection DEF ExistsBijection
<1>10. /\ \A r \in RowsOf(t) : key[r] \in Int
       /\ \A i, j \in 1 .. n : i < j => key[q[i]] < key[q[j]]
  BY <1>3, <1>6
<1> HIDE DEF key, n
<1>11. q = SortedBy(RowsOf(t), key)
  <2> DEFINE S == RowsOf(t)
  <2>1. /\ q \in [1 .. Cardinality(S) -> S]
        /\ \A i, j \in 1 .. Cardinality(S) : i < j => key[q[i]] < key[q[j]]
    BY <1>7, <1>9, <1>10
  <2>2. IsFiniteSet(S) /\ \A r \in S : key[r] \in Int
    BY <1>9, <1>10
  <2> HIDE DEF S
  <2>3. q = SortedBy(S, key)
    BY <2>1, <2>2, IncreasingIsSorted
  <2> QED
    BY <2>3 DEF S
<1>12. /\ DOMAIN q = DOMAIN Compiled[t]
       /\ \A i \in DOMAIN Compiled[t] : q[i].index = i /\ Resolves(q[i], t)
  BY <1>1, <1>3, <1>6, <1>7
<1> QED
  BY <1>11, <1>12 DEF key

\* What is in the tables reads as the chain has it.
LEMMA Reading == IInv => ReadBack
<1> SUFFICES ASSUME IInv, NEW t \in Transactions, signatureId[t] # 0
             PROVE  /\ Visible(t)
                    /\ Get(t) = [i \in DOMAIN Compiled[t] |->
                         LET ix == Compiled[t][i]
                         IN  [program  |-> KeyAt(t, ix.program),
                              accounts |-> FirstOccurrences(
                                [k \in DOMAIN ix.accounts |-> KeyAt(t, ix.accounts[k])])]]
  BY DEF ReadBack
<1>1. Visible(t)
  BY DEF IInv, RowsInv
<1> DEFINE rows == SortedBy(RowsOf(t), [r \in RowsOf(t) |-> r.index])
<1>2. /\ DOMAIN rows = DOMAIN Compiled[t]
      /\ \A i \in DOMAIN Compiled[t] : rows[i].index = i /\ Resolves(rows[i], t)
  BY SortedRows
<1>3. Get(t) = [i \in DOMAIN rows |-> [program  |-> AddressOf(rows[i].program),
                                      accounts |-> SelectAccounts(rows[i].accounts)]]
  BY DEF Get
<1> HIDE DEF rows
<1>4. ASSUME NEW i \in DOMAIN Compiled[t]
      PROVE  LET ix == Compiled[t][i]
             IN  /\ AddressOf(rows[i].program) = KeyAt(t, ix.program)
                 /\ SelectAccounts(rows[i].accounts) =
                      FirstOccurrences([k \in DOMAIN ix.accounts |-> KeyAt(t, ix.accounts[k])])
  <2> DEFINE ix == Compiled[t][i]
             s == [k \in DOMAIN ix.accounts |-> KeyAt(t, ix.accounts[k])]
             ids == rows[i].accounts
             n == Len(ix.accounts)
  <2>1. CompiledBy(t, ix)
    BY IxsKeys
  <2>2. /\ n \in Nat
        /\ DOMAIN ix.accounts = 1 .. n
        /\ ix.program \in 1 .. Keys(t)
        /\ \A k \in 1 .. n : ix.accounts[k] \in 1 .. Keys(t)
    BY <2>1, LenProperties, ElementOfSeq DEF CompiledBy
  <2>3. KeyAt(t, ix.program) \in Addresses /\ s \in [1 .. n -> Addresses]
    BY <2>2, KeyInserted
  <2>4. /\ Names(rows[i].program, KeyAt(t, ix.program))
        /\ DOMAIN ids = 1 .. n
        /\ \A k \in 1 .. n : Names(ids[k], s[k])
    BY <1>2, <2>2 DEF Resolves
  <2>5. AddressOf(rows[i].program) = KeyAt(t, ix.program)
    BY <2>3, <2>4 DEF AddressOf, Names
  <2>6. DOMAIN addressId = Addresses
    BY DEF IInv, TypeOK
  <2> HIDE DEF s, ids, n
  <2>7. SelectAccounts(ids) = FirstOccurrences(s)
    BY <2>2, <2>3, <2>4, <2>6, SelectedAccounts
  <2> QED
    BY <2>5, <2>7 DEF s, ids
<1> QED
  BY <1>1, <1>2, <1>3, <1>4

-----------------------------------------------------------------------------
(* The theorems. *)

\* What saveTransactions holds belongs to one call of it, its ids are the
\* sequences', and no row refers to one that is not there (db.go:68-142).
THEOREM TypeCorrect == Spec => []TypeOK
<1>1. IInv => TypeOK
  BY DEF IInv
<1> QED
  BY Invariance, <1>1, PTL

\* Each id stored for an instruction or a transaction names the address that the
\* chain names at that place, in whatever order ids are given out, clients
\* insert addresses and batches are rolled back (wallet_sync.go:200-325).
THEOREM IdsAlwaysResolve == Spec => []IdsResolve
<1>1. IInv => IdsResolve
  BY DEF IInv
<1> QED
  BY Invariance, <1>1, PTL

\* The assertions "invalid update" of prepareInsertableComponents never fail
\* (wallet_sync.go:211, 215, 235, 251).
THEOREM UpdatesAreValid == Spec => []UpdateIsValid
  BY Invariance, ValidUpdates, PTL

\* Whoever asks for a signature that has been inserted gets its transaction with
\* all its instructions, in order and with the program and the accounts the chain
\* has, each account at its first place: the ORDER BYs undo whatever order rows
\* and ids came in (transactions.Get, db.go:242-300).
THEOREM WhatIsSavedIsReadBack == Spec => []ReadBack
  BY Invariance, Reading, PTL

\* Each statement is a step of SavedBatches or a stutter.
LEMMA BatchesStep == IInv /\ IInv' /\ [Next]_vars => [Saved!Next]_Saved!vars
<1> SUFFICES ASSUME IInv, IInv', [Next]_vars PROVE [Saved!Next]_Saved!vars
  OBVIOUS
<1> USE DEF Saved!Next, Saved!vars, Saved!Take, Saved!Save, Saved!Drop, tables
<1>1. Range(batch) \subseteq Transactions /\ Range(batch') \subseteq Transactions
  <2>1. batch \in Batches /\ (batch \in Batches)'
    BY DEF IInv, TypeOK
  <2>2. Range(batch) \subseteq Transactions
    BY <2>1, BatchType
  <2>3. (Range(batch) \subseteq Transactions)'
    BY <2>1, BatchType, PTL
  <2> QED
    BY <2>2, <2>3
<1>2. pc = "idle" => Range(batch) = {}
  BY EmptyBatch DEF IInv, TypeOK
<1>3. ASSUME NEW b \in Batches, Begin(b) PROVE [Saved!Next]_Saved!vars
  BY <1>1, <1>2, <1>3 DEF Begin
<1>4. CASE Forget /\ UNCHANGED signatureId
  BY <1>4, EmptyBatch DEF Forget
<1>5. CASE Write /\ \A t \in Range(batch) : ValidUpdate(t) /\ ~Rejected(t)
  <2>1. \A t \in Transactions : signatures[t] # 0 <=> t \in Range(batch)
    BY <1>5 DEF IInv, SignatureInv, Write
  <2>2. \A t \in Transactions :
          signatureId'[t] # 0 <=> signatureId[t] # 0 \/ t \in Range(batch)
    BY <1>5, <2>1, Commit
  <2>3. \A t \in Range(batch) : signatureId[t] = 0 /\ ~Rejected(t)
    BY <1>1, <1>5, <2>1 DEF IInv, SignatureInv
  <2>4. Range(batch') = {}
    BY <1>5, EmptyBatch DEF Write, Forget
  <2> QED
    BY <1>1, <2>2, <2>3, <2>4
<1>6. CASE UNCHANGED <<batch, signatureId>>
  BY <1>6
<1> QED
  BY <1>3, <1>4, <1>5, <1>6
  DEF Next, SaveSignatures, SelectAddresses, InsertAddresses, Write, Kill, End,
      InsertAddress, vars

\* A batch, with its signatures, addresses, transactions and instructions, comes
\* into the database as a whole, once, or not at all.
THEOREM Refinement == Spec => ImplementsBatches
<1>1. Init => Saved!Init
  BY EmptyBatch DEF Init, NoSignatures, Saved!Init
<1> QED
  BY Invariance, <1>1, BatchesStep, PTL DEF Spec, ImplementsBatches, Saved!Spec

=============================================================================
