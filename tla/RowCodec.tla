------------------------------ MODULE RowCodec ------------------------------
(***************************************************************************)
(* A transaction's way into the tables and back: from what the RPC node    *)
(* answers (fetchTransaction) through the statements of saveTransactions   *)
(* to what transactions.Get makes of the rows.                             *)
(*                                                                         *)
(* The chain names an account by its place in the keys of the transaction, *)
(* the code by its address and the tables by an id, which depends on who   *)
(* inserts addresses when: this writer, in a database transaction that may *)
(* be rolled back, or clients, who insert the addresses of their wallets.  *)
(* Indexes begin at 1 here.                                                *)
(***************************************************************************)
EXTENDS Sorting, SequencesExt

CONSTANTS
  Transactions,
  Addresses,
  Static,     \* Static[t]: AccountKeys of t's message
  Writable,   \* Writable[t], ReadOnly[t]: addresses its lookup tables load
  ReadOnly,
  Compiled,   \* Compiled[t]: its instructions, by places among its keys
  Inner,      \* Inner[t][i]: the inner instructions of the i-th, likewise
  MaxLength,  \* bound: transactions of a batch
  MaxBatches  \* bound: batches ever begun

Keys(t) == Len(Static[t]) + Len(Writable[t]) + Len(ReadOnly[t])

CompiledBy(t, ix) ==
  /\ ix.program \in 1 .. Keys(t)
  /\ ix.accounts \in Seq(1 .. Keys(t))

ASSUME RowCodecAssumption ==
  /\ IsFiniteSet(Addresses)
  /\ Static \in [Transactions -> Seq(Addresses)]
  /\ Writable \in [Transactions -> Seq(Addresses)]
  /\ ReadOnly \in [Transactions -> Seq(Addresses)]
  /\ \A t \in Transactions :
       /\ Compiled[t] \in Seq(Range(Compiled[t]))
       /\ \A i \in DOMAIN Compiled[t] : CompiledBy(t, Compiled[t][i])
       /\ DOMAIN Inner[t] = DOMAIN Compiled[t]
       /\ \A i \in DOMAIN Inner[t] :
            /\ Inner[t][i] \in Seq(Range(Inner[t][i]))
            /\ \A j \in DOMAIN Inner[t][i] : CompiledBy(t, Inner[t][i][j])
  /\ MaxLength \in Nat
  /\ MaxBatches \in Nat

VARIABLES
  addressId,     \* table address: addressId[a], 0 when a has no row
  signatureId,   \* table signature, likewise
  transaction,   \* tables transaction
  instruction,   \* and instruction
  nextAddress,   \* the sequences behind the ids
  nextSignature,
  pc,            \* the next statement of saveTransactions
  batch,         \* u.transactions
  signatures,    \* insertedSignatures: the id of a signature, 0 when it is not there
  accounts,      \* insertedAccounts, likewise
  batches        \* batches begun so far

tables == <<addressId, signatureId, transaction, instruction>>
vars   == <<tables, nextAddress, nextSignature, pc, batch, signatures, accounts,
            batches>>

NoSignatures == [t \in Transactions |-> 0]
NoAccounts   == [a \in Addresses |-> 0]

Init ==
  /\ addressId = NoAccounts
  /\ signatureId = NoSignatures
  /\ transaction = {}
  /\ instruction = {}
  /\ nextAddress = 1
  /\ nextSignature = 1
  /\ pc = "idle"
  /\ batch = <<>>
  /\ signatures = NoSignatures
  /\ accounts = NoAccounts
  /\ batches = 0

-----------------------------------------------------------------------------
(* fetchTransaction. *)

\* Mutant: the loaded addresses in the other order.
DecompileAccountsSwapped(t) == Static[t] \o ReadOnly[t] \o Writable[t]

DecompileAccounts(t) == Static[t] \o Writable[t] \o ReadOnly[t]

SetFromCompiled(ix, keys) ==
  [program  |-> keys[ix.program],
   accounts |-> [k \in DOMAIN ix.accounts |-> keys[ix.accounts[k]]]]

\* The instructions of t and those inside them.
Ixs(t) ==
  [i \in DOMAIN Compiled[t] |-> SetFromCompiled(Compiled[t][i], DecompileAccounts(t))]

InnerIxs(t) ==
  [i \in DOMAIN Inner[t] |->
     [j \in DOMAIN Inner[t][i] |->
        SetFromCompiled(Inner[t][i][j], DecompileAccounts(t))]]

\* An inner instruction is inserted into a table without its column, and one
\* without accounts has NULL for their list.
Rejected(t) ==
  \E i \in DOMAIN Ixs(t) : InnerIxs(t)[i] # <<>> \/ Ixs(t)[i].accounts = <<>>

-----------------------------------------------------------------------------
(* saveTransactions: one database transaction. *)

\* Mutant: the loaded addresses are forgotten.
InsertableAddressesStatic(b) == UNION {Range(Static[t]) : t \in Range(b)}

InsertableAddresses(b) == UNION {Range(DecompileAccounts(t)) : t \in Range(b)}

\* Mutant: insertedAccounts outlives the update.
ForgetSignatures ==
  /\ pc' = "idle"
  /\ batch' = <<>>
  /\ signatures' = NoSignatures
  /\ UNCHANGED <<accounts, batches>>

Forget ==
  /\ pc' = "idle"
  /\ batch' = <<>>
  /\ signatures' = NoSignatures
  /\ accounts' = NoAccounts
  /\ UNCHANGED batches

\* An assertion fails, the process ends and its transaction is rolled back; the
\* operator starts it again.  Ids taken from a sequence are not given back.
End == Forget /\ UNCHANGED tables

Begin(b) ==
  /\ pc = "idle"
  /\ batches < MaxBatches
  /\ batches' = batches + 1
  /\ batch' = b
  /\ pc' = "signatures"
  /\ UNCHANGED <<tables, nextAddress, nextSignature, signatures, accounts>>

SignatureConflict ==
  \/ \E t \in Range(batch) : signatureId[t] # 0
  \/ ~IsInjective(batch)

\* Where the batch has t: ids are given out in this order.
Place(t) == CHOOSE i \in DOMAIN batch : batch[i] = t

\* Mutant: the signatures are inserted outside the transaction.
SaveSignaturesAtOnce ==
  /\ pc = "signatures"
  /\ ~SignatureConflict
  /\ nextSignature' = nextSignature + Len(batch)
  /\ signatures' = [t \in Transactions |->
                      IF t \in Range(batch)
                      THEN nextSignature + Place(t) - 1
                      ELSE 0]
  /\ signatureId' = [t \in Transactions |->
                       IF t \in Range(batch) THEN signatures'[t] ELSE signatureId[t]]
  /\ pc' = "select"
  /\ UNCHANGED <<addressId, transaction, instruction, nextAddress, batch, accounts,
                 batches>>

SaveSignatures ==
  /\ pc = "signatures"
  /\ \/ /\ SignatureConflict
        /\ nextSignature' \in nextSignature .. nextSignature + Len(batch)
        /\ End
     \/ /\ ~SignatureConflict
        /\ nextSignature' = nextSignature + Len(batch)
        /\ signatures' = [t \in Transactions |->
                            IF t \in Range(batch)
                            THEN nextSignature + Place(t) - 1
                            ELSE 0]
        /\ pc' = "select"
        /\ UNCHANGED <<tables, batch, accounts, batches>>
  /\ UNCHANGED nextAddress

SelectAddresses ==
  /\ pc = "select"
  /\ accounts' = [a \in Addresses |->
                    IF a \in InsertableAddresses(batch) THEN addressId[a] ELSE 0]
  /\ pc' = "insert"
  /\ UNCHANGED <<tables, nextAddress, nextSignature, batch, signatures, batches>>

UnsavedAddresses == {a \in InsertableAddresses(batch) : accounts[a] = 0}

Unused == nextAddress + Cardinality(UnsavedAddresses)

\* In the order of a Go map, that is in any.
NewIds == Injection(UnsavedAddresses, nextAddress .. Unused - 1)

InsertAddresses ==
  /\ pc = "insert"
  /\ \/ /\ \E a \in UnsavedAddresses : addressId[a] # 0
        /\ nextAddress' \in nextAddress .. Unused
        /\ End
     \/ /\ \A a \in UnsavedAddresses : addressId[a] = 0
        /\ nextAddress' = Unused
        /\ \E id \in NewIds :
              accounts' = [a \in Addresses |->
                             IF a \in UnsavedAddresses THEN id[a] ELSE accounts[a]]
        /\ pc' = "write"
        /\ UNCHANGED <<tables, batch, signatures, batches>>
  /\ UNCHANGED nextSignature

\* The list begins with as many zeros as it has accounts.
TransactionRow(t) ==
  LET keys == DecompileAccounts(t)
  IN  [signature |-> signatures[t],
       accounts  |-> [k \in 1 .. 2 * Len(keys) |->
                        IF k <= Len(keys) THEN 0 ELSE accounts[keys[k - Len(keys)]]]]

PrepareForInsert(t, i) ==
  [signature |-> signatures[t],
   index     |-> i,
   program   |-> accounts[Ixs(t)[i].program],
   accounts  |-> [k \in DOMAIN Ixs(t)[i].accounts |-> accounts[Ixs(t)[i].accounts[k]]]]

InstructionRows(t) == {PrepareForInsert(t, i) : i \in DOMAIN Ixs(t)}

\* getId finds the accounts of an instruction.
Found(ix) == accounts[ix.program] # 0 /\ \A a \in Range(ix.accounts) : accounts[a] # 0

ValidUpdate(t) ==
  /\ signatures[t] # 0
  /\ \A a \in Range(DecompileAccounts(t)) : accounts[a] # 0
  /\ \A i \in DOMAIN Ixs(t) :
       Found(Ixs(t)[i]) /\ \A j \in DOMAIN InnerIxs(t)[i] : Found(InnerIxs(t)[i][j])

\* The other INSERTs and COMMIT.  What this transaction has inserted is visible
\* to others from then on.
Write ==
  /\ pc = "write"
  /\ IF \A t \in Range(batch) : ValidUpdate(t) /\ ~Rejected(t)
     THEN /\ signatureId' = [t \in Transactions |->
                               IF signatures[t] # 0 THEN signatures[t] ELSE signatureId[t]]
          /\ addressId' = [a \in Addresses |->
                             IF accounts[a] # 0 THEN accounts[a] ELSE addressId[a]]
          /\ transaction' = transaction \cup {TransactionRow(t) : t \in Range(batch)}
          /\ instruction' = instruction \cup UNION {InstructionRows(t) : t \in Range(batch)}
     ELSE UNCHANGED tables
  /\ Forget
  /\ UNCHANGED <<nextAddress, nextSignature>>

Kill ==
  /\ pc # "idle"
  /\ End
  /\ UNCHANGED <<nextAddress, nextSignature>>

\* A client inserts an address.  One the writer has inserted and not committed
\* makes it wait, and then fail or find the row gone.
InsertAddress(a) ==
  /\ addressId[a] = 0
  /\ pc = "write" => accounts[a] = 0
  /\ addressId' = [addressId EXCEPT ![a] = nextAddress]
  /\ nextAddress' = nextAddress + 1
  /\ UNCHANGED <<signatureId, transaction, instruction, nextSignature, pc, batch,
                 signatures, accounts, batches>>

Batches == BoundedSeq(Transactions, MaxLength)

Next ==
  \/ \E b \in Batches : Begin(b)
  \/ SaveSignatures
  \/ SelectAddresses
  \/ InsertAddresses
  \/ Write
  \/ Kill
  \/ \E a \in Addresses : InsertAddress(a)

Spec == Init /\ [][Next]_vars

-----------------------------------------------------------------------------
(* transactions.Get. *)

AddressIds == Range(addressId) \ {0}

AddressOf(id) == CHOOSE a \in Addresses : addressId[a] = id

\* array_position.
Ord(ids, id) == CHOOSE k \in DOMAIN ids : ids[k] = id /\ \A l \in 1 .. k - 1 : ids[l] # id

\* address.id = ANY(ids).
Matching(ids) == Range(ids) \cap AddressIds

\* Mutant: without its ORDER BY, as the primary key gives them.
SelectAccountsById(ids) ==
  LET sorted == SortedBy(Matching(ids), [id \in Matching(ids) |-> id])
  IN  [k \in DOMAIN sorted |-> AddressOf(sorted[k])]

\* selectAccountsCoalesce, ORDER BY ord.
SelectAccounts(ids) ==
  LET sorted == SortedBy(Matching(ids), [id \in Matching(ids) |-> Ord(ids, id)])
  IN  [k \in DOMAIN sorted |-> AddressOf(sorted[k])]

RowsOf(t) ==
  {r \in instruction : r.signature = signatureId[t] /\ r.program \in AddressIds}

\* The instructions of t that are read back, in the order of their index.
Get(t) ==
  LET sorted == SortedBy(RowsOf(t), [r \in RowsOf(t) |-> r.index])
  IN  [i \in DOMAIN sorted |-> [program  |-> AddressOf(sorted[i].program),
                                accounts |-> SelectAccounts(sorted[i].accounts)]]

Visible(t) == signatureId[t] # 0 /\ \E r \in transaction : r.signature = signatureId[t]

-----------------------------------------------------------------------------
(* Properties. *)

\* The ids are of the sequences; insertedSignatures and insertedAccounts belong
\* to one call of saveTransactions; the rows refer to rows that are there.
TypeOK ==
  /\ nextAddress \in Nat \ {0}
  /\ nextSignature \in Nat \ {0}
  /\ addressId \in [Addresses -> 0 .. nextAddress - 1]
  /\ signatureId \in [Transactions -> 0 .. nextSignature - 1]
  /\ pc \in {"idle", "signatures", "select", "insert", "write"}
  /\ batch \in Batches
  /\ signatures \in [Transactions -> 0 .. nextSignature - 1]
  /\ accounts \in [Addresses -> 0 .. nextAddress - 1]
  /\ pc = "idle" => batch = <<>>
  /\ pc \in {"idle", "signatures"} => signatures = NoSignatures
  /\ pc \in {"idle", "signatures", "select"} => accounts = NoAccounts
  /\ \A r \in transaction \cup instruction : r.signature \in Range(signatureId) \ {0}
  /\ \A r \in instruction : r.program \in AddressIds
  /\ batches \in 0 .. MaxBatches

\* Where the chain says an instruction's account is: the keys of the message,
\* then the loaded ones that may be written, then the others.
KeyAt(t, k) ==
  LET s == Len(Static[t])
      w == s + Len(Writable[t])
  IN  IF k <= s THEN Static[t][k]
      ELSE IF k <= w THEN Writable[t][k - s]
      ELSE ReadOnly[t][k - w]

\* An id that is address a's and no other's.
Names(id, a) ==
  /\ id # 0
  /\ addressId[a] = id
  /\ \A b \in Addresses : addressId[b] = id => b = a

\* The row is of t's instruction as the chain has it.
Resolves(r, t) ==
  LET ix == Compiled[t][r.index]
  IN  /\ r.index \in DOMAIN Compiled[t]
      /\ Names(r.program, KeyAt(t, ix.program))
      /\ DOMAIN r.accounts = DOMAIN ix.accounts
      /\ \A k \in DOMAIN ix.accounts : Names(r.accounts[k], KeyAt(t, ix.accounts[k]))

\* The row lists t's keys, behind as many zeros.
ListsKeys(r, t) ==
  /\ DOMAIN r.accounts = 1 .. 2 * Keys(t)
  /\ \A k \in 1 .. Keys(t) : r.accounts[k] = 0 /\ Names(r.accounts[Keys(t) + k], KeyAt(t, k))

\* The ids stored for an instruction's program and accounts name, each at its
\* place, the addresses the chain names there: whichever of them were there
\* before, came with the batch, or were inserted by clients meanwhile, and
\* whatever batches with the same addresses were rolled back.  Those stored for a
\* transaction name its keys, but for the zeros before them.
IdsResolve ==
  /\ \A r \in instruction : \E t \in Transactions :
       signatureId[t] = r.signature /\ Resolves(r, t)
  /\ \A r \in transaction : \E t \in Transactions :
       signatureId[t] = r.signature /\ ListsKeys(r, t)

\* The places of s where something is that is nowhere before.
Firsts(s) == {k \in DOMAIN s : \A l \in 1 .. k - 1 : s[l] # s[k]}

\* The first occurrences of what is in s.
FirstOccurrences(s) ==
  LET place == SortedBy(Firsts(s), [k \in Firsts(s) |-> k])
  IN  [i \in DOMAIN place |-> s[place[i]]]

\* What is saved is read back: a signature has its transaction and all its
\* instructions in their order, each with its program and with its accounts in
\* theirs, but an account that comes again only at its first place.  (db_test.go
\* expects it at each: AccountsAsListed.)
ReadBack ==
  \A t \in Transactions : signatureId[t] # 0 =>
    /\ Visible(t)
    /\ Get(t) = [i \in DOMAIN Compiled[t] |->
                   LET ix == Compiled[t][i]
                   IN  [program  |-> KeyAt(t, ix.program),
                        accounts |-> FirstOccurrences(
                          [k \in DOMAIN ix.accounts |-> KeyAt(t, ix.accounts[k])])]]

\* An instruction is read back with the list of accounts it was saved with: the
\* test of transactions.Get seeds the ids of a0, a1, a0 and expects these three
\* (db_test.go:100-104).  The code returns each account once.
AccountsAsListed ==
  \A t \in Transactions : Visible(t) =>
    \A i \in DOMAIN Get(t) :
      Get(t)[i].accounts = [k \in DOMAIN Compiled[t][i].accounts |->
                              KeyAt(t, Compiled[t][i].accounts[k])]

\* The assertions "invalid update" hold: all that prepareInsertableComponents
\* looks for has been selected or inserted.
UpdateIsValid == pc = "write" => \A t \in Range(batch) : ValidUpdate(t)

\* The five statements, rolled back wherever they end, add a batch as a whole or
\* not at all.
Saved ==
  INSTANCE SavedBatches
    WITH saved      <- {t \in Transactions : signatureId[t] # 0},
         batch      <- Range(batch),
         Acceptable <- {t \in Transactions : ~Rejected(t)}

ImplementsBatches == Saved!Spec

=============================================================================
