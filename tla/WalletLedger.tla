---------------------------- MODULE WalletLedger ----------------------------
(***************************************************************************)
(* What the wallet synchronisation promises to a reader of the database,   *)
(* whatever the goroutines, crashes and repeated requests behind it:       *)
(*                                                                         *)
(*   - the transactions of a wallet are linked to it (wallet_to_signature) *)
(*     only when the chain says they are its own, and never unlinked;      *)
(*   - wallet.signatures is counted in the same database transaction as    *)
(*     the links it counts;                                                *)
(*   - wallet.last_signature_id, the cursor from which the next            *)
(*     synchronisation starts, only moves forward, and only to a           *)
(*     transaction up to which everything is linked.                       *)
(*                                                                         *)
(* The chain is a sequence of transactions numbered from 1, in the order   *)
(* in which they were confirmed; Involves[s] is the set of wallets whose   *)
(* address transaction s mentions.                                         *)
(***************************************************************************)
EXTENDS Integers, FiniteSets

CONSTANTS
  Wallets,     \* the rows of table wallet
  MaxHeight,   \* bound: transactions the chain ever holds
  Involves     \* Involves[s]: the wallets transaction s mentions

ASSUME LedgerAssumption ==
  /\ MaxHeight \in Nat
  /\ Involves \in [1..MaxHeight -> SUBSET Wallets]

VARIABLES
  height,      \* transactions 1..height are confirmed
  links,       \* wallet_to_signature, a set of <<wallet, transaction>>
  signatures,  \* signatures[w]: wallet.signatures
  last         \* last[w]: wallet.last_signature_id, 0 for NULL

ledgerVars == <<height, links, signatures, last>>

NoSignature == 0

\* The confirmed transactions of wallet w.
History(w) == {s \in 1..height : w \in Involves[s]}

Linked(w) == {s \in 1..height : <<w, s>> \in links}

\* Everything of wallet w up to transaction s is linked.
CoveredUpTo(w, s) == \A t \in History(w) : t <= s => <<w, t>> \in links

Init ==
  /\ height \in 0..MaxHeight
  /\ links = {}
  /\ signatures = [w \in Wallets |-> 0]
  /\ last = [w \in Wallets |-> NoSignature]

Confirm ==
  /\ height < MaxHeight
  /\ height' = height + 1
  /\ UNCHANGED <<links, signatures, last>>

Link(w, S) ==
  /\ S \subseteq History(w)
  /\ links' = links \cup ({w} \X S)
  /\ signatures' = [signatures EXCEPT ![w] = @ + Cardinality(S \ Linked(w))]
  /\ UNCHANGED <<height, last>>

MoveCursor(w, s) ==
  /\ s \in History(w)
  /\ last[w] <= s
  /\ CoveredUpTo(w, s)
  /\ last' = [last EXCEPT ![w] = s]
  /\ UNCHANGED <<height, links, signatures>>

Next ==
  \/ Confirm
  \/ \E w \in Wallets :
        \/ \E S \in SUBSET History(w) : Link(w, S)
        \/ \E s \in History(w) : MoveCursor(w, s)

Spec == Init /\ [][Next]_ledgerVars

-----------------------------------------------------------------------------
(* What the ledger guarantees. *)

\* A wallet is never credited with a transaction that does not mention it:
\* processMessages keeps the messages of several wallets apart.
LinksAreOwn == \A l \in links : l[2] \in 1..height /\ l[1] \in Involves[l[2]]

\* wallet.signatures is the number of transactions linked to the wallet: what
\* updateUser adds to it never counts a row that was already there, although
\* the same transaction is linked again after a crash or a second request.
CountMatchesLinks == \A w \in Wallets : signatures[w] = Cardinality(Linked(w))

\* Nothing at or below wallet.last_signature_id is missing: fetchAndParse asks
\* only for what is newer, so what is missing below it would never be linked.
CursorCovers == \A w \in Wallets : CoveredUpTo(w, last[w])

\* wallet.last_signature_id never moves back to an older transaction or to
\* NULL, whatever cursor message or failed lookup updateUser works from.
CursorMovesForward == [][\A w \in Wallets : last'[w] >= last[w]]_last

=============================================================================
