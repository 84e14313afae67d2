---------------------------- MODULE MCWalletSync ----------------------------
(***************************************************************************)
(* Instances of WalletSync small enough for TLC: one or two wallets and a  *)
(* chain of up to three transactions.  Each run chooses which of them two  *)
(* wallets share and which the schema rejects.                             *)
(***************************************************************************)
EXTENDS MsgQueue

CONSTANTS w1, w2

OneWallet == {w1}

TwoWallets == {w1, w2}

(* Involves *)

\* Every transaction is w1's.
Own == <<{w1}, {w1}, {w1}>>

\* No transaction mentions both wallets.
Disjoint == <<{w1}, {w2}, {w1}>>

\* The middle transaction mentions both: w1 may find it saved by w2, between
\* two of its own that are not, or the other way round.
SharedTransaction == <<{w1}, {w1, w2}, {w1}>>

(* Rejected *)

NoneRejected == {}

LastIsRejected == {3}

(* Disturbances *)

Calm == {}

KillOnly == {"kill"}

KillAndCancel == {"kill", "cancel"}

=============================================================================
