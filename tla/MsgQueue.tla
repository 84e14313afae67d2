------------------------------ MODULE MsgQueue ------------------------------
(***************************************************************************)
(* msgQueue.walk and processMessages as the loop they are.  WalletSync     *)
(* says in one formula, Taken, which messages a batch takes; here the loop *)
(* goes over the slice by an index, deletes under it, and stops early.     *)
(***************************************************************************)
EXTENDS WalletSync, Sorting, SequencesExt

\* msgQueue.items: position is only the order of the slice.
Items == SortedBy(queue, [m \in queue |-> m.pos])

\* The update of processMessages before the walk.
EmptyUpdate ==
  [walletId |-> NoWallet, transactions |-> <<>>, signaturesIds |-> <<>>,
   lastSignature |-> NoSignature]

ExitEarly(u) ==
  \/ Len(u.signaturesIds) > BatchCap
  \/ Len(u.transactions) > BatchCap

Wanted(u, msg) == u.walletId \in {msg.wallet, NoWallet}

Collect(u, msg) ==
  LET v == [u EXCEPT !.walletId = msg.wallet]
  IN  CASE msg.kind = "onchain" -> [v EXCEPT !.transactions = Append(@, msg)]
        [] msg.kind = "saved"   -> [v EXCEPT !.signaturesIds = Append(@, msg.sig)]
        [] msg.kind = "last"    -> [v EXCEPT !.lastSignature = msg.sig]

\* Mutant: the index moves on past the message that slides into the gap.
TurnSkipping(l) ==
  IF l.i > Len(l.items) \/ ExitEarly(l.u) THEN l
  ELSE IF Wanted(l.u, l.items[l.i])
       THEN [items |-> RemoveAt(l.items, l.i), i |-> l.i + 1,
             u |-> Collect(l.u, l.items[l.i])]
       ELSE [l EXCEPT !.i = @ + 1]

\* A turn of the loop.
Turn(l) ==
  IF l.i > Len(l.items) \/ ExitEarly(l.u) THEN l
  ELSE IF Wanted(l.u, l.items[l.i])
       THEN [items |-> RemoveAt(l.items, l.i), i |-> l.i,
             u |-> Collect(l.u, l.items[l.i])]
       ELSE [l EXCEPT !.i = @ + 1]

BeforeLoop == [items |-> Items, i |-> 1, u |-> EmptyUpdate]

\* After so many turns of the loop; once it has returned a turn changes nothing.
Turns[k \in Nat] == IF k = 0 THEN BeforeLoop ELSE Turn(Turns[k - 1])

\* A turn is one message's: there are no more of them than messages.
Walk == Turns[Cardinality(queue)]

-----------------------------------------------------------------------------

\* The batch the writer works on is what the loop collects, and what the loop
\* does not collect it leaves, in order: deleting under the index skips nothing,
\* the early exit comes after the same message, other wallets' messages before
\* and between are passed over, and of several cursors the last one stays.
WalksTheQueue ==
  [][ProcessMessages =>
       LET u == Walk.u
       IN  /\ uwallet' = u.walletId
           /\ utxs' = Range(u.transactions)
           /\ uids' = Range(u.signaturesIds)
           /\ ulast' = u.lastSignature
           /\ Items' = Walk.items]_vars

=============================================================================
