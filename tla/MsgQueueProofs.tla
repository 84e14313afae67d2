--------------------------- MODULE MsgQueueProofs ---------------------------
(***************************************************************************)
(* The loop of msgQueue.walk collects what Taken says, for queues of any   *)
(* length: by induction on its turns.  What it has seen is a part D of the *)
(* queue that goes on growing, one message a turn, until the early exit.   *)
(***************************************************************************)
EXTENDS MsgQueue, WalletBatchProofs, SortingLemmas, SequenceTheorems

-----------------------------------------------------------------------------
(* Turns is the function its definition reads as. *)

\* g goes over the first n turns.
GoesOver(g, n) == g[0] = BeforeLoop /\ \A k \in 1 .. n : g[k] = Turn(g[k - 1])

\* There is a function that goes over any number of turns.
LEMMA SomethingGoesOver == \A n \in Nat : \E g : GoesOver(g, n)
<1> DEFINE T == {n \in Nat : ~ \E g : GoesOver(g, n)}
<1> SUFFICES ASSUME T # {} PROVE FALSE
  OBVIOUS
<1>1. PICK n \in T : \A k \in T : n <= k
  BY Smallest
<1>2. n # 0
  <2>1. GoesOver([k \in {0} |-> BeforeLoop], 0)
    BY DEF GoesOver
  <2> QED
    BY <1>1, <2>1
<1>3. n \in Nat /\ n - 1 \in Nat /\ n - 1 \notin T
  BY <1>1, <1>2
<1>4. PICK g : GoesOver(g, n - 1)
  BY <1>3
<1> DEFINE h == [k \in 0 .. n |-> IF k = n THEN Turn(g[n - 1]) ELSE g[k]]
<1>5. h[0] = BeforeLoop
  BY <1>2, <1>3, <1>4 DEF GoesOver
<1>6. ASSUME NEW k \in 1 .. n PROVE h[k] = Turn(h[k - 1])
  <2>1. k \in 0 .. n /\ k - 1 \in 0 .. n /\ k - 1 # n
    BY <1>3
  <2>2. h[k - 1] = g[k - 1]
    BY <2>1
  <2>3. CASE k = n
    BY <2>1, <2>2, <2>3
  <2>4. CASE k # n
    <3>1. k \in 1 .. n - 1 /\ h[k] = g[k]
      BY <1>3, <2>1, <2>4
    <3> QED
      BY <1>4, <2>2, <3>1 DEF GoesOver
  <2> QED
    BY <2>3, <2>4
<1> HIDE DEF h
<1>7. GoesOver(h, n)
  BY <1>5, <1>6 DEF GoesOver
<1> QED
  BY <1>1, <1>7

\* Two functions agree on the turns they both go over.
LEMMA SameTurns ==
  ASSUME NEW m \in Nat, NEW n \in Nat, NEW g, NEW h, GoesOver(g, m), GoesOver(h, n),
         NEW k \in Nat, k <= m, k <= n
  PROVE  g[k] = h[k]
<1> DEFINE T == {j \in Nat : j <= m /\ j <= n /\ g[j] # h[j]}
<1> SUFFICES ASSUME T # {} PROVE FALSE
  OBVIOUS
<1>1. PICK j \in T : \A i \in T : j <= i
  BY Smallest
<1>2. j # 0
  BY <1>1 DEF GoesOver
<1>3. j \in 1 .. m /\ j \in 1 .. n /\ j - 1 \in Nat /\ j - 1 \notin T
  BY <1>1, <1>2
<1>4. g[j - 1] = h[j - 1]
  BY <1>3
<1>5. g[j] = Turn(g[j - 1]) /\ h[j] = Turn(h[j - 1])
  BY <1>3 DEF GoesOver
<1> QED
  BY <1>1, <1>4, <1>5

\* The equations of Turns have a solution, and so Turns is one.
LEMMA TurnsDefined == Turns[0] = BeforeLoop /\ \A k \in Nat : Turns[k + 1] = Turn(Turns[k])
<1> DEFINE over(n) == CHOOSE g : GoesOver(g, n)
           h == [n \in Nat |-> over(n)[n]]
<1>1. \A n \in Nat : GoesOver(over(n), n)
  BY SomethingGoesOver
<1>2. h[0] = BeforeLoop
  BY <1>1 DEF GoesOver
<1>3. ASSUME NEW n \in Nat, n # 0 PROVE h[n] = Turn(h[n - 1])
  <2>1. n - 1 \in Nat /\ n \in 1 .. n /\ n - 1 <= n
    BY <1>3
  <2>2. over(n)[n] = Turn(over(n)[n - 1])
    BY <1>1, <2>1 DEF GoesOver
  <2> DEFINE g1 == over(n)
             g2 == over(n - 1)
  <2>3. GoesOver(g1, n) /\ GoesOver(g2, n - 1)
    BY <1>1, <2>1
  <2> HIDE DEF g1, g2
  <2>4. g1[n - 1] = g2[n - 1]
    BY <2>1, <2>3, SameTurns
  <2> QED
    BY <2>1, <2>2, <2>4 DEF g1, g2
<1> HIDE DEF over
<1>4. h = [k \in Nat |-> IF k = 0 THEN BeforeLoop ELSE Turn(h[k - 1])]
  BY <1>2, <1>3
<1> HIDE DEF h
<1>5. Turns = [k \in Nat |-> IF k = 0 THEN BeforeLoop ELSE Turn(Turns[k - 1])]
  BY <1>4 DEF Turns
<1>6. \A k \in Nat : Turns[k] = IF k = 0 THEN BeforeLoop ELSE Turn(Turns[k - 1])
  BY <1>5
<1>7. ASSUME NEW k \in Nat PROVE Turns[k + 1] = Turn(Turns[k])
  <2>1. k + 1 \in Nat /\ k + 1 # 0 /\ (k + 1) - 1 = k
    OBVIOUS
  <2> QED
    BY <1>6, <2>1
<1> QED
  BY <1>6, <1>7

-----------------------------------------------------------------------------
(* Sequences. *)

\* Appending an element.
LEMMA Appended ==
  ASSUME NEW S, NEW s \in Seq(S), NEW x \in S
  PROVE  /\ Append(s, x) \in Seq(S)
         /\ Len(Append(s, x)) = Len(s) + 1
         /\ Range(Append(s, x)) = Range(s) \cup {x}
<1>1. /\ Append(s, x) \in Seq(S)
      /\ Len(Append(s, x)) = Len(s) + 1
      /\ \A i \in 1 .. Len(s) : Append(s, x)[i] = s[i]
      /\ Append(s, x)[Len(s) + 1] = x
  BY AppendProperties
<1>2. Len(s) \in Nat /\ DOMAIN s = 1 .. Len(s)
  BY LenProperties
<1>3. DOMAIN Append(s, x) = 1 .. Len(s) + 1
  BY <1>1, LenProperties
<1>4. \A i \in 1 .. Len(s) + 1 : i \in 1 .. Len(s) \/ i = Len(s) + 1
  BY <1>2
<1>5. \A i \in 1 .. Len(s) : i \in 1 .. Len(s) + 1
  BY <1>2
<1>6. Len(s) + 1 \in 1 .. Len(s) + 1
  BY <1>2
<1> DEFINE t == Append(s, x)
<1> HIDE DEF t
<1>7. Range(t) = Range(s) \cup {x}
  BY <1>1, <1>2, <1>3, <1>4, <1>5, <1>6, Zenon DEF Range, t
<1> QED
  BY <1>1, <1>7 DEF t

\* r is what q, of n elements of S, is without the one at i.
IsWithout(r, q, i, n, S) ==
  /\ r \in [1 .. n - 1 -> S]
  /\ \A j \in 1 .. n - 1 : r[j] = IF j < i THEN q[j] ELSE q[j + 1]

\* Deleting the element at an index.
LEMMA Removed ==
  ASSUME NEW S, NEW n \in Nat, NEW q \in [1 .. n -> S], NEW i \in 1 .. n
  PROVE  IsWithout(RemoveAt(q, i), q, i, n, S)
<1> DEFINE a == SubSeq(q, 1, i - 1)
           b == SubSeq(q, i + 1, n)
<1>1. q \in Seq(S) /\ Len(q) = n
  OBVIOUS
<1>2. /\ a \in Seq(S)
      /\ Len(a) = i - 1
      /\ \A j \in 1 .. i - 1 : a[j] = q[j]
  <2>1. /\ a \in Seq(S)
        /\ Len(a) = IF 1 <= i - 1 THEN (i - 1) - 1 + 1 ELSE 0
        /\ \A j \in 1 .. (i - 1) - 1 + 1 : a[j] = q[1 + j - 1]
    BY SubSeqProperties
  <2> HIDE DEF a
  <2> QED
    BY <2>1
<1>3. /\ b \in Seq(S)
      /\ Len(b) = n - i
      /\ \A j \in 1 .. n - i : b[j] = q[i + j]
  <2>1. /\ b \in Seq(S)
        /\ Len(b) = IF i + 1 <= n THEN n - (i + 1) + 1 ELSE 0
        /\ \A j \in 1 .. n - (i + 1) + 1 : b[j] = q[(i + 1) + j - 1]
    BY SubSeqProperties
  <2> HIDE DEF b
  <2> QED
    BY <2>1
<1>4. RemoveAt(q, i) = a \o b
  BY <1>1 DEF RemoveAt
<1> HIDE DEF a, b
<1>5. /\ a \o b \in Seq(S)
      /\ Len(a \o b) = Len(a) + Len(b)
      /\ \A j \in 1 .. Len(a) + Len(b) :
           (a \o b)[j] = IF j <= Len(a) THEN a[j] ELSE b[j - Len(a)]
  BY <1>2, <1>3, ConcatProperties
<1> DEFINE c == a \o b
<1>6. c \in Seq(S) /\ Len(c) = n - 1
  BY <1>2, <1>3, <1>5
<1>7. ASSUME NEW j \in 1 .. n - 1
      PROVE  c[j] = IF j < i THEN q[j] ELSE q[j + 1]
  <2>1. c[j] = IF j <= i - 1 THEN a[j] ELSE b[j - (i - 1)]
    BY <1>2, <1>3, <1>5
  <2>2. CASE j < i
    <3>1. j \in 1 .. i - 1
      BY <2>2
    <3> QED
      BY <1>2, <2>1, <2>2, <3>1
  <2>3. CASE ~(j < i)
    <3>1. j - (i - 1) \in 1 .. n - i /\ i + (j - (i - 1)) = j + 1
      BY <2>3
    <3>2. b[j - (i - 1)] = q[i + (j - (i - 1))]
      BY <1>3, <3>1
    <3> QED
      BY <2>1, <2>3, <3>1, <3>2
  <2> QED
    BY <2>2, <2>3
<1> HIDE DEF c
<1> QED
  BY <1>4, <1>6, <1>7, LenProperties DEF c, IsWithout

\* Deleting an element from a sorted set leaves the others sorted.
LEMMA RemovedSorted ==
  ASSUME NEW S, IsFiniteSet(S), NEW key, \A x \in S : key[x] \in Int,
         \A x, y \in S : key[x] = key[y] => x = y,
         NEW x \in S
  PROVE  RemoveAt(SortedBy(S, key), Rank(S, key, x)) = SortedBy(S \ {x}, key)
<1> DEFINE n == Cardinality(S)
           q == SortedBy(S, key)
           i == Rank(S, key, x)
           r == RemoveAt(q, i)
           R == S \ {x}
<1>1. /\ n \in Nat
      /\ q \in [1 .. n -> S]
      /\ q[i] = x
      /\ \A j, k \in 1 .. n : j < k => key[q[j]] < key[q[k]]
  BY Sorted
<1>2. i \in 1 .. n
  BY RankRange
<1>3. IsFiniteSet(R) /\ Cardinality(R) = n - 1 /\ \A y \in R : key[y] \in Int
  BY <1>1, FS_RemoveElement
<1> HIDE DEF n, q, i, R
<1>4. /\ r \in [1 .. n - 1 -> S]
      /\ \A j \in 1 .. n - 1 : r[j] = IF j < i THEN q[j] ELSE q[j + 1]
  <2>1. n \in Nat
    BY <1>1
  <2>2. q \in [1 .. n -> S]
    BY <1>1
  <2> HIDE DEF r
  <2>3. IsWithout(RemoveAt(q, i), q, i, n, S)
    BY <1>2, <2>1, <2>2, Removed
  <2> QED
    BY <2>3 DEF r, IsWithout
<1> HIDE DEF r
<1> DEFINE old(j) == IF j < i THEN j ELSE j + 1
<1>5. /\ \A j \in 1 .. n - 1 : old(j) \in 1 .. n /\ old(j) # i /\ r[j] = q[old(j)]
      /\ \A j, k \in 1 .. n - 1 : j < k => old(j) < old(k)
  BY <1>1, <1>2, <1>4
<1> HIDE DEF old
<1>6. \A j \in 1 .. n : j # i => q[j] # x /\ q[j] \in R
  <2> SUFFICES ASSUME NEW j \in 1 .. n, j # i PROVE q[j] # x
    BY <1>1 DEF R
  <2>1. key[q[j]] < key[q[i]] \/ key[q[i]] < key[q[j]]
    BY <1>1, <1>2
  <2>2. key[x] \in Int
    OBVIOUS
  <2> QED
    BY <1>1, <2>1, <2>2
<1>7. \A j \in 1 .. n - 1 : r[j] \in R
  BY <1>5, <1>6
<1>8. r \in [1 .. n - 1 -> R]
  <2>1. r = [j \in 1 .. n - 1 |-> r[j]]
    BY <1>4
  <2> QED
    BY <1>7, <2>1
<1>9. \A j, k \in 1 .. n - 1 : j < k => key[r[j]] < key[r[k]]
  BY <1>1, <1>5
<1>10. /\ r \in [1 .. Cardinality(R) -> R]
       /\ \A j, k \in 1 .. Cardinality(R) : j < k => key[r[j]] < key[r[k]]
  BY <1>3, <1>8, <1>9
<1>11. r = SortedBy(R, key)
  BY <1>3, <1>10, IncreasingIsSorted
<1> QED
  BY <1>11 DEF r, q, i, R

\* Of the key only its values on the set matter.
LEMMA SameKeys ==
  ASSUME NEW S, IsFiniteSet(S), NEW key, NEW other,
         \A x \in S : key[x] \in Int /\ other[x] = key[x],
         \A x, y \in S : key[x] = key[y] => x = y
  PROVE  SortedBy(S, other) = SortedBy(S, key)
<1> DEFINE q == SortedBy(S, key)
<1>1. /\ q \in [1 .. Cardinality(S) -> S]
      /\ \A i, j \in 1 .. Cardinality(S) : i < j => key[q[i]] < key[q[j]]
  BY Sorted
<1> HIDE DEF q
<1>2. \A i, j \in 1 .. Cardinality(S) : i < j => other[q[i]] < other[q[j]]
  BY <1>1
<1>3. q = SortedBy(S, other)
  BY <1>1, <1>2, IncreasingIsSorted
<1> QED
  BY <1>3 DEF q

-----------------------------------------------------------------------------
(* A turn of the loop. *)

QueuePos == [m \in queue |-> m.pos]

OwnOf(D, w) == {m \in D : m.wallet = w}

Updates ==
  [walletId : Wallets \cup {NoWallet}, transactions : Seq(Messages),
   signaturesIds : Seq(Nat), lastSignature : Nat]

Loops == [items : Seq(Messages), i : Nat, u : Updates]

\* u has collected the messages M.
Collected(u, M) ==
  /\ Range(u.transactions) = OfKind(M, "onchain")
  /\ Len(u.transactions) = Cardinality(OfKind(M, "onchain"))
  /\ Range(u.signaturesIds) = Signatures(OfKind(M, "saved"))
  /\ Len(u.signaturesIds) = Cardinality(OfKind(M, "saved"))
  /\ LastSignatureOf(M) = {u.lastSignature}

\* The loop, which collects for w, has gone over the messages D: it has taken
\* w's, and has the others before its index and the rest of the queue behind it.
Passed(l, D, w) ==
  /\ l \in Loops
  /\ D \subseteq queue
  /\ \A m \in D, n \in queue \ D : m.pos < n.pos
  /\ OwnOf(D, w) \subseteq Taken(w)
  /\ l.items = SortedBy(queue \ OwnOf(D, w), QueuePos)
  /\ l.i = Cardinality(D \ OwnOf(D, w)) + 1
  /\ l.u.walletId = IF D = {} THEN NoWallet ELSE w
  /\ Collected(l.u, OwnOf(D, w))

\* w has the first message of the queue.
IsFirst(w) == \E first \in queue : first.wallet = w /\ \A m \in queue : first.pos <= m.pos

\* The queue and its parts are sorted by position.
LEMMA Positions ==
  ASSUME TypeQueue, PositionsDistinct, NEW S, S \subseteq queue
  PROVE  /\ IsFiniteSet(S)
         /\ Cardinality(S) \in Nat
         /\ \A m \in S : QueuePos[m] \in Int /\ QueuePos[m] = m.pos /\ m.pos \in Nat
         /\ \A m, n \in S : QueuePos[m] = QueuePos[n] => m = n
<1>1. IsFiniteSet(S) /\ Cardinality(S) \in Nat
  BY FS_Subset, FS_CardinalityType DEF TypeQueue
<1>2. \A m \in S : m \in queue /\ m.pos \in Nat /\ QueuePos[m] = m.pos
  BY QueueTypes DEF QueuePos
<1> QED
  BY <1>1, <1>2 DEF PositionsDistinct

\* A case of processMessages' switch adds a message to the update.
LEMMA CollectAdds ==
  ASSUME TypeQueue, NEW u \in Updates, NEW M, M \subseteq queue, NEW x \in queue,
         \A m \in M : m.pos < x.pos, Collected(u, M)
  PROVE  /\ Collect(u, x) \in Updates
         /\ Collect(u, x).walletId = x.wallet
         /\ Collected(Collect(u, x), M \cup {x})
<1> DEFINE N == M \cup {x}
           c == Collect(u, x)
           v == [u EXCEPT !.walletId = x.wallet]
<1>1. /\ x \in Messages /\ x.pos \in Nat /\ x.wallet \in Wallets /\ x.sig \in Nat
      /\ x.kind \in {"onchain", "saved", "last"}
      /\ x \notin M
      /\ \A m \in M : m.pos \in Nat
  BY QueueTypes DEF TypeQueue
<1>2. /\ u.transactions \in Seq(Messages)
      /\ u.signaturesIds \in Seq(Nat)
      /\ v \in Updates
      /\ v.walletId = x.wallet
      /\ v.transactions = u.transactions
      /\ v.signaturesIds = u.signaturesIds
      /\ v.lastSignature = u.lastSignature
  BY <1>1 DEF Updates
<1>3. IsFiniteSet(M)
  BY FS_Subset DEF TypeQueue
<1>4. ASSUME NEW k PROVE /\ x.kind = k => OfKind(N, k) = OfKind(M, k) \cup {x}
                         /\ x.kind # k => OfKind(N, k) = OfKind(M, k)
                         /\ IsFiniteSet(OfKind(M, k))
                         /\ Cardinality(OfKind(M, k)) \in Nat
                         /\ x \notin OfKind(M, k)
  BY <1>1, <1>3, FS_Subset, FS_CardinalityType DEF OfKind
<1>5. ASSUME NEW k PROVE x.kind = k => Cardinality(OfKind(N, k)) = Cardinality(OfKind(M, k)) + 1
  BY <1>4, FS_AddElement
<1> HIDE DEF v
<1>6. x.kind # "last" => LastSignatureOf(N) = LastSignatureOf(M)
  BY <1>4 DEF LastSignatureOf
<1>7. CASE x.kind = "onchain"
  <2>1. c = [v EXCEPT !.transactions = Append(v.transactions, x)]
    BY <1>7 DEF Collect, v
  <2>2. /\ Append(u.transactions, x) \in Seq(Messages)
        /\ Len(Append(u.transactions, x)) = Len(u.transactions) + 1
        /\ Range(Append(u.transactions, x)) = Range(u.transactions) \cup {x}
    BY <1>1, <1>2, Appended
  <2>3. /\ c \in Updates
        /\ c.walletId = x.wallet
        /\ c.transactions = Append(u.transactions, x)
        /\ c.signaturesIds = u.signaturesIds
        /\ c.lastSignature = u.lastSignature
    BY <1>2, <2>1, <2>2 DEF Updates
  <2> HIDE DEF c, N
  <2>4. /\ Range(c.transactions) = OfKind(N, "onchain")
        /\ Len(c.transactions) = Cardinality(OfKind(N, "onchain"))
    BY <1>4, <1>5, <1>7, <2>2, <2>3 DEF Collected
  <2>5. OfKind(N, "saved") = OfKind(M, "saved") /\ LastSignatureOf(N) = LastSignatureOf(M)
    BY <1>4, <1>6, <1>7
  <2>6. Collected(c, N)
    BY <2>3, <2>4, <2>5 DEF Collected
  <2> QED
    BY <2>3, <2>6 DEF c, N
<1>8. CASE x.kind = "saved"
  <2>1. c = [v EXCEPT !.signaturesIds = Append(v.signaturesIds, x.sig)]
    BY <1>8 DEF Collect, v
  <2>2. /\ Append(u.signaturesIds, x.sig) \in Seq(Nat)
        /\ Len(Append(u.signaturesIds, x.sig)) = Len(u.signaturesIds) + 1
        /\ Range(Append(u.signaturesIds, x.sig)) = Range(u.signaturesIds) \cup {x.sig}
    BY <1>1, <1>2, Appended
  <2>3. /\ c \in Updates
        /\ c.walletId = x.wallet
        /\ c.transactions = u.transactions
        /\ c.signaturesIds = Append(u.signaturesIds, x.sig)
        /\ c.lastSignature = u.lastSignature
    BY <1>2, <2>1, <2>2 DEF Updates
  <2> HIDE DEF c, N
  <2>4. /\ Range(c.signaturesIds) = Signatures(OfKind(N, "saved"))
        /\ Len(c.signaturesIds) = Cardinality(OfKind(N, "saved"))
    <3>1. Signatures(OfKind(N, "saved")) = Signatures(OfKind(M, "saved")) \cup {x.sig}
      BY <1>4, <1>8 DEF Signatures
    <3> QED
      BY <1>5, <1>8, <2>2, <2>3, <3>1 DEF Collected
  <2>5. OfKind(N, "onchain") = OfKind(M, "onchain") /\ LastSignatureOf(N) = LastSignatureOf(M)
    BY <1>4, <1>6, <1>8
  <2>6. Collected(c, N)
    BY <2>3, <2>4, <2>5 DEF Collected
  <2> QED
    BY <2>3, <2>6 DEF c, N
<1>9. CASE x.kind = "last"
  <2>1. c = [v EXCEPT !.lastSignature = x.sig]
    BY <1>9 DEF Collect, v
  <2>2. /\ c \in Updates
        /\ c.walletId = x.wallet
        /\ c.transactions = u.transactions
        /\ c.signaturesIds = u.signaturesIds
        /\ c.lastSignature = x.sig
    BY <1>1, <1>2, <2>1 DEF Updates
  <2> HIDE DEF c
  <2>3. /\ OfKind(N, "onchain") = OfKind(M, "onchain")
        /\ OfKind(N, "saved") = OfKind(M, "saved")
    BY <1>4, <1>9
  <2>4. LastSignatureOf(N) = {x.sig}
    <3>1. OfKind(N, "last") = OfKind(M, "last") \cup {x}
      BY <1>4, <1>9
    <3>2. {l \in OfKind(N, "last") : \A n \in OfKind(N, "last") : n.pos <= l.pos} = {x}
      <4>1. \A m \in OfKind(M, "last") : m.pos < x.pos /\ m.pos \in Nat
        BY <1>1 DEF OfKind
      <4> DEFINE L == OfKind(M, "last")
                 K == OfKind(N, "last")
      <4>2. K = L \cup {x} /\ x.pos \in Nat /\ \A m \in L : m.pos < x.pos /\ m.pos \in Nat
        BY <1>1, <3>1, <4>1
      <4> HIDE DEF K, L
      <4>3. \A l \in K : (\A n \in K : n.pos <= l.pos) <=> l = x
        BY <4>2
      <4>4. {l \in K : \A n \in K : n.pos <= l.pos} = {x}
        BY <4>2, <4>3, Zenon
      <4> QED
        BY <4>4 DEF K
    <3> QED
      BY <3>1, <3>2 DEF LastSignatureOf
  <2> HIDE DEF N
  <2>5. Collected(c, N)
    BY <2>2, <2>3, <2>4 DEF Collected
  <2> QED
    BY <2>2, <2>5 DEF c, N
<1> QED
  BY <1>1, <1>7, <1>8, <1>9

\* x is the first message behind D, and the index points at it.
IsNext(x, l, D, w) ==
  /\ x \in queue \ D
  /\ \A m \in queue \ D : x.pos <= m.pos
  /\ l.i \in 1 .. Len(l.items)
  /\ l.items[l.i] = x
  /\ l.i = Rank(queue \ OwnOf(D, w), QueuePos, x)

\* What the index points at is the first message the loop has not gone over.
LEMMA NextMessage ==
  ASSUME TypeQueue, PositionsDistinct, NEW w, NEW l, NEW D, Passed(l, D, w), D # queue
  PROVE  \E x \in queue \ D : IsNext(x, l, D, w)
<1> DEFINE rest == queue \ D
           S == queue \ OwnOf(D, w)
           others == D \ OwnOf(D, w)
           T == {m.pos : m \in rest}
<1>1. /\ D \subseteq queue
      /\ \A m \in D, n \in queue \ D : m.pos < n.pos
      /\ l.items = SortedBy(S, QueuePos)
      /\ l.i = Cardinality(others) + 1
  BY DEF Passed
<1>2. T \subseteq Nat /\ T # {}
  BY <1>1, QueueTypes
<1>3. PICK p \in T : \A k \in T : p <= k
  BY <1>2, Smallest
<1>4. PICK x \in rest : x.pos = p
  OBVIOUS
<1>5. \A m \in rest : x.pos <= m.pos
  BY <1>3, <1>4
<1>6. /\ IsFiniteSet(S)
      /\ Cardinality(S) \in Nat
      /\ \A m \in S : QueuePos[m] \in Int /\ QueuePos[m] = m.pos /\ m.pos \in Nat
      /\ \A m, n \in S : QueuePos[m] = QueuePos[n] => m = n
  BY Positions
<1>7. x \in S /\ others \subseteq S /\ S = others \cup rest
  BY <1>1 DEF OwnOf
<1>8. {m \in S : QueuePos[m] <= QueuePos[x]} = others \cup {x}
  <2>1. \A m \in others : m.pos <= x.pos
    BY <1>1, <1>6, <1>7
  <2>2. \A m \in rest : m.pos <= x.pos => m = x
    BY <1>5, <1>6, <1>7
  <2> HIDE DEF S, others, rest
  <2> QED
    BY <1>6, <1>7, <2>1, <2>2
<1>9. Rank(S, QueuePos, x) = l.i
  <2>1. IsFiniteSet(others) /\ Cardinality(others) \in Nat
    BY <1>6, <1>7, FS_Subset, FS_CardinalityType
  <2>2. x \notin others
    OBVIOUS
  <2>3. Cardinality(others \cup {x}) = Cardinality(others) + 1
    BY <2>1, <2>2, FS_AddElement
  <2> QED
    BY <1>1, <1>8, <2>3 DEF Rank
<1> HIDE DEF S
<1>10. Rank(S, QueuePos, x) \in 1 .. Cardinality(S)
  BY <1>6, <1>7, RankRange
<1>11. /\ SortedBy(S, QueuePos)[Rank(S, QueuePos, x)] = x
       /\ SortedBy(S, QueuePos) \in [1 .. Cardinality(S) -> S]
  <2>1. IsFiniteSet(S) /\ \A m \in S : QueuePos[m] \in Int
    BY <1>6
  <2>2. \A m, n \in S : QueuePos[m] = QueuePos[n] => m = n
    BY <1>6
  <2>3. /\ SortedBy(S, QueuePos) \in [1 .. Cardinality(S) -> S]
        /\ \A m \in S : SortedBy(S, QueuePos)[Rank(S, QueuePos, m)] = m
    BY <2>1, <2>2, Sorted
  <2> QED
    BY <1>7, <2>3
<1>12. Len(l.items) = Cardinality(S)
  BY <1>1, <1>6, <1>11
<1> QED
  BY <1>1, <1>4, <1>5, <1>9, <1>10, <1>11, <1>12 DEF S, IsNext

\* Until the early exit, the next message is taken if it is w's.
LEMMA NextIsTaken ==
  ASSUME TypeQueue, NEW w, NEW l, NEW D, Passed(l, D, w), ~ExitEarly(l.u),
         NEW x, IsNext(x, l, D, w), x.wallet = w
  PROVE  x \in Taken(w)
<1> USE DEF IsNext
<1>1. /\ D \subseteq queue
      /\ \A m \in D, n \in queue \ D : m.pos < n.pos
      /\ Collected(l.u, OwnOf(D, w))
  BY DEF Passed
<1>2. \A m \in queue : m.pos \in Nat
  BY QueueTypes
<1>3. \A k : TakenBefore(x, k) = OfKind(OwnOf(D, w), k)
  <2>1. \A m \in queue : m.pos < x.pos <=> m \in D
    BY <1>1, <1>2
  <2> QED
    BY <1>1, <2>1 DEF TakenBefore, OfKind, OwnOf
<1>4. /\ Len(l.u.signaturesIds) <= BatchCap
      /\ Len(l.u.transactions) <= BatchCap
  <2>1. Len(l.u.signaturesIds) \in Nat /\ Len(l.u.transactions) \in Nat
    BY DEF Passed, Loops, Updates
  <2> QED
    BY <2>1, SyncAssumption DEF ExitEarly
<1> QED
  BY <1>1, <1>3, <1>4 DEF Taken, Collected

\* A turn goes over one message more.
LEMMA TurnPasses ==
  ASSUME TypeQueue, PositionsDistinct, NEW w, IsFirst(w), NEW l, NEW D,
         Passed(l, D, w), D # queue, ~ExitEarly(l.u)
  PROVE  \E x \in queue \ D : Passed(Turn(l), D \cup {x}, w)
<1>0. PICK x \in queue \ D : IsNext(x, l, D, w)
  BY NextMessage
<1>1. /\ x \in queue \ D
      /\ \A m \in queue \ D : x.pos <= m.pos
      /\ l.i \in 1 .. Len(l.items)
      /\ l.items[l.i] = x
      /\ l.i = Rank(queue \ OwnOf(D, w), QueuePos, x)
  BY <1>0 DEF IsNext
<1> DEFINE E == D \cup {x}
           t == Turn(l)
           S == queue \ OwnOf(D, w)
<1>2. /\ l \in Loops
      /\ D \subseteq queue
      /\ \A m \in D, n \in queue \ D : m.pos < n.pos
      /\ OwnOf(D, w) \subseteq Taken(w)
      /\ l.items = SortedBy(S, QueuePos)
      /\ l.i = Cardinality(D \ OwnOf(D, w)) + 1
      /\ l.u.walletId = IF D = {} THEN NoWallet ELSE w
      /\ Collected(l.u, OwnOf(D, w))
  BY DEF Passed
<1>3. w \in Wallets /\ w # NoWallet /\ x.wallet \in Wallets
  BY QueueTypes, SyncAssumption DEF IsFirst
<1>4. D = {} => x.wallet = w
  <2> SUFFICES ASSUME D = {} PROVE x.wallet = w
    OBVIOUS
  <2>1. PICK first \in queue : first.wallet = w /\ \A m \in queue : first.pos <= m.pos
    BY DEF IsFirst
  <2>2. first.pos <= x.pos /\ x.pos <= first.pos /\ first.pos \in Nat /\ x.pos \in Nat
    BY <1>1, <2>1, QueueTypes
  <2> QED
    BY <2>1, <2>2 DEF PositionsDistinct
<1>5. Wanted(l.u, x) <=> x.wallet = w
  BY <1>2, <1>3, <1>4 DEF Wanted
<1>6. /\ E \subseteq queue /\ E # {}
      /\ \A m \in E, n \in queue \ E : m.pos < n.pos
  <2>1. \A n \in queue \ E : x.pos < n.pos
    BY <1>1, QueueTypes DEF PositionsDistinct
  <2> QED
    BY <1>2, <2>1
<1>7. ~(l.i > Len(l.items) \/ ExitEarly(l.u))
  BY <1>1
<1>8. \A m \in OwnOf(D, w) : m \in queue /\ m.pos < x.pos
  BY <1>2 DEF OwnOf
<1>9. CASE x.wallet = w
  <2>1. t = [items |-> RemoveAt(l.items, l.i), i |-> l.i, u |-> Collect(l.u, x)]
    BY <1>1, <1>5, <1>7, <1>9 DEF Turn
  <2>2. OwnOf(E, w) = OwnOf(D, w) \cup {x} /\ E \ OwnOf(E, w) = D \ OwnOf(D, w)
    BY <1>9 DEF OwnOf
  <2>3. OwnOf(E, w) \subseteq Taken(w)
    <3>1. x \in Taken(w)
      BY <1>0, <1>9, NextIsTaken
    <3> QED
      BY <1>2, <2>2, <3>1
  <2>4. /\ Collect(l.u, x) \in Updates
        /\ Collect(l.u, x).walletId = w
        /\ Collected(Collect(l.u, x), OwnOf(E, w))
    <3>1. l.u \in Updates /\ OwnOf(D, w) \subseteq queue
      BY <1>2, <1>8 DEF Loops
    <3>2. Collected(l.u, OwnOf(D, w)) /\ \A m \in OwnOf(D, w) : m.pos < x.pos
      BY <1>2, <1>8
    <3>3. /\ Collect(l.u, x) \in Updates
          /\ Collect(l.u, x).walletId = x.wallet
          /\ Collected(Collect(l.u, x), OwnOf(D, w) \cup {x})
      BY <3>1, <3>2, CollectAdds, Zenon
    <3> QED
      BY <1>9, <2>2, <3>3
  <2>5. RemoveAt(l.items, l.i) = SortedBy(queue \ OwnOf(E, w), QueuePos)
    <3>1. x \in S /\ queue \ OwnOf(E, w) = S \ {x} /\ S \subseteq queue
      BY <2>2 DEF OwnOf
    <3> HIDE DEF S
    <3>2. /\ IsFiniteSet(S)
          /\ \A m \in S : QueuePos[m] \in Int
          /\ \A m, n \in S : QueuePos[m] = QueuePos[n] => m = n
      BY <3>1, Positions
    <3>3. RemoveAt(SortedBy(S, QueuePos), Rank(S, QueuePos, x)) = SortedBy(S \ {x}, QueuePos)
      BY <3>1, <3>2, RemovedSorted
    <3> QED
      BY <1>1, <1>2, <3>1, <3>3 DEF S
  <2>6. SortedBy(queue \ OwnOf(E, w), QueuePos) \in Seq(Messages)
    <3> DEFINE R == queue \ OwnOf(E, w)
    <3>1. R \subseteq queue /\ R \subseteq Messages
      BY DEF TypeQueue
    <3> HIDE DEF R
    <3>2. Cardinality(R) \in Nat /\ SortedBy(R, QueuePos) \in [1 .. Cardinality(R) -> R]
      BY <3>1, Positions, Sorted
    <3>3. SortedBy(R, QueuePos) \in Seq(Messages)
      BY <3>1, <3>2
    <3> QED
      BY <3>3 DEF R
  <2>7. t \in Loops
    BY <1>2, <2>1, <2>4, <2>5, <2>6 DEF Loops
  <2> HIDE DEF E
  <2>8. /\ t.items = SortedBy(queue \ OwnOf(E, w), QueuePos)
        /\ t.i = Cardinality(E \ OwnOf(E, w)) + 1
        /\ t.u.walletId = w
        /\ Collected(t.u, OwnOf(E, w))
    <3>1. /\ t.items = RemoveAt(l.items, l.i)
          /\ t.i = l.i
          /\ t.u = Collect(l.u, x)
      BY <2>1
    <3> HIDE DEF t
    <3> QED
      BY <1>2, <2>2, <2>4, <2>5, <3>1
  <2> HIDE DEF t
  <2>9. Passed(t, E, w)
    BY <1>6, <2>3, <2>7, <2>8 DEF Passed
  <2> QED
    BY <2>9 DEF E, t
<1>10. CASE x.wallet # w
  <2>1. t = [l EXCEPT !.i = l.i + 1]
    BY <1>1, <1>5, <1>7, <1>10 DEF Turn
  <2>2. OwnOf(E, w) = OwnOf(D, w) /\ E \ OwnOf(E, w) = (D \ OwnOf(D, w)) \cup {x}
    BY <1>10 DEF OwnOf
  <2>3. Cardinality(E \ OwnOf(E, w)) = l.i
    <3>1. IsFiniteSet(D \ OwnOf(D, w)) /\ x \notin D \ OwnOf(D, w)
      BY <1>2, FS_Subset DEF TypeQueue
    <3> QED
      BY <1>2, <2>2, <3>1, FS_AddElement
  <2>4. t \in Loops /\ t.items = l.items /\ t.u = l.u /\ t.i = l.i + 1
    BY <1>2, <2>1 DEF Loops
  <2>5. l.u.walletId = w
    BY <1>2, <1>4, <1>10
  <2> HIDE DEF E
  <2>6. Passed(t, E, w)
    BY <1>2, <1>6, <2>2, <2>3, <2>4, <2>5 DEF Passed
  <2> QED
    BY <2>6 DEF E
<1> QED
  BY <1>9, <1>10

-----------------------------------------------------------------------------
(* The loop. *)

\* It begins with nothing gone over.
LEMMA LoopBegins ==
  ASSUME TypeQueue, PositionsDistinct, NEW w, IsFirst(w)
  PROVE  Passed(BeforeLoop, {}, w)
<1> DEFINE l == BeforeLoop
<1>1. /\ l = [items |-> Items, i |-> 1, u |-> EmptyUpdate]
      /\ Items = SortedBy(queue, QueuePos)
      /\ queue \subseteq Messages
  BY DEF BeforeLoop, Items, QueuePos, TypeQueue
<1>2. Items \in Seq(Messages)
  <2>1. /\ IsFiniteSet(queue)
        /\ \A m \in queue : QueuePos[m] \in Int
        /\ \A m, n \in queue : QueuePos[m] = QueuePos[n] => m = n
    BY Positions
  <2>2. Cardinality(queue) \in Nat /\ SortedBy(queue, QueuePos) \in [1 .. Cardinality(queue) -> queue]
    BY <2>1, Sorted
  <2> QED
    BY <1>1, <2>2
<1>3. EmptyUpdate \in Updates
  BY DEF EmptyUpdate, Updates, NoSignature
<1>4. OwnOf({}, w) = {} /\ queue \ OwnOf({}, w) = queue /\ {} \ OwnOf({}, w) = {}
  BY DEF OwnOf
<1>5. Collected(EmptyUpdate, {})
  <2>1. Range(<<>>) = {} /\ Len(<<>>) = 0 /\ Cardinality({}) = 0
    BY FS_EmptySet DEF Range
  <2>2. \A k : OfKind({}, k) = {}
    BY DEF OfKind
  <2>3. Signatures({}) = {} /\ LastSignatureOf({}) = {NoSignature}
    BY <2>2 DEF Signatures, LastSignatureOf
  <2> QED
    BY <2>1, <2>2, <2>3 DEF Collected, EmptyUpdate
<1>6. l \in Loops /\ l.items = SortedBy(queue, QueuePos) /\ l.i = 1 /\ l.u = EmptyUpdate
  BY <1>1, <1>2, <1>3 DEF Loops
<1>7. l.u.walletId = NoWallet
  BY <1>6 DEF EmptyUpdate
<1>8. l.i = Cardinality({} \ OwnOf({}, w)) + 1
  BY <1>4, <1>6, FS_EmptySet
<1> HIDE DEF l
<1>9. Passed(l, {}, w)
  BY <1>4, <1>5, <1>6, <1>7, <1>8 DEF Passed
<1> QED
  BY <1>9 DEF l

\* After k turns it has gone over k messages, or it has returned early.
LEMMA LoopGoesOn ==
  ASSUME TypeQueue, PositionsDistinct, NEW w, IsFirst(w)
  PROVE  \A k \in 0 .. Cardinality(queue) : \E D :
           /\ Passed(Turns[k], D, w)
           /\ Cardinality(D) = k \/ ExitEarly(Turns[k].u)
<1> DEFINE n == Cardinality(queue)
           So(k) == \E D : /\ Passed(Turns[k], D, w)
                           /\ Cardinality(D) = k \/ ExitEarly(Turns[k].u)
           T == {k \in 0 .. n : ~So(k)}
<1>1. n \in Nat
  BY Positions
<1> SUFFICES ASSUME T # {} PROVE FALSE
  BY <1>1
<1>2. T \subseteq Nat
  BY <1>1
<1>3. PICK k \in T : \A j \in T : k <= j
  BY <1>2, Smallest, Zenon
<1>4. k # 0
  BY LoopBegins, TurnsDefined, FS_EmptySet
<1>5. k - 1 \in Nat /\ k - 1 \in 0 .. n /\ k - 1 \notin T /\ (k - 1) + 1 = k /\ k - 1 < n
  BY <1>1, <1>3, <1>4
<1> DEFINE l == Turns[k - 1]
<1>6. PICK D : Passed(l, D, w) /\ (Cardinality(D) = k - 1 \/ ExitEarly(l.u))
  BY <1>5
<1>7. Turns[k] = Turn(l)
  BY <1>5, TurnsDefined
<1> HIDE DEF l
<1>8. CASE ExitEarly(l.u)
  <2>1. Turn(l) = l
    BY <1>8 DEF Turn
  <2>2. So(k)
    BY <1>6, <1>7, <1>8, <2>1
  <2> QED
    BY <1>3, <2>2
<1>9. CASE ~ExitEarly(l.u)
  <2>1. Cardinality(D) = k - 1 /\ D # queue
    BY <1>5, <1>6, <1>9
  <2>2. PICK x \in queue \ D : Passed(Turn(l), D \cup {x}, w)
    BY <1>6, <1>9, <2>1, TurnPasses
  <2>3. Cardinality(D \cup {x}) = k
    <3>1. D \subseteq queue
      BY <1>6 DEF Passed
    <3>2. IsFiniteSet(D)
      BY <3>1, Positions
    <3> QED
      BY <1>5, <2>1, <2>2, <3>2, FS_AddElement
  <2>4. So(k)
    BY <1>7, <2>2, <2>3
  <2> QED
    BY <1>3, <2>4
<1> QED
  BY <1>8, <1>9

\* When it ends it has taken what Taken says.
LEMMA LoopEnds ==
  ASSUME TypeQueue, NEW w, NEW l, NEW D, Passed(l, D, w), D = queue \/ ExitEarly(l.u)
  PROVE  OwnOf(D, w) = Taken(w)
<1>1. /\ D \subseteq queue
      /\ \A m \in D, n \in queue \ D : m.pos < n.pos
      /\ OwnOf(D, w) \subseteq Taken(w)
      /\ Collected(l.u, OwnOf(D, w))
  BY DEF Passed
<1> SUFFICES ASSUME NEW m \in Taken(w), m \notin OwnOf(D, w) PROVE FALSE
  BY <1>1
<1>2. /\ m \in queue \ D
      /\ m.wallet = w
      /\ Cardinality(TakenBefore(m, "saved")) <= BatchCap
      /\ Cardinality(TakenBefore(m, "onchain")) <= BatchCap
  BY DEF Taken, OwnOf
<1>3. ASSUME NEW k
      PROVE  /\ Cardinality(OfKind(OwnOf(D, w), k)) <= Cardinality(TakenBefore(m, k))
             /\ Cardinality(OfKind(OwnOf(D, w), k)) \in Nat
             /\ Cardinality(TakenBefore(m, k)) \in Nat
  <2>1. OfKind(OwnOf(D, w), k) \subseteq TakenBefore(m, k)
    BY <1>1, <1>2 DEF OfKind, OwnOf, TakenBefore
  <2>2. TakenBefore(m, k) \subseteq queue
    BY DEF TakenBefore
  <2>3. IsFiniteSet(TakenBefore(m, k))
    BY <2>2, FS_Subset DEF TypeQueue
  <2> QED
    BY <2>1, <2>3, FS_Subset, FS_CardinalityType
<1>4. Len(l.u.signaturesIds) <= BatchCap /\ Len(l.u.transactions) <= BatchCap
  <2>1. Cardinality(OfKind(OwnOf(D, w), "saved")) <= BatchCap
    BY <1>2, <1>3, SyncAssumption
  <2>2. Cardinality(OfKind(OwnOf(D, w), "onchain")) <= BatchCap
    BY <1>2, <1>3, SyncAssumption
  <2> QED
    BY <1>1, <2>1, <2>2 DEF Collected
<1>5. Len(l.u.signaturesIds) \in Nat /\ Len(l.u.transactions) \in Nat
  BY DEF Passed, Loops, Updates
<1>6. ~ExitEarly(l.u)
  BY <1>4, <1>5, SyncAssumption DEF ExitEarly
<1> QED
  BY <1>2, <1>6

\* What the loop leaves, and what it collects.
LEMMA LoopTakes ==
  ASSUME TypeQueue, PositionsDistinct, NEW w, IsFirst(w)
  PROVE  /\ Walk.items = SortedBy(queue \ Taken(w), QueuePos)
         /\ Walk.u.walletId = w
         /\ Collected(Walk.u, Taken(w))
<1> DEFINE n == Cardinality(queue)
<1>1. n \in Nat /\ IsFiniteSet(queue)
  BY Positions
<1>2. PICK D : Passed(Walk, D, w) /\ (Cardinality(D) = n \/ ExitEarly(Walk.u))
  BY <1>1, LoopGoesOn DEF Walk
<1>3. D = queue \/ ExitEarly(Walk.u)
  BY <1>1, <1>2, FS_Subset DEF Passed
<1>4. OwnOf(D, w) = Taken(w)
  BY <1>2, <1>3, LoopEnds
<1>5. D # {}
  <2>1. PICK first \in queue : first.wallet = w /\ \A m \in queue : first.pos <= m.pos
    BY DEF IsFirst
  <2>2. \A k : TakenBefore(first, k) = {}
    BY <2>1, QueueTypes DEF TakenBefore
  <2>3. first \in Taken(w)
    BY <2>1, <2>2, FS_EmptySet, SyncAssumption DEF Taken
  <2> QED
    BY <1>4, <2>3 DEF OwnOf
<1> QED
  BY <1>2, <1>4, <1>5 DEF Passed

\* A step of the writer takes what the loop takes.
LEMMA WalkStep ==
  ASSUME TypeQueue, PositionsDistinct, ProcessMessages
  PROVE  LET u == Walk.u
         IN  /\ uwallet' = u.walletId
             /\ utxs' = Range(u.transactions)
             /\ uids' = Range(u.signaturesIds)
             /\ ulast' = u.lastSignature
             /\ Items' = Walk.items
<1>1. PICK first \in queue :
        /\ \A m \in queue : first.pos <= m.pos
        /\ uwallet' = first.wallet
        /\ queue' = queue \ Taken(first.wallet)
        /\ utxs' = OfKind(Taken(first.wallet), "onchain")
        /\ uids' = Signatures(OfKind(Taken(first.wallet), "saved"))
        /\ ulast' \in LastSignatureOf(Taken(first.wallet))
  BY DEF ProcessMessages
<1> DEFINE w == first.wallet
<1>2. IsFirst(w)
  BY <1>1 DEF IsFirst
<1>3. /\ Walk.items = SortedBy(queue \ Taken(w), QueuePos)
      /\ Walk.u.walletId = w
      /\ Collected(Walk.u, Taken(w))
  BY <1>2, LoopTakes
<1>4. Items' = Walk.items
  <2> DEFINE S == queue \ Taken(w)
             own == [m \in S |-> m.pos]
  <2>1. /\ IsFiniteSet(S)
        /\ \A m \in S : QueuePos[m] \in Int /\ own[m] = QueuePos[m]
        /\ \A m, n \in S : QueuePos[m] = QueuePos[n] => m = n
    BY Positions
  <2>2. Items' = SortedBy(S, own)
    BY <1>1 DEF Items
  <2> HIDE DEF S, own
  <2>3. SortedBy(S, own) = SortedBy(S, QueuePos)
    BY <2>1, SameKeys
  <2> QED
    BY <1>3, <2>2, <2>3 DEF S
<1> QED
  BY <1>1, <1>3, <1>4 DEF Collected

\* walk's index arithmetic, its deletions under the index and its early exit come
\* to the batch the model takes in one step, however long the slice: nothing is
\* skipped or taken twice, and what stays keeps its order (wallet_sync.go:60-81,
\* 430-472).
THEOREM TheQueueIsWalked == SyncSpec => WalksTheQueue
<1>1. SyncInit => PositionsDistinct
  BY DEF SyncInit, EmptyMemory, PositionsDistinct
<1>2. Inv /\ PositionsDistinct /\ [SyncNext]_vars =>
        [ProcessMessages =>
           LET u == Walk.u
           IN  /\ uwallet' = u.walletId
               /\ utxs' = Range(u.transactions)
               /\ uids' = Range(u.signaturesIds)
               /\ ulast' = u.lastSignature
               /\ Items' = Walk.items]_vars
  BY WalkStep DEF Inv, TypeOK
<1>3. Inv /\ [SyncNext]_vars => Inv'
  BY InvNext, TypeNext DEF Inv
<1> QED
  BY InvInit, <1>1, <1>2, <1>3, DistinctNext, PTL DEF SyncSpec, WalksTheQueue

=============================================================================
