--------------------------- MODULE PaymentsProofs ---------------------------
(***************************************************************************)
(* The safety of the receipt verifier for every set of receipts, every     *)
(* price and every behaviour of the wall clock and of restarts.            *)
(*                                                                         *)
(* The three safety properties need each other: a nonce is fresh because   *)
(* seen holds exactly the nonces accepted in this process, and a call is   *)
(* backed by a settlement of its own because nonces do not repeat.         *)
(***************************************************************************)
EXTENDS Payments, SequenceTheorems, TLAPS

(* What an amount that covers the price is worth. *)
Worth(amount) ==
    /\ Price # Invalid
    /\ amount = Infinite \/ ({amount, Price} \subseteq Int /\ Price - amount < Ulp)

IInv == TypeOK /\ SingleUse /\ NothingForFree /\ BurntIffAccepted

-----------------------------------------------------------------------------
(* The quotient of a division is within one of the exact one. *)
LEMMA Quotient ==
    ASSUME NEW x \in Int, NEW d \in Nat \ {0}
    PROVE  /\ x \div d \in Int
           /\ (x \div d) * d <= x /\ x < (x \div d) * d + d
  BY SMT

(* A larger multiple of a step is not smaller. *)
LEMMA Multiples ==
    ASSUME NEW m \in Int, NEW n \in Int, m >= n, NEW d \in Nat
    PROVE  m * d >= n * d
<1>1. m * d - n * d = (m - n) * d
  OBVIOUS
<1>2. (m - n) * d >= 0
  BY SMT
<1> QED
  BY <1>1, <1>2

(* What floats take for the price is less than it by less than their       *)
(* distance.                                                               *)
LEMMA RoundedIsClose ==
    ASSUME NEW a \in Int, NEW b \in Int, Float(a) >= Float(b)
    PROVE  b - a < Ulp
<1> DEFINE D == 2 * Ulp
           x == 2 * a + Ulp
           y == 2 * b + Ulp
           u == (x \div D) * D
           v == (y \div D) * D
<1>1. Ulp \in Nat \ {0} /\ D \in Nat \ {0} /\ x \in Int /\ y \in Int
  BY PriceAssumption
<1>2. x \div D >= y \div D
  BY DEF Float
<1>3. x - u >= 0 /\ y - v < D /\ u >= v /\ u \in Int /\ v \in Int
  <2> HIDE DEF D, x, y
  <2>1. x \div D \in Int /\ u <= x /\ y \div D \in Int /\ y < v + D
    BY <1>1, Quotient
  <2>2. u >= v
    BY <1>1, <1>2, <2>1, Multiples
  <2>3. u \in Int /\ v \in Int
    BY <1>1, <2>1
  <2> QED
    BY <1>1, <2>1, <2>2, <2>3
<1> HIDE DEF u, v
<1> QED
  BY <1>1, <1>3

(* An amount that covers the price is worth it.                            *)
LEMMA CoveredIsWorth ==
    ASSUME NEW r, AmountCovers(r)
    PROVE  Worth(r.amount)
<1>1. CASE r.amount = Infinite /\ Price # Invalid
  BY <1>1 DEF Worth
<1>2. CASE r.amount \in Int /\ Price \in Int /\ Float(r.amount) >= Float(Price)
  <2>1. Price - r.amount < Ulp
    BY <1>2, RoundedIsClose
  <2>2. Price # Invalid
    BY <1>2, MarkersAssumption
  <2> QED
    BY <1>2, <2>1, <2>2 DEF Worth
<1> QED
  BY <1>1, <1>2 DEF AmountCovers

-----------------------------------------------------------------------------
(* The history after an acceptance: the old entries and the new one. *)
LEMMA AcceptHistory ==
    ASSUME TypeOK, NEW h \in Headers, Accept(h)
    PROVE  LET n == Len(accepted)
               a == [receipt |-> h.receipt, at |-> wall, epoch |-> epoch]
           IN  /\ n \in Nat
               /\ DOMAIN accepted = 1..n
               /\ DOMAIN accepted' = 1..(n + 1)
               /\ \A i \in 1..n : accepted'[i] = accepted[i]
               /\ accepted'[n + 1] = a
               /\ h.receipt \in Receipts
<1>1. accepted \in Seq([receipt : Receipts, at : Int, epoch : 0..epoch])
  BY DEF TypeOK
<1>2. h.form = "receipt"
  BY DEF Accept, Paid, Decodes
<1>3. h.receipt \in Receipts
  BY <1>2 DEF Headers, NoHeader, Malformed, TooDeep, Carrying
<1>4. accepted' = Append(accepted, [receipt |-> h.receipt, at |-> wall, epoch |-> epoch])
  BY DEF Accept
<1> QED
  BY <1>1, <1>3, <1>4

(* What an accepted receipt passed, stated without the operators of verify. *)
LEMMA PaidFacts ==
    ASSUME NEW h \in Headers, Accept(h)
    PROVE  LET r == h.receipt
           IN  /\ r \in settled
               /\ r.payTo = Recipient /\ r.asset = Asset /\ r.network = Network
               /\ Worth(r.amount)
               /\ r.expiry = Never \/ (r.expiry \in Int /\ wall <= r.expiry)
               /\ r.nonce # NoNonce /\ r.nonce \notin seen
<1> USE DEF Accept, Paid
<1>1. h.receipt \in settled
  BY DEF Presentable, Genuine
<1>2. /\ h.receipt.payTo = Recipient
      /\ h.receipt.asset = Asset /\ h.receipt.network = Network
      /\ Worth(h.receipt.amount)
  BY CoveredIsWorth DEF MeetsTerms
<1>3. h.receipt.expiry = Never \/ (h.receipt.expiry \in Int /\ h.receipt.expiry >= wall)
  BY DEF InDate
<1>4. h.receipt.nonce # NoNonce /\ h.receipt.nonce \notin seen
  BY DEF Fresh
<1> QED
  BY <1>1, <1>2, <1>3, <1>4

-----------------------------------------------------------------------------
(* An acceptance keeps each part of the invariant. *)
LEMMA AcceptKeeps ==
    ASSUME IInv, NEW h \in Headers, Accept(h)
    PROVE  IInv'
<1> DEFINE n == Len(accepted)
           r == h.receipt
           a == [receipt |-> r, at |-> wall, epoch |-> epoch]
<1>1. TypeOK /\ wall \in Int /\ epoch \in Nat
  BY DEF IInv, TypeOK
<1>2. /\ n \in Nat /\ DOMAIN accepted = 1..n /\ DOMAIN accepted' = 1..(n + 1)
      /\ \A i \in 1..n : accepted'[i] = accepted[i]
      /\ accepted'[n + 1] = a
      /\ r \in Receipts
  BY <1>1, AcceptHistory
<1>3. /\ r \in settled
      /\ r.payTo = Recipient /\ r.asset = Asset /\ r.network = Network
      /\ Worth(r.amount)
      /\ r.expiry = Never \/ wall <= r.expiry
      /\ r.nonce # NoNonce /\ r.nonce \notin seen
  BY PaidFacts
<1>4. /\ wall' = wall /\ settled' = settled /\ epoch' = epoch
      /\ seen' = seen \union {r.nonce}
      /\ accepted' = Append(accepted, a)
  BY DEF Accept, Burn
<1>5. TypeOK'
  <2>1. a \in [receipt : Receipts, at : Int, epoch : 0..epoch]
    BY <1>1, <1>2
  <2>2. accepted' \in Seq([receipt : Receipts, at : Int, epoch : 0..epoch])
    BY <1>4, <2>1 DEF IInv, TypeOK
  <2> QED
    BY <1>1, <1>2, <1>3, <1>4, <2>2 DEF TypeOK
<1>6. \A i \in 1..n : accepted[i].epoch = epoch => accepted[i].receipt.nonce # r.nonce
  BY <1>2, <1>3 DEF IInv, BurntIffAccepted, Served
<1>7. SingleUse'
  <2>1. ASSUME NEW i \in 1..(n + 1), NEW j \in 1..(n + 1),
               accepted'[i].epoch = accepted'[j].epoch,
               accepted'[i].receipt.nonce = accepted'[j].receipt.nonce
        PROVE  i = j
    <3>1. CASE i \in 1..n /\ j \in 1..n
      BY <1>2, <2>1, <3>1 DEF IInv, SingleUse
    <3>2. CASE i \in 1..n /\ j = n + 1
      BY <1>2, <1>6, <2>1, <3>2
    <3>3. CASE i = n + 1 /\ j \in 1..n
      BY <1>2, <1>6, <2>1, <3>3
    <3> QED
      BY <1>2, <3>1, <3>2, <3>3
  <2> QED
    BY <1>2, <2>1 DEF SingleUse
<1>8. NothingForFree'
  <2>1. ASSUME NEW i \in 1..(n + 1)
        PROVE  LET b == accepted'[i] IN
               /\ b.receipt \in settled
               /\ b.receipt.payTo = Recipient
               /\ b.receipt.asset = Asset /\ b.receipt.network = Network
               /\ Worth(b.receipt.amount)
               /\ b.receipt.expiry = Never \/ b.at <= b.receipt.expiry
    <3>1. CASE i \in 1..n
      BY <1>2, <3>1 DEF IInv, NothingForFree, Worth
    <3>2. CASE i = n + 1
      BY <1>2, <1>3, <3>2
    <3> QED
      BY <1>2, <3>1, <3>2
  <2>2. \A i, j \in 1..(n + 1) :
           accepted'[i].epoch = accepted'[j].epoch
           /\ accepted'[j].receipt = accepted'[i].receipt => j = i
    BY <1>2, <1>7 DEF SingleUse
  <2> QED
    BY <1>2, <1>4, <2>1, <2>2 DEF NothingForFree, Served, Worth
<1>9. BurntIffAccepted'
  <2>1. Served(epoch)' = Served(epoch) \union {n + 1}
    BY <1>1, <1>2, <1>4 DEF Served
  <2>2. \A i \in Served(epoch) : i \in 1..n /\ accepted'[i] = accepted[i]
    BY <1>2 DEF Served
  <2>3. {accepted'[i].receipt.nonce : i \in Served(epoch) \union {n + 1}}
          = {accepted[i].receipt.nonce : i \in Served(epoch)} \union {r.nonce}
    BY <1>2, <2>2
  <2> QED
    BY <1>4, <2>1, <2>3 DEF IInv, BurntIffAccepted
<1> QED
  BY <1>5, <1>7, <1>8, <1>9 DEF IInv

(* A restart forgets the nonces and starts an epoch with nothing served. *)
LEMMA RestartKeeps ==
    ASSUME IInv, Restart
    PROVE  IInv'
<1>1. /\ epoch \in Nat /\ epoch' = epoch + 1 /\ seen' = {}
      /\ wall' = wall /\ settled' = settled /\ accepted' = accepted
      /\ accepted \in Seq([receipt : Receipts, at : Int, epoch : 0..epoch])
  BY DEF IInv, TypeOK, Restart
<1>2. \A i \in DOMAIN accepted : accepted[i].epoch \in 0..epoch
  <2>1. DOMAIN accepted = 1..Len(accepted)
    BY <1>1
  <2>2. ASSUME NEW i \in 1..Len(accepted)
        PROVE  accepted[i] \in [receipt : Receipts, at : Int, epoch : 0..epoch]
    BY <1>1, ElementOfSeq
  <2> QED
    BY <2>1, <2>2
<1>3. Served(epoch)' = {}
  BY <1>1, <1>2 DEF Served
<1>4. accepted \in Seq([receipt : Receipts, at : Int, epoch : 0..(epoch + 1)])
  <2>1. [receipt : Receipts, at : Int, epoch : 0..epoch]
          \subseteq [receipt : Receipts, at : Int, epoch : 0..(epoch + 1)]
    BY <1>1
  <2> QED
    BY <1>1, <2>1, SeqMonotonic
<1>5. TypeOK'
  BY <1>1, <1>4 DEF IInv, TypeOK
<1>6. BurntIffAccepted'
  BY <1>1, <1>3 DEF BurntIffAccepted
<1>7. SingleUse' /\ NothingForFree'
  BY <1>1 DEF IInv, SingleUse, NothingForFree, Served
<1> QED
  BY <1>5, <1>6, <1>7 DEF IInv

(* Settlements and the wall clock touch nothing the verifier has decided. *)
LEMMA OutsideKeeps ==
    ASSUME IInv, wall' \in Int,
           settled \subseteq settled', settled' \subseteq {r \in Receipts : r.signed},
           UNCHANGED <<seen, accepted, epoch>>
    PROVE  IInv'
<1>1. TypeOK'
  BY DEF IInv, TypeOK
<1>2. SingleUse'
  BY DEF IInv, SingleUse
<1>3. NothingForFree'
  BY DEF IInv, NothingForFree, Served
<1>4. BurntIffAccepted'
  BY DEF IInv, BurntIffAccepted, Served
<1> QED
  BY <1>1, <1>2, <1>3, <1>4 DEF IInv

-----------------------------------------------------------------------------
(* Nothing is settled, burnt or served at the start. *)
LEMMA InitInvariant == Init => IInv
<1> SUFFICES ASSUME Init PROVE IInv
  OBVIOUS
<1>1. accepted \in Seq([receipt : Receipts, at : Int, epoch : 0..epoch])
  BY DEF Init
<1>2. DOMAIN accepted = {}
  BY DEF Init
<1> QED
  BY <1>1, <1>2 DEF Init, IInv, TypeOK, SingleUse, NothingForFree, BurntIffAccepted, Served

(* Every step of a buyer, of the Broker, of the clock and of the process   *)
(* keeps the invariant.                                                    *)
LEMMA NextInvariant == IInv /\ [Next]_vars => IInv'
<1> SUFFICES ASSUME IInv, [Next]_vars PROVE IInv'
  OBVIOUS
<1>1. ASSUME NEW r \in Receipts, Settle(r)
      PROVE  IInv'
  BY <1>1, OutsideKeeps DEF Settle, IInv, TypeOK
<1>2. ASSUME NEW h \in Headers, Accept(h)
      PROVE  IInv'
  BY <1>2, AcceptKeeps
<1>3. ASSUME NEW t \in 0..MaxWall, SetClock(t)
      PROVE  IInv'
  BY <1>3, BoundsAssumption, OutsideKeeps DEF SetClock, IInv, TypeOK
<1>4. CASE Restart
  BY <1>4, RestartKeeps
<1>5. CASE UNCHANGED vars
  BY <1>5, OutsideKeeps DEF vars, IInv, TypeOK
<1> QED
  BY <1>1, <1>2, <1>3, <1>4, <1>5 DEF Next, Verify, Decline

(* The invariant holds throughout every behaviour. *)
THEOREM Inductive == Spec => []IInv
  BY InitInvariant, NextInvariant, PTL DEF Spec

(* The verifier's state keeps its shape. *)
THEOREM TypeCorrect == Spec => []TypeOK
<1>1. IInv => TypeOK
  BY DEF IInv
<1> QED
  BY <1>1, Inductive, PTL

(* NonceStore: no nonce buys two calls of one process. *)
THEOREM NoncesAreSingleUse == Spec => []SingleUse
<1>1. IInv => SingleUse
  BY DEF IInv
<1> QED
  BY <1>1, Inductive, PTL

(* Every call served in paid mode has a settlement of its own behind it. *)
THEOREM CallsAreBacked == Spec => []NothingForFree
<1>1. IInv => NothingForFree
  BY DEF IInv
<1> QED
  BY <1>1, Inductive, PTL

(* A refused or failed presentation burns no nonce, an accepted one does. *)
THEOREM OnlyServiceBurns == Spec => []BurntIffAccepted
<1>1. IInv => BurntIffAccepted
  BY DEF IInv
<1> QED
  BY <1>1, Inductive, PTL

=============================================================================
