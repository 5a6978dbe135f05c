------------------------------ MODULE Payments ------------------------------
(***************************************************************************)
(* The pay-per-call receipt verifier of runeclaw_okx/payments.py           *)
(* (SignedReceiptVerifier with its NonceStore), the buyers that present    *)
(* receipts to it and the OKX Broker that issues them.                     *)
(*                                                                         *)
(* A presentation is what the X-PAYMENT header of a request decodes to.    *)
(* The cryptography is abstract: "signed" says that the Ed25519 signature  *)
(* over the canonical payload verifies under the Broker's key, and such a  *)
(* receipt exists only once the Broker has issued it.  verify has no point *)
(* of suspension, so that one action stands for one call of it.            *)
(*                                                                         *)
(* The wall clock (time.time) may be set back and forth.  The nonces are   *)
(* kept in memory: a restart forgets them.                                 *)
(***************************************************************************)
EXTENDS Integers, Sequences, FiniteSets, SequencesExt

CONSTANTS
    Receipts,   \* the receipts in play, signed by the Broker or forged
    Recipient, Asset, Network, Price,   \* PaymentTerms
    Never,      \* an expiry that compares below no clock (NaN, Infinity)
    Ulp,        \* the distance of neighbouring floats around the price
    Infinite,   \* an amount of Infinity, or one too large for any other float
    Invalid,    \* an amount or expiry that float() refuses, or an amount of NaN
    Huge,       \* an integer expiry that float() cannot hold
    NoNonce,    \* the empty or missing nonce
    MaxWall,    \* bound of the model: latest wall-clock time
    MaxEpoch    \* bound of the model: last process

(* A receipt's body is a JSON object; another JSON value; or an object     *)
(* holding a lone surrogate, which no signature can cover because          *)
(* canonical_bytes cannot encode it.                                       *)
ReceiptShape(r) ==
    /\ DOMAIN r = {"body", "signed", "payTo", "asset", "network",
                   "amount", "expiry", "nonce"}
    /\ r.body \in {"object", "other", "unencodable"}
    /\ r.signed \in BOOLEAN
    /\ r.body = "unencodable" => ~ r.signed
    /\ r.amount \in Int \union {Infinite, Invalid}
    /\ r.expiry \in Int \union {Never, Invalid, Huge}

ASSUME ReceiptsAssumption == \A r \in Receipts : ReceiptShape(r)
(* OKX_PAY_AMOUNT is not checked when it is read. *)
ASSUME PriceAssumption == Price \in Int \union {Infinite, Invalid} /\ Ulp \in Nat \ {0}
ASSUME MarkersAssumption ==
    {Never, Infinite, Invalid, Huge} \intersect Int = {} /\ Infinite # Invalid
ASSUME BoundsAssumption == MaxWall \in Nat /\ MaxEpoch \in Nat

(* What a request carries: no header, an undecodable one, one whose JSON   *)
(* is nested too deep for json.loads, or a receipt.                        *)
NoHeader  == [form |-> "none"]
Malformed == [form |-> "malformed"]
TooDeep == [form |-> "nested"]
Carrying(r) == [form |-> "receipt", receipt |-> r]
Headers == {NoHeader, Malformed, TooDeep} \union {Carrying(r) : r \in Receipts}

VARIABLES
    wall,      \* time.time()
    seen,      \* NonceStore._seen
    settled,   \* the receipts the Broker has issued
    accepted,  \* history: the presentations accepted, oldest first
    epoch      \* how many times the process was restarted

vars == <<wall, seen, settled, accepted, epoch>>

-----------------------------------------------------------------------------
(* The header decodes to an envelope with a payload and a signature. *)
Decodes(h) == h.form = "receipt"

Genuine(r) == r.body # "unencodable" /\ r.signed

(* float(): the nearest multiple of Ulp, numbered.  Which way it rounds a  *)
(* tie is no matter here, nor that the distance grows away from the price. *)
Float(a) == (2 * a + Ulp) \div (2 * Ulp)

(* _decimal_ge compares floats.  A price that is no number is met by       *)
(* nothing, not even by Infinity.                                          *)
AmountCovers(r) ==
    \/ r.amount = Infinite /\ Price # Invalid
    \/ r.amount \in Int /\ Price \in Int /\ Float(r.amount) >= Float(Price)

(* Mutant of MeetsTerms: the recipient is not compared. *)
MeetsTermsAnyPayee(r) == r.asset = Asset /\ r.network = Network /\ AmountCovers(r)

MeetsTerms(r) ==
    /\ r.payTo = Recipient
    /\ r.asset = Asset
    /\ r.network = Network
    /\ AmountCovers(r)

(* Mutant of InDate: refused at the very time of expiry. *)
InDateStrict(r) == r.expiry = Never \/ (r.expiry \in Int /\ r.expiry > wall)

(* not float(expiry) < clock() *)
InDate(r) == r.expiry = Never \/ (r.expiry \in Int /\ r.expiry >= wall)

(* Mutants of Fresh: the store is asked without being consulted; the empty *)
(* nonce will do.                                                          *)
FreshAlways(r) == r.nonce # NoNonce
FreshEmptyToo(r) == r.nonce \notin seen

(* The test of NonceStore.use *)
Fresh(r) == r.nonce # NoNonce /\ r.nonce \notin seen

(* verify's outcomes.  Raised: json.loads gives up with a RecursionError;  *)
(* canonical_bytes cannot encode the payload; a signed payload that is no  *)
(* object has no get; float(expiry) overflows.  None of the four is caught.*)
Raises(h) ==
    \/ h.form = "nested"
    \/ /\ Decodes(h)
       /\ LET r == h.receipt IN
          \/ r.body = "unencodable"
          \/ Genuine(r) /\ r.body # "object"
          \/ Genuine(r) /\ MeetsTerms(r) /\ r.expiry = Huge

Paid(h) ==
    /\ Decodes(h)
    /\ ~ Raises(h)
    /\ Genuine(h.receipt)
    /\ MeetsTerms(h.receipt)
    /\ InDate(h.receipt)
    /\ Fresh(h.receipt)

(* What a buyer is told by a 402: the terms, to be settled as they are. *)
Challenge == [payTo |-> Recipient, asset |-> Asset, network |-> Network, amount |-> Price]

(* Only the Broker can sign: a signed receipt is presented after it was    *)
(* issued, by anyone who holds it and as often as they like.               *)
Presentable(h) == Decodes(h) /\ h.receipt.signed => h.receipt \in settled

-----------------------------------------------------------------------------
Init ==
    /\ wall = 0
    /\ seen = {}
    /\ settled = {}
    /\ accepted = <<>>
    /\ epoch = 0

(* The buyer pays and the Broker issues the receipt. *)
Settle(r) ==
    /\ r.signed
    /\ r \notin settled
    /\ settled' = settled \union {r}
    /\ UNCHANGED <<wall, seen, accepted, epoch>>

(* Mutant of Burn: an accepted nonce is not recorded. *)
BurnNothing(r) == seen' = seen

Burn(r) == seen' = seen \union {r.nonce}

Accept(h) ==
    /\ Presentable(h)
    /\ Paid(h)
    /\ Burn(h.receipt)
    /\ accepted' = Append(accepted, [receipt |-> h.receipt, at |-> wall, epoch |-> epoch])
    /\ UNCHANGED <<wall, settled, epoch>>

(* Answered 402 (unpaid) or 500 (an exception): nothing changes. *)
Decline(h) ==
    /\ Presentable(h)
    /\ ~ Paid(h) \/ Raises(h)
    /\ UNCHANGED vars

Verify(h) == Accept(h) \/ Decline(h)

SetClock(t) ==
    /\ t # wall
    /\ wall' = t
    /\ UNCHANGED <<seen, settled, accepted, epoch>>

Restart ==
    /\ epoch < MaxEpoch
    /\ epoch' = epoch + 1
    /\ seen' = {}
    /\ UNCHANGED <<wall, settled, accepted>>

Next ==
    \/ \E r \in Receipts : Settle(r)
    \/ \E h \in Headers : Verify(h)
    \/ \E t \in 0..MaxWall : SetClock(t)
    \/ Restart

Spec == Init /\ [][Next]_vars

(* Buyers retry: who holds a receipt keeps presenting it. *)
Fairness == \A r \in Receipts : WF_vars(Accept(Carrying(r)))
FairSpec == Spec /\ Fairness

-----------------------------------------------------------------------------
Served(e) == {i \in DOMAIN accepted : accepted[i].epoch = e}

(* Every variable has its type; only signed receipts are ever issued. *)
TypeOK ==
    /\ wall \in Int
    /\ settled \subseteq {r \in Receipts : r.signed}
    /\ seen \subseteq {r.nonce : r \in Receipts} \ {NoNonce}
    /\ epoch \in Nat
    /\ accepted \in Seq([receipt : Receipts, at : Int, epoch : 0..epoch])

(* Within the life of one process no nonce buys two calls, whatever the    *)
(* order of presentations and however the clock moves.  (NonceStore)       *)
SingleUse ==
    \A i, j \in DOMAIN accepted :
        /\ accepted[i].epoch = accepted[j].epoch
        /\ accepted[i].receipt.nonce = accepted[j].receipt.nonce
        => i = j

(* What a process serves is paid for: each call is backed by a settlement  *)
(* of its own, made out to this service, for the price or for less by no   *)
(* more than floats cannot tell, and not expired when it was served; at a  *)
(* price that is no number nothing is served.                              *)
(* (SignedReceiptVerifier.verify)                                          *)
NothingForFree ==
    \A i \in DOMAIN accepted :
        LET a == accepted[i] IN
        /\ a.receipt \in settled
        /\ a.receipt.payTo = Recipient
        /\ a.receipt.asset = Asset /\ a.receipt.network = Network
        /\ Price # Invalid
        /\ \/ a.receipt.amount = Infinite
           \/ /\ {a.receipt.amount, Price} \subseteq Int
              /\ Price - a.receipt.amount < Ulp
        /\ a.receipt.expiry = Never \/ a.at <= a.receipt.expiry
        /\ \A j \in Served(a.epoch) : accepted[j].receipt = a.receipt => j = i

(* A nonce is burnt exactly when its presentation was accepted in this     *)
(* process: a buyer turned away, for whatever reason or by an exception,   *)
(* keeps the use of its receipt.  (The nonce is checked last in verify.)   *)
BurntIffAccepted == seen = {accepted[i].receipt.nonce : i \in Served(epoch)}

Answers(r) ==
    /\ Genuine(r) /\ r.body = "object" /\ r.nonce # NoNonce
    /\ r.payTo = Challenge.payTo /\ r.asset = Challenge.asset
    /\ r.network = Challenge.network
    /\ {r.amount, Challenge.amount} \subseteq Int /\ r.amount >= Challenge.amount
    /\ r.expiry \in Int \union {Never}

(* A buyer who settles what the 402 challenge asked for, at a price that   *)
(* is a number and with an expiry that is one, and keeps presenting the    *)
(* receipt, is served, unless its time runs out first or its nonce has     *)
(* been used.  (build_402_challenge and verify read the same terms)        *)
ReceiptHonoured ==
    \A r \in Receipts :
        r \in settled /\ Answers(r) ~>
            \/ \E i \in DOMAIN accepted : accepted[i].receipt.nonce = r.nonce
            \/ r.expiry \in Int /\ r.expiry < wall

(* okx-ai/README.md promises a "single-use nonce (replay protection)":     *)
(* one settlement, one call.  NonceStore forgets it at a restart.          *)
OncePerReceipt ==
    \A i, j \in DOMAIN accepted :
        accepted[i].receipt.nonce = accepted[j].receipt.nonce => i = j

=============================================================================
