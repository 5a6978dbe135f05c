--------------------------- MODULE HttpTransport ---------------------------
(***************************************************************************)
(* The HTTP front door of runeclaw_okx/http_transport.py: every request to *)
(* the MCP mount passes bearer authentication, then the rate limiter, then *)
(* (in paid mode) the receipt verifier, before the MCP session manager     *)
(* sees it.  The limiter is RateLimiter and the verifier is Payments; this *)
(* module runs them behind concurrent requests, in one process that may be *)
(* restarted, possibly in the other mode.                                  *)
(*                                                                         *)
(* The steps of different requests interleave.  The payment gate is a step *)
(* of its own because verify is awaited: the verifier is a Protocol whose  *)
(* implementation may suspend.                                             *)
(***************************************************************************)
EXTENDS Integers, Sequences, FiniteSets

CONSTANTS
    Reqs,          \* the HTTP exchanges
    Kinds,         \* what may be sent: route, scope, scheme, token, header, tool
    None,          \* the kind of a request not yet sent
    Tokens,        \* bearer tokens as sent, NoToken among them
    NoToken,       \* the empty token
    ServerToken,   \* MCP_AUTH_TOKEN
    NonAscii,      \* the tokens that are not pure ASCII
    Strip,         \* str.strip on tokens
    AdvertisedPrice   \* tool -> its price in okx-ai/manifest.json

(* RateLimiter's and Payments' constants. *)
CONSTANTS LimitArg, Window, TicksPerSecond, MaxTime
CONSTANTS Receipts, Recipient, Asset, Network, Price, Ulp,
          Never, Infinite, Invalid, Huge, NoNonce, MaxWall, MaxEpoch

ASSUME TokensAssumption ==
    /\ NoToken \in Tokens
    /\ ServerToken \in Tokens \ {NoToken}     \* _resolve_auth_token refuses an empty one
    /\ NonAscii \subseteq Tokens \ {NoToken}
    /\ Strip \in [Tokens -> Tokens]

ASSUME LimiterAssumption ==
    /\ LimitArg \in Int /\ Window \in Nat \ {0}
    /\ TicksPerSecond \in Nat \ {0} /\ MaxTime \in Nat

VARIABLES
    req,       \* the exchanges: where each is, what was sent, what was answered
    metered,   \* whether this process was built with a payment verifier
    now, state, admits, refused,             \* the rate limiter
    wall, seen, settled, accepted, epoch     \* the receipt verifier

limiterVars == <<now, state, admits, refused>>
paymentVars == <<wall, seen, settled, accepted, epoch>>
vars == <<req, metered, limiterVars, paymentVars>>

L == INSTANCE RateLimiter WITH Keys <- Tokens
P == INSTANCE Payments

KindShape(k) ==
    /\ DOMAIN k = {"route", "scope", "scheme", "token", "header", "tool"}
    /\ k.route \in {"mcp", "healthz"}
    /\ k.scope \in {"http", "websocket"}
    /\ k.scheme \in {"bearer", "other"}
    /\ k.token \in Tokens
    /\ k.header \in P!Headers
    /\ k.tool \in DOMAIN AdvertisedPrice

ASSUME KindsAssumption == None \notin Kinds /\ \A k \in Kinds : KindShape(k)

ASSUME PaymentsAssumption ==
    /\ \A x \in Receipts : P!ReceiptShape(x)
    /\ Price \in Int \union {Infinite, Invalid} /\ Ulp \in Nat \ {0}
    /\ {Never, Infinite, Invalid, Huge} \intersect Int = {} /\ Infinite # Invalid
    /\ MaxWall \in Nat /\ MaxEpoch \in Nat

-----------------------------------------------------------------------------
(* Mutants of Presented: the token is taken from any scheme, or as sent.   *)
PresentedAnyScheme(k) == Strip[k.token]

PresentedAsSent(k) == IF k.scheme = "bearer" THEN k.token ELSE NoToken

(* The token after the scheme is checked and the rest stripped. *)
Presented(k) == IF k.scheme = "bearer" THEN Strip[k.token] ELSE NoToken

(* hmac.compare_digest raises a TypeError for a str that is not ASCII. *)
Comparable(t) == t \notin NonAscii /\ ServerToken \notin NonAscii

(* Mutant of Authentic: any comparable token will do. *)
AuthenticAny(k) == Presented(k) # NoToken /\ Comparable(Presented(k))

Authentic(k) ==
    /\ Presented(k) # NoToken
    /\ Comparable(Presented(k))
    /\ Presented(k) = ServerToken

AtGate(r) == req[r].pc = "gate" /\ req[r].kind.scope = "http"

AtPay(r) == req[r].pc = "pay"

Reply(r, status) == req' = [req EXCEPT ![r].pc = "done", ![r].status = status]

(* The request reaches StreamableHTTPSessionManager.handle_request. *)
Enter(r) ==
    req' = [req EXCEPT ![r].pc = "mcp",
                       ![r].entered = IF metered THEN "metered" ELSE "free"]

-----------------------------------------------------------------------------
Init ==
    /\ req = [r \in Reqs |-> [pc |-> "idle", kind |-> None, status |-> 0, entered |-> "no"]]
    /\ metered \in BOOLEAN
    /\ L!Init
    /\ P!Init

(* A client sends a request.  The only receipts it can attach are those    *)
(* the Broker has issued, or forged ones.                                  *)
Arrive(r, k) ==
    /\ req[r].pc = "idle"
    /\ P!Presentable(k.header)
    /\ req' = [req EXCEPT ![r].pc = IF k.route = "mcp" THEN "gate" ELSE "probe",
                          ![r].kind = k]
    /\ UNCHANGED <<metered, limiterVars, paymentVars>>

(* /healthz answers without authentication. *)
Probe(r) ==
    /\ req[r].pc = "probe"
    /\ Reply(r, 200)
    /\ UNCHANGED <<metered, limiterVars, paymentVars>>

(* Both middlewares hand on a scope that is not "http". *)
PassThrough(r) ==
    /\ req[r].pc = "gate"
    /\ req[r].kind.scope # "http"
    /\ Enter(r)
    /\ UNCHANGED <<metered, limiterVars, paymentVars>>

Unauthorized(r) ==
    /\ AtGate(r)
    /\ LET t == Presented(req[r].kind) IN
       t = NoToken \/ (Comparable(t) /\ t # ServerToken)
    /\ Reply(r, 401)
    /\ UNCHANGED <<metered, limiterVars, paymentVars>>

(* The exception of compare_digest reaches the ASGI server. *)
CompareFails(r) ==
    /\ AtGate(r)
    /\ LET t == Presented(req[r].kind) IN t # NoToken /\ ~ Comparable(t)
    /\ Reply(r, 500)
    /\ UNCHANGED <<metered, limiterVars, paymentVars>>

(* Mutants of Admitted: who is going to pay is not counted; only a request *)
(* with a receipt is asked to pay.                                         *)
AdmittedUncounted(r) ==
    /\ AtGate(r)
    /\ Authentic(req[r].kind)
    /\ IF metered
       THEN req' = [req EXCEPT ![r].pc = "pay"] /\ UNCHANGED limiterVars
       ELSE L!Admit(Presented(req[r].kind)) /\ Enter(r)
    /\ UNCHANGED <<metered, paymentVars>>

AdmittedUnasked(r) ==
    /\ AtGate(r)
    /\ Authentic(req[r].kind)
    /\ L!Admit(Presented(req[r].kind))
    /\ IF metered /\ P!Decodes(req[r].kind.header)
       THEN req' = [req EXCEPT ![r].pc = "pay"] ELSE Enter(r)
    /\ UNCHANGED <<metered, paymentVars>>

Admitted(r) ==
    /\ AtGate(r)
    /\ Authentic(req[r].kind)
    /\ L!Admit(Presented(req[r].kind))
    /\ IF metered THEN req' = [req EXCEPT ![r].pc = "pay"] ELSE Enter(r)
    /\ UNCHANGED <<metered, paymentVars>>

Limited(r) ==
    /\ AtGate(r)
    /\ Authentic(req[r].kind)
    /\ L!Refuse(Presented(req[r].kind))
    /\ Reply(r, 429)
    /\ UNCHANGED <<metered, paymentVars>>

(* Mutant of PayAccepted: the nonce is checked but not used up. *)
PayAcceptedUnused(r) ==
    /\ AtPay(r)
    /\ P!Paid(req[r].kind.header)
    /\ accepted' = Append(accepted, [receipt |-> req[r].kind.header.receipt,
                                     at |-> wall, epoch |-> epoch])
    /\ Enter(r)
    /\ UNCHANGED <<metered, limiterVars, wall, seen, settled, epoch>>

PayAccepted(r) ==
    /\ AtPay(r)
    /\ P!Accept(req[r].kind.header)
    /\ Enter(r)
    /\ UNCHANGED <<metered, limiterVars>>

(* Mutants of PayRefused: the limiter's hit is given back; no answer to a  *)
(* request without a receipt.                                              *)
PayRefusedRefunds(r) ==
    /\ AtPay(r)
    /\ ~ P!Paid(req[r].kind.header) /\ ~ P!Raises(req[r].kind.header)
    /\ Reply(r, 402)
    /\ state' = [t \in DOMAIN state |-> [state[t] EXCEPT !.count = @ - 1]]
    /\ UNCHANGED <<metered, now, admits, refused, paymentVars>>

PayRefusedSilently(r) ==
    /\ AtPay(r)
    /\ P!Decodes(req[r].kind.header)
    /\ ~ P!Paid(req[r].kind.header) /\ ~ P!Raises(req[r].kind.header)
    /\ Reply(r, 402)
    /\ UNCHANGED <<metered, limiterVars, paymentVars>>

PayRefused(r) ==
    /\ AtPay(r)
    /\ ~ P!Paid(req[r].kind.header) /\ ~ P!Raises(req[r].kind.header)
    /\ Reply(r, 402)
    /\ UNCHANGED <<metered, limiterVars, paymentVars>>

PayRaises(r) ==
    /\ AtPay(r)
    /\ P!Raises(req[r].kind.header)
    /\ Reply(r, 500)
    /\ UNCHANGED <<metered, limiterVars, paymentVars>>

(* The session manager answers, with whatever status. *)
Answer(r) ==
    /\ req[r].pc = "mcp"
    /\ Reply(r, 200)
    /\ UNCHANGED <<metered, limiterVars, paymentVars>>

Serve(r) ==
    \/ Probe(r) \/ PassThrough(r)
    \/ Unauthorized(r) \/ CompareFails(r) \/ Admitted(r) \/ Limited(r)
    \/ PayAccepted(r) \/ PayRefused(r) \/ PayRaises(r)

Tick == L!Tick /\ UNCHANGED <<req, metered, paymentVars>>

Settle(x) == P!Settle(x) /\ UNCHANGED <<req, metered, limiterVars>>

SetClock(t) == P!SetClock(t) /\ UNCHANGED <<req, metered, limiterVars>>

(* The process dies and is started again, perhaps in the other mode: the   *)
(* exchanges under way are cut, the limiter and the nonces are lost.       *)
Restart ==
    /\ P!Restart
    /\ L!Restart
    /\ metered' \in BOOLEAN
    /\ req' = [r \in Reqs |->
                  IF req[r].pc \in {"idle", "done"} THEN req[r]
                  ELSE [req[r] EXCEPT !.pc = "gone"]]

Next ==
    \/ \E r \in Reqs : Serve(r) \/ Answer(r) \/ \E k \in Kinds : Arrive(r, k)
    \/ Tick
    \/ \E x \in Receipts : Settle(x)
    \/ \E t \in 0..MaxWall : SetClock(t)
    \/ Restart

(* asyncio runs every ready task; the session manager may take for ever. *)
Fairness == \A r \in Reqs : WF_vars(Serve(r))

Spec == Init /\ [][Next]_vars /\ Fairness

-----------------------------------------------------------------------------
(* Every variable has its type, those of the limiter and the verifier      *)
(* included, and a request has a kind once it was sent.  (build_http_app)  *)
TypeOK ==
    /\ req \in [Reqs -> [pc : {"idle", "probe", "gate", "pay", "mcp", "done", "gone"},
                         kind : Kinds \union {None},
                         status : {0, 200, 401, 402, 429, 500},
                         entered : {"no", "free", "metered"}]]
    /\ \A r \in Reqs : req[r].pc = "idle" <=> req[r].kind = None
    /\ metered \in BOOLEAN
    /\ L!TypeOK
    /\ P!TypeOK

(* The requests that reached the MCP handler of a metered process. *)
Metered == {r \in Reqs : req[r].entered = "metered" /\ req[r].kind.scope = "http"}

Bought(r, x) == req[r].kind.header = P!Carrying(x)

NamesServerToken(k) == k.scheme = "bearer" /\ Strip[k.token] = ServerToken

(* Fail-closed: an HTTP request reaches the MCP handler only with the      *)
(* server's token, and never after it was answered 401, 402, 429 or 500.   *)
(* (The short circuits of the two middlewares)                             *)
FailClosed ==
    \A r \in Reqs :
        req[r].entered # "no" =>
            /\ req[r].status \in {0, 200}
            /\ req[r].kind.scope = "http" => NamesServerToken(req[r].kind)

(* The token as it was configured, or what strip makes equal to it. *)
CarriesServerToken(k) == k.scheme = "bearer" /\ ServerToken \in {k.token, Strip[k.token]}

(* The other way round, who sends the server's token, as it was configured *)
(* or with spaces around it, is not locked out: whatever others sent       *)
(* before, it is answered 401 by no path, nor 500 before its receipt is    *)
(* looked at.  Of a token that is configured with spaces around it, or is  *)
(* not ASCII, this does not hold.  (decode, strip and compare_digest in    *)
(* BearerAuthASGIMiddleware, against the unstripped _resolve_auth_token)   *)
OwnerIsAdmitted ==
    \A r \in Reqs :
        LET k == req[r].kind IN
        k # None /\ CarriesServerToken(k) /\ k.route = "mcp" =>
            /\ req[r].status # 401
            /\ req[r].status = 500 => P!Raises(k.header)

(* Requests that fail authentication leave the limiter as it was: they can *)
(* neither use up the quota nor grow its table.  (Authentication precedes  *)
(* RateLimiter.check in BearerAuthASGIMiddleware)                          *)
StrangersLeaveNoTrace ==
    \A t \in Tokens \ {ServerToken} : t \notin DOMAIN state /\ refused[t] = {}

(* Callers are authenticated and counted before they are charged: no       *)
(* receipt is used without an admission of its own by the limiter.  (The   *)
(* order auth -> payment -> MCP built by build_http_app)                   *)
ChargedOnlyAdmitted == Cardinality(P!Served(epoch)) <= Len(admits[ServerToken])

(* The receipts balance: each receipt was accepted exactly as often as it  *)
(* let a request into the MCP handler, and nothing else entered.  No       *)
(* request enters a metered process for free, and none that was turned     *)
(* away loses its receipt.  (PaymentASGIMiddleware behind the bearer gate) *)
ReceiptsBalance ==
    /\ Cardinality(Metered) = Len(accepted)
    /\ \A x \in Receipts :
          Cardinality({i \in DOMAIN accepted : accepted[i].receipt = x})
            = Cardinality({r \in Metered : Bought(r, x)})

(* Behind concurrent requests the limiter and the verifier still behave as *)
(* RateLimiter and Payments say, so that what those promise holds here.    *)
ComponentsKept == L!Spec /\ P!Spec

(* In paid mode the endpoint sells calls: what enters the MCP handler is   *)
(* what was bought, one call per settlement and process.                   *)
Shop == INSTANCE PayPerCall WITH
    Purchases <- Receipts,
    bought    <- settled,
    used      <- {accepted[i].receipt : i \in P!Served(epoch)},
    calls     <- [x \in Receipts |-> Cardinality({r \in Metered : Bought(r, x)})]

SellsCalls == Shop!Spec

(* Every request to the mount is decided: it is answered or reaches the    *)
(* MCP handler, unless the process dies first.                             *)
Decided == \A r \in Reqs : req[r].pc \in {"gate", "pay"} ~> req[r].pc \in {"mcp", "done", "gone"}

(* http_transport.py, "fail-closed (401 on missing/bad token)".            *)
BadTokenGets401 ==
    \A r \in Reqs :
        LET k == req[r].kind IN
        req[r].pc = "done" /\ k.route = "mcp" /\ k.scope = "http" /\ ~ NamesServerToken(k)
            => req[r].status = 401

(* generate_a2mcp_manifest.py, "Per-call price ... keyed by MCP tool": a   *)
(* call is let in for no less than the price its tool is advertised at.    *)
AdvertisedPricePaid ==
    \A r \in Metered : \A x \in Receipts :
        Bought(r, x) => x.amount >= AdvertisedPrice[req[r].kind.tool]

=============================================================================
