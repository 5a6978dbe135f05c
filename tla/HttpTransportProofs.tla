------------------------ MODULE HttpTransportProofs ------------------------
(***************************************************************************)
(* The gates of the HTTP transport, for any number of concurrent requests, *)
(* any tokens, receipts and prices, and any restarts.                      *)
(*                                                                         *)
(* Three layers, each using the one before: where a request stands says    *)
(* what it has passed (Placed); every step is one of the limiter and one   *)
(* of the verifier, so that their theorems hold here; and the requests let *)
(* in, the receipts accepted and the admissions are counted (Balanced).    *)
(***************************************************************************)
EXTENDS HttpTransport, FiniteSetTheorems, SequenceTheorems, TLAPS

LP == INSTANCE RateLimiterProofs WITH Keys <- Tokens
PP == INSTANCE PaymentsProofs

-----------------------------------------------------------------------------
Places == {"idle", "probe", "gate", "pay", "mcp", "done", "gone"}
Statuses == {0, 200, 401, 402, 429, 500}
Entrances == {"no", "free", "metered"}

Exchanges == [pc : Places, kind : Kinds \union {None},
              status : Statuses, entered : Entrances]

(* What TypeOK says of this module's own variables. *)
ReqOK ==
    /\ req \in [Reqs -> Exchanges]
    /\ \A r \in Reqs : req[r].pc = "idle" <=> req[r].kind = None
    /\ metered \in BOOLEAN

(* Where a request stands says which gates it has passed, and what was     *)
(* answered says where it was stopped.                                     *)
PlacedAt(r) ==
    LET q == req[r] IN
    /\ q.pc \in {"idle", "probe", "gate", "pay"} => q.entered = "no"
    /\ q.pc \notin {"done"} => q.status = 0
    /\ q.pc = "probe" => q.kind.route = "healthz"
    /\ q.pc = "pay" => metered /\ q.kind.scope = "http" /\ NamesServerToken(q.kind)
    /\ q.entered # "no" =>
          /\ q.status \in {0, 200}
          /\ q.kind.scope = "http" => NamesServerToken(q.kind)

Placed == \A r \in Reqs : PlacedAt(r)

-----------------------------------------------------------------------------
(* A request that was sent is one of the kinds, with a token and a header. *)
LEMMA SentKind ==
    ASSUME ReqOK, NEW r \in Reqs, req[r].pc # "idle"
    PROVE  /\ req[r].kind \in Kinds
           /\ Presented(req[r].kind) \in Tokens
           /\ req[r].kind.header \in P!Headers
<1>1. req[r].kind \in Kinds
  BY DEF ReqOK, Exchanges
<1>2. KindShape(req[r].kind)
  BY <1>1, KindsAssumption
<1> QED
  BY <1>1, <1>2, TokensAssumption DEF KindShape, Presented

(* The token that passes is the server's. *)
LEMMA AuthenticNames ==
    ASSUME NEW k, Authentic(k)
    PROVE  Presented(k) = ServerToken /\ NamesServerToken(k)
  BY TokensAssumption DEF Authentic, Presented, NamesServerToken

-----------------------------------------------------------------------------
(* Layer 1: every step moves one request, or none, or cuts them all. *)

(* At first no request has been sent. *)
LEMMA InitPlaced == Init => ReqOK /\ Placed
  BY KindsAssumption DEF Init, ReqOK, Placed, PlacedAt, Exchanges, Places, Statuses, Entrances

(* Only request r moves, and keeps the kind it was sent with. *)
Moves(r, pc, status, entered) ==
    /\ req' \in [Reqs -> Exchanges]
    /\ \A j \in Reqs \ {r} : req'[j] = req[j]
    /\ req'[r].pc = pc /\ req'[r].status = status /\ req'[r].entered = entered
    /\ req'[r].kind = req[r].kind

(* An answer ends the request. *)
LEMMA ReplyMoves ==
    ASSUME ReqOK, NEW r \in Reqs, NEW s \in Statuses, Reply(r, s)
    PROVE  Moves(r, "done", s, req[r].entered)
<1>1. "done" \in Places
  BY DEF Places
<1> QED
  BY <1>1 DEF ReqOK, Exchanges, Reply, Moves

(* It is let in, and metered in a metered process. *)
LEMMA EnterMoves ==
    ASSUME ReqOK, NEW r \in Reqs, Enter(r)
    PROVE  Moves(r, "mcp", req[r].status, IF metered THEN "metered" ELSE "free")
<1>1. "mcp" \in Places /\ (IF metered THEN "metered" ELSE "free") \in Entrances
  BY DEF Places, Entrances
<1> QED
  BY <1>1 DEF ReqOK, Exchanges, Enter, Moves

(* It goes on to the payment gate. *)
LEMMA PayMoves ==
    ASSUME ReqOK, NEW r \in Reqs, req' = [req EXCEPT ![r].pc = "pay"]
    PROVE  Moves(r, "pay", req[r].status, req[r].entered)
<1>1. "pay" \in Places
  BY DEF Places
<1> QED
  BY <1>1 DEF ReqOK, Exchanges, Moves

(* One request's move keeps every request in its place, if it agrees with  *)
(* the gates that request has passed.                                      *)
LEMMA MoveKeeps ==
    ASSUME ReqOK, Placed, NEW r \in Reqs, NEW pc, NEW status, NEW entered,
           Moves(r, pc, status, entered), metered' = metered,
           req[r].pc # "idle", pc # "idle",
           pc \in {"probe", "gate", "pay"} => entered = "no",
           pc # "done" => status = 0,
           pc = "probe" => req[r].kind.route = "healthz",
           pc = "pay" => metered /\ req[r].kind.scope = "http" /\ NamesServerToken(req[r].kind),
           entered # "no" => status \in {0, 200},
           entered # "no" /\ req[r].kind.scope = "http" => NamesServerToken(req[r].kind)
    PROVE  ReqOK' /\ Placed'
<1>1. ReqOK'
  BY DEF ReqOK, Moves
<1>2. ASSUME NEW j \in Reqs PROVE PlacedAt(j)'
  <2>1. CASE j = r
    BY <2>1 DEF Placed, PlacedAt, NamesServerToken, Moves
  <2>2. CASE j # r
    BY <2>2 DEF Placed, PlacedAt, NamesServerToken, Moves
  <2> QED
    BY <2>1, <2>2
<1> QED
  BY <1>1, <1>2 DEF Placed

(* Every way through the gates keeps it. *)
LEMMA ServePlaced ==
    ASSUME ReqOK, Placed, NEW r \in Reqs, Serve(r)
    PROVE  ReqOK' /\ Placed'
<1>1. PlacedAt(r)
  BY DEF Placed
<1>2. ASSUME NEW s \in Statuses, Reply(r, s),
             req[r].pc \in {"probe", "gate", "pay"}, metered' = metered
      PROVE  ReqOK' /\ Placed'
  <2>1. Moves(r, "done", s, req[r].entered)
    BY <1>2, ReplyMoves
  <2> QED
    BY <1>1, <1>2, <2>1, MoveKeeps DEF PlacedAt
<1>3. ASSUME Enter(r), req[r].pc \in {"gate", "pay"}, metered' = metered,
             req[r].kind.scope = "http" => NamesServerToken(req[r].kind)
      PROVE  ReqOK' /\ Placed'
  <2>1. Moves(r, "mcp", req[r].status, IF metered THEN "metered" ELSE "free")
    BY <1>3, EnterMoves
  <2> QED
    BY <1>1, <1>3, <2>1, MoveKeeps DEF PlacedAt
<1>4. {200, 401, 402, 429, 500} \subseteq Statuses
  BY DEF Statuses
<1>5. CASE Admitted(r)
  <2>1. NamesServerToken(req[r].kind) /\ req[r].kind.scope = "http" /\ req[r].pc = "gate"
        /\ metered' = metered
    BY <1>5, AuthenticNames DEF Admitted, AtGate
  <2>2. CASE metered
    <3>1. Moves(r, "pay", req[r].status, req[r].entered)
      BY <1>5, <2>2, PayMoves DEF Admitted
    <3> QED
      BY <1>1, <2>1, <2>2, <3>1, MoveKeeps DEF PlacedAt
  <2>3. CASE ~ metered
    BY <1>3, <1>5, <2>1, <2>3 DEF Admitted
  <2> QED
    BY <2>2, <2>3
<1>6. CASE PassThrough(r) \/ PayAccepted(r)
  BY <1>1, <1>3, <1>6 DEF PassThrough, PayAccepted, AtPay, PlacedAt
<1>7. CASE Probe(r) \/ Unauthorized(r) \/ CompareFails(r) \/ Limited(r)
             \/ PayRefused(r) \/ PayRaises(r)
  BY <1>2, <1>4, <1>7
     DEF Probe, Unauthorized, CompareFails, Limited, PayRefused, PayRaises, AtGate, AtPay
<1> QED
  BY <1>5, <1>6, <1>7 DEF Serve

(* Another request's step leaves this one alone. *)
LEMMA OthersKeep ==
    ASSUME ReqOK, NEW r \in Reqs, NEW j \in Reqs \ {r},
           Serve(j) \/ Answer(j) \/ \E k \in Kinds : Arrive(j, k)
    PROVE  req'[r] = req[r]
<1>1. DOMAIN req = Reqs
  BY DEF ReqOK
<1> QED
  BY <1>1 DEF Serve, Probe, PassThrough, Unauthorized, CompareFails, Admitted, Limited,
     PayAccepted, PayRefused, PayRaises, Reply, Enter, Answer, Arrive

(* Every step keeps requests in their places. *)
LEMMA NextPlaced == ReqOK /\ Placed /\ [Next]_vars => ReqOK' /\ Placed'
<1> SUFFICES ASSUME ReqOK, Placed, [Next]_vars PROVE ReqOK' /\ Placed'
  OBVIOUS
<1>1. ASSUME NEW r \in Reqs, Serve(r) PROVE ReqOK' /\ Placed'
  BY <1>1, ServePlaced
<1>2. ASSUME NEW r \in Reqs, Answer(r) PROVE ReqOK' /\ Placed'
  <2>1. Moves(r, "done", 200, req[r].entered)
    BY <1>2, ReplyMoves DEF Answer, Statuses
  <2>2. metered' = metered /\ req[r].pc = "mcp" /\ PlacedAt(r)
    BY <1>2 DEF Answer, Placed
  <2> QED
    BY <2>1, <2>2, MoveKeeps DEF PlacedAt
<1>3. ASSUME NEW r \in Reqs, NEW k \in Kinds, Arrive(r, k) PROVE ReqOK' /\ Placed'
  <2> DEFINE pc == IF k.route = "mcp" THEN "gate" ELSE "probe"
  <2>1. /\ metered' = metered /\ req[r].pc = "idle" /\ PlacedAt(r)
        /\ k # None /\ k.route \in {"mcp", "healthz"} /\ pc \in Places
    BY <1>3, KindsAssumption DEF Arrive, KindShape, Placed, Places
  <2>2. req' = [req EXCEPT ![r].pc = pc, ![r].kind = k]
    BY <1>3 DEF Arrive
  <2>3. /\ req' \in [Reqs -> Exchanges]
        /\ \A j \in Reqs \ {r} : req'[j] = req[j]
        /\ req'[r].pc = pc /\ req'[r].kind = k
        /\ req'[r].status = req[r].status /\ req'[r].entered = req[r].entered
    <3> HIDE DEF pc
    <3> QED
      BY <2>1, <2>2 DEF ReqOK, Exchanges
  <2>4. ReqOK'
    BY <2>1, <2>3 DEF ReqOK
  <2>5. ASSUME NEW j \in Reqs PROVE PlacedAt(j)'
    <3>1. CASE j = r
      BY <2>1, <2>3, <3>1 DEF PlacedAt, NamesServerToken
    <3>2. CASE j # r
      BY <2>1, <2>3, <3>2 DEF Placed, PlacedAt, NamesServerToken
    <3> QED
      BY <3>1, <3>2
  <2> QED
    BY <2>4, <2>5 DEF Placed
<1>4. CASE Restart
  <2>1. "gone" \in Places
    BY DEF Places
  <2>2. ASSUME NEW j \in Reqs
        PROVE  /\ req'[j] \in Exchanges
               /\ req'[j].kind = req[j].kind /\ req'[j].status = req[j].status
               /\ req'[j].entered = req[j].entered
               /\ req'[j].pc = IF req[j].pc \in {"idle", "done"} THEN req[j].pc ELSE "gone"
    <3>1. req'[j] = IF req[j].pc \in {"idle", "done"} THEN req[j]
                    ELSE [req[j] EXCEPT !.pc = "gone"]
      BY <1>4 DEF Restart
    <3> QED
      BY <2>1, <3>1 DEF ReqOK, Exchanges
  <2>3. req' \in [Reqs -> Exchanges] /\ metered' \in BOOLEAN
    BY <1>4, <2>2 DEF Restart
  <2>4. ReqOK'
    BY <2>2, <2>3 DEF ReqOK
  <2>5. ASSUME NEW j \in Reqs PROVE PlacedAt(j)'
    BY <2>2 DEF Placed, PlacedAt, NamesServerToken
  <2> QED
    BY <2>4, <2>5 DEF Placed
<1>5. ASSUME UNCHANGED <<req, metered>> PROVE ReqOK' /\ Placed'
  BY <1>5 DEF ReqOK, Placed, PlacedAt, NamesServerToken
<1> QED
  BY <1>1, <1>2, <1>3, <1>4, <1>5 DEF Next, Tick, Settle, SetClock, vars

-----------------------------------------------------------------------------
(* Layer 2: the components.  What a step does to the limiter's variables   *)
(* is a step of the limiter, and to the verifier's one of the verifier.    *)

(* Every step is one of the limiter, or none, and one of the verifier, or  *)
(* none.                                                                   *)
LEMMA StepOfComponents ==
    ASSUME ReqOK, [Next]_vars
    PROVE  [L!Next]_(L!vars) /\ [P!Next]_(P!vars)
<1> USE DEF limiterVars, paymentVars, L!vars, L!limiterVars, P!vars
<1>1. ASSUME NEW r \in Reqs, Serve(r)
      PROVE  [L!Next]_(L!vars) /\ [P!Next]_(P!vars)
  <2>1. CASE Admitted(r)
    <3>1. Presented(req[r].kind) \in Tokens
      BY <2>1, SentKind DEF Admitted, AtGate
    <3> QED
      BY <2>1, <3>1 DEF Admitted, L!Next, L!Check
  <2>2. CASE Limited(r)
    <3>1. Presented(req[r].kind) \in Tokens
      BY <2>2, SentKind DEF Limited, AtGate
    <3> QED
      BY <2>2, <3>1 DEF Limited, L!Next, L!Check
  <2>3. CASE PayAccepted(r)
    <3>1. req[r].kind.header \in P!Headers
      BY <2>3, SentKind DEF PayAccepted, AtPay
    <3> QED
      BY <2>3, <3>1 DEF PayAccepted, P!Next, P!Verify
  <2>4. ASSUME UNCHANGED <<limiterVars, paymentVars>>
        PROVE  [L!Next]_(L!vars) /\ [P!Next]_(P!vars)
    BY <2>4
  <2> QED
    BY <1>1, <2>1, <2>2, <2>3, <2>4 DEF Serve, Probe, PassThrough, Unauthorized,
       CompareFails, PayRefused, PayRaises
<1>2. CASE Tick
  BY <1>2 DEF Tick, L!Next
<1>3. ASSUME NEW x \in Receipts, Settle(x)
      PROVE  [L!Next]_(L!vars) /\ [P!Next]_(P!vars)
  BY <1>3 DEF Settle, P!Next
<1>4. ASSUME NEW t \in 0..MaxWall, SetClock(t)
      PROVE  [L!Next]_(L!vars) /\ [P!Next]_(P!vars)
  BY <1>4 DEF SetClock, P!Next
<1>5. CASE Restart
  BY <1>5 DEF Restart, L!Next, P!Next
<1> QED
  BY <1>1, <1>2, <1>3, <1>4, <1>5 DEF Next, Answer, Arrive, vars

(* Behind concurrent requests, whatever races and restarts, the limiter    *)
(* and the verifier behave as RateLimiter and Payments say.                *)
THEOREM ComponentsAreKept == Spec => ComponentsKept
<1>1. Init => L!Init /\ P!Init
  BY DEF Init
<1>2. ReqOK /\ [Next]_vars => [L!Next]_(L!vars) /\ [P!Next]_(P!vars)
  BY StepOfComponents
<1> QED
  BY <1>1, <1>2, InitPlaced, NextPlaced, PTL DEF Spec, ComponentsKept, L!Spec, P!Spec

(* So the theorems of the two hold for the composition. *)
LEMMA SameLimiter == L!Spec => LP!Spec
<1>1. L!Init => LP!Init
  BY DEF L!Init, LP!Init
<1>2. [L!Next]_(L!vars) => [LP!Next]_(LP!vars)
  BY DEF L!Next, LP!Next, L!vars, LP!vars, L!limiterVars, LP!limiterVars,
         L!Tick, LP!Tick, L!Restart, LP!Restart, L!Check, LP!Check, L!Admit, LP!Admit,
         L!Refuse, LP!Refuse, L!Exhausted, LP!Exhausted, L!Current, LP!Current,
         L!Entry, LP!Entry, L!RetryAfter, LP!RetryAfter, L!Limit, LP!Limit
<1> QED
  BY <1>1, <1>2, PTL DEF L!Spec, LP!Spec

(* The same for the verifier, which the proofs instantiate once more. *)
LEMMA SameVerifier == P!Spec => PP!Spec
<1> USE DEF P!Presentable, PP!Presentable, P!Paid, PP!Paid, P!Raises, PP!Raises,
            P!Decodes, PP!Decodes, P!Genuine, PP!Genuine, P!MeetsTerms, PP!MeetsTerms,
            P!AmountCovers, PP!AmountCovers, P!Float, PP!Float, P!InDate, PP!InDate, P!Fresh, PP!Fresh
<1>1. P!Init => PP!Init
  BY DEF P!Init, PP!Init
<1>2. P!Headers = PP!Headers /\ P!vars = PP!vars
  BY DEF P!Headers, PP!Headers, P!NoHeader, PP!NoHeader, P!Malformed, PP!Malformed,
         P!TooDeep, PP!TooDeep, P!Carrying, PP!Carrying, P!vars, PP!vars
<1>3. ASSUME NEW h, P!Verify(h) PROVE PP!Verify(h)
  BY <1>3 DEF P!Verify, PP!Verify, P!Accept, PP!Accept, P!Decline, PP!Decline,
              P!Burn, PP!Burn, P!vars, PP!vars
<1>4. [P!Next]_(P!vars) => [PP!Next]_(PP!vars)
  BY <1>2, <1>3 DEF P!Next, PP!Next, P!vars, PP!vars, P!Settle, PP!Settle,
                    P!SetClock, PP!SetClock, P!Restart, PP!Restart
<1> QED
  BY <1>1, <1>4, PTL DEF P!Spec, PP!Spec

(* What is needed of the limiter: its types. *)
LEMMA LimiterTyped == L!Spec => []L!TypeOK
<1>1. LP!TypeOK => L!TypeOK
  BY DEF LP!TypeOK, L!TypeOK, LP!Limit, L!Limit
<1>2. LP!Spec => []LP!TypeOK
  BY LP!TypeCorrect, LimiterAssumption
<1> QED
  BY <1>1, <1>2, SameLimiter, PTL

(* What is needed of the verifier: its types, and that a used nonce is     *)
(* that of a receipt accepted in this process.                             *)
LEMMA VerifierKept == P!Spec => [](P!TypeOK /\ P!BurntIffAccepted)
<1>1. PP!TypeOK /\ PP!BurntIffAccepted => P!TypeOK /\ P!BurntIffAccepted
  BY DEF PP!TypeOK, P!TypeOK, PP!BurntIffAccepted, P!BurntIffAccepted, PP!Served, P!Served
<1>2. (\A r \in Receipts : PP!ReceiptShape(r))
  BY PaymentsAssumption DEF P!ReceiptShape, PP!ReceiptShape
<1>3. PP!Spec => []PP!TypeOK
  BY <1>2, PP!TypeCorrect, PaymentsAssumption
<1>4. PP!Spec => []PP!BurntIffAccepted
  BY <1>2, PP!OnlyServiceBurns, PaymentsAssumption
<1> QED
  BY <1>1, <1>3, <1>4, SameVerifier, PTL

(* Whatever requests race, and for any number of them, the endpoint keeps  *)
(* the promises of both: no window of twice the limit, no refusal without  *)
(* cause or with a wrong Retry-After, no nonce used twice by a process,    *)
(* and no call without a settlement of its own.                            *)
THEOREM EndpointKeepsPromises ==
    Spec => []( /\ L!SlidingBound /\ L!NoFalseRefusal /\ L!RetryHonoured /\ L!RetryNextSecond
                /\ P!SingleUse /\ P!NothingForFree )
<1>1. LP!SlidingBound /\ LP!NoFalseRefusal /\ LP!RetryHonoured /\ LP!RetryNextSecond
        => L!SlidingBound /\ L!NoFalseRefusal /\ L!RetryHonoured /\ L!RetryNextSecond
  BY DEF LP!SlidingBound, L!SlidingBound, LP!NoFalseRefusal, L!NoFalseRefusal,
         LP!RetryHonoured, L!RetryHonoured, LP!RetryNextSecond, L!RetryNextSecond, LP!Limit, L!Limit,
         LP!Exhausted, L!Exhausted, LP!Current, L!Current, LP!Entry, L!Entry
<1>2. LP!Spec => [](LP!SlidingBound /\ LP!NoFalseRefusal /\ LP!RetryHonoured /\ LP!RetryNextSecond)
  <2>1. LP!Spec => []LP!SlidingBound
    BY LP!AtMostTwiceTheLimit, LimiterAssumption
  <2>2. LP!Spec => []LP!NoFalseRefusal
    BY LP!RefusalsAreDeserved, LimiterAssumption
  <2>3. LP!Spec => []LP!RetryHonoured
    BY LP!WaitingSuffices, LimiterAssumption
  <2>4. LP!Spec => []LP!RetryNextSecond
    BY LP!WaitIsNextSecond, LimiterAssumption
  <2> QED
    BY <2>1, <2>2, <2>3, <2>4, PTL
<1>3. PP!SingleUse /\ PP!NothingForFree => P!SingleUse /\ P!NothingForFree
  BY DEF PP!SingleUse, P!SingleUse, PP!NothingForFree, P!NothingForFree, PP!Served, P!Served
<1>4. PP!Spec => [](PP!SingleUse /\ PP!NothingForFree)
  <2>1. \A r \in Receipts : PP!ReceiptShape(r)
    BY PaymentsAssumption DEF P!ReceiptShape, PP!ReceiptShape
  <2>2. PP!Spec => []PP!SingleUse
    BY <2>1, PP!NoncesAreSingleUse, PaymentsAssumption
  <2>3. PP!Spec => []PP!NothingForFree
    BY <2>1, PP!CallsAreBacked, PaymentsAssumption
  <2> QED
    BY <2>2, <2>3, PTL
<1> QED
  BY <1>1, <1>2, <1>3, <1>4, ComponentsAreKept, SameLimiter, SameVerifier, PTL DEF ComponentsKept

(* The types of all variables, and where requests stand. *)
Safe == ReqOK /\ Placed /\ L!TypeOK /\ P!TypeOK /\ P!BurntIffAccepted

(* The first two layers hold in every state. *)
LEMMA AlwaysSafe == Spec => []Safe
<1>1. Spec => [](ReqOK /\ Placed)
  BY InitPlaced, NextPlaced, PTL DEF Spec
<1> QED
  BY <1>1, ComponentsAreKept, LimiterTyped, VerifierKept, PTL DEF Safe, ComponentsKept

-----------------------------------------------------------------------------
(* What the state of the requests alone shows. *)

(* Every variable keeps its type, whatever the interleaving. *)
THEOREM TypeCorrect == Spec => []TypeOK
<1>1. Safe => TypeOK
  BY DEF Safe, TypeOK, ReqOK, Exchanges, Places, Statuses, Entrances
<1> QED
  BY <1>1, AlwaysSafe, PTL

(* The two middlewares: no way to the MCP handler but with the server's    *)
(* token, and none after a refusal.                                        *)
THEOREM GatesFailClosed == Spec => []FailClosed
<1>1. Safe => FailClosed
  BY DEF Safe, FailClosed, Placed, PlacedAt
<1> QED
  BY <1>1, AlwaysSafe, PTL

(* Who sends the token as it was configured, or with spaces around it, is  *)
(* never answered 401 by the bearer gate, nor 500, provided the configured *)
(* token is ASCII and has no spaces around it: one that is not ASCII       *)
(* cannot be compared, one with spaces is compared unstripped, and either  *)
(* locks everybody out, its owner too.                                     *)
THEOREM OwnerGetsIn ==
    ASSUME ServerToken \notin NonAscii, Strip[ServerToken] = ServerToken
    PROVE  Spec => []OwnerIsAdmitted
<1> DEFINE Owned(r) == LET k == req[r].kind IN
               k # None /\ CarriesServerToken(k) /\ k.route = "mcp" =>
                   req[r].status # 401 /\ (req[r].status = 500 => P!Raises(k.header))
<1>1. Init => OwnerIsAdmitted
  BY DEF Init, OwnerIsAdmitted
<1>2. ASSUME Safe, OwnerIsAdmitted, [Next]_vars
      PROVE  OwnerIsAdmitted'
  <2>1. ReqOK /\ ReqOK' /\ Placed /\ Placed' /\ \A r \in Reqs : Owned(r)
    BY <1>2, NextPlaced DEF Safe, OwnerIsAdmitted
  <2>2. ASSUME NEW r \in Reqs, UNCHANGED <<req[r].kind, req[r].status>>
        PROVE  Owned(r)'
    BY <2>1, <2>2 DEF CarriesServerToken, P!Raises, P!Decodes, P!Genuine, P!MeetsTerms,
                      P!AmountCovers, P!Float
  <2>3. ASSUME NEW r \in Reqs, req'[r].status = 0 \/ req'[r].status \in {200, 402, 429}
        PROVE  Owned(r)'
    BY <2>3
  <2>4. ASSUME NEW r \in Reqs, NEW s \in Statuses, Reply(r, s)
        PROVE  req'[r].status = s /\ req'[r].kind = req[r].kind
    BY <2>1, <2>4, ReplyMoves DEF Moves
  <2>5. ASSUME NEW r \in Reqs, NEW j \in Reqs, Serve(j)
        PROVE  Owned(r)'
    <3>1. CASE r # j
      BY <2>1, <2>2, <2>5, <3>1, OthersKeep
    <3>2. CASE r = j /\ (Unauthorized(r) \/ CompareFails(r))
      <4>1. ~ CarriesServerToken(req[r].kind)
        BY <3>2, TokensAssumption
           DEF Unauthorized, CompareFails, Presented, CarriesServerToken, Comparable
      <4>2. req'[r].kind = req[r].kind
        BY <2>4, <3>2 DEF Unauthorized, CompareFails, Statuses
      <4> QED
        BY <4>1, <4>2 DEF CarriesServerToken
    <3>3. CASE r = j /\ PayRaises(r)
      <4>1. req'[r].kind = req[r].kind
        BY <2>4, <3>3 DEF PayRaises, Statuses
      <4>2. P!Raises(req[r].kind.header)' /\ req'[r].status = 500
        BY <2>4, <3>3, <4>1 DEF PayRaises, Statuses, P!Raises, P!Decodes, P!Genuine,
           P!MeetsTerms, P!AmountCovers, P!Float
      <4> QED
        BY <4>2
    <3>4. CASE r = j /\ (Probe(r) \/ PayRefused(r) \/ Limited(r))
      BY <2>3, <2>4, <3>4 DEF Probe, PayRefused, Limited, Statuses
    <3>5. CASE r = j /\ (PassThrough(r) \/ Admitted(r) \/ PayAccepted(r))
      <4>1. req'[r].pc # "done"
        BY <2>1, <3>5, EnterMoves, PayMoves DEF PassThrough, Admitted, PayAccepted, Moves
      <4> QED
        BY <2>1, <2>3, <4>1 DEF Placed, PlacedAt
    <3> QED
      BY <2>5, <3>1, <3>2, <3>3, <3>4, <3>5 DEF Serve
  <2>6. ASSUME NEW r \in Reqs, NEW j \in Reqs, Answer(j) \/ \E k \in Kinds : Arrive(j, k)
        PROVE  Owned(r)'
    <3>1. CASE r # j
      BY <2>1, <2>2, <2>6, <3>1, OthersKeep
    <3>2. CASE r = j /\ Answer(r)
      BY <2>3, <2>4, <3>2 DEF Answer, Statuses
    <3>3. CASE r = j /\ \E k \in Kinds : Arrive(r, k)
      <4>1. req'[r].status = req[r].status /\ req[r].status = 0
        BY <2>1, <3>3 DEF Arrive, ReqOK, Placed, PlacedAt
      <4> QED
        BY <2>3, <4>1
    <3> QED
      BY <2>6, <3>1, <3>2, <3>3
  <2>7. ASSUME NEW r \in Reqs, Restart
        PROVE  Owned(r)'
    BY <2>1, <2>2, <2>7 DEF Restart, ReqOK, Exchanges
  <2>8. ASSUME NEW r \in Reqs, UNCHANGED req
        PROVE  Owned(r)'
    BY <2>2, <2>8
  <2>9. \A r \in Reqs : Owned(r)'
    BY <1>2, <2>5, <2>6, <2>7, <2>8 DEF Next, Tick, Settle, SetClock, vars
  <2> QED
    BY <2>9 DEF OwnerIsAdmitted
<1> QED
  BY <1>1, <1>2, AlwaysSafe, PTL DEF Spec

-----------------------------------------------------------------------------
(* What the limiter is asked. *)

(* Only the server's token reaches the limiter. *)
LEMMA LimiterAsked ==
    ASSUME Safe, [Next]_vars
    PROVE  \/ L!Admit(ServerToken) \/ L!Refuse(ServerToken) \/ L!Restart
           \/ UNCHANGED <<state, admits, refused>>
<1>1. ASSUME NEW r \in Reqs, Serve(r)
      PROVE  \/ L!Admit(ServerToken) \/ L!Refuse(ServerToken)
             \/ UNCHANGED <<state, admits, refused>>
  BY <1>1, AuthenticNames DEF Serve, Probe, PassThrough, Unauthorized, CompareFails, Admitted,
     Limited, PayAccepted, PayRefused, PayRaises, limiterVars
<1> QED
  BY <1>1 DEF Next, Answer, Arrive, Tick, L!Tick, L!limiterVars, Settle, SetClock, Restart,
              vars, limiterVars

(* Authentication comes before RateLimiter.check: whatever strangers send, *)
(* the limiter has no entry for their tokens and has refused none of them. *)
THEOREM StrangersAreNotCounted == Spec => []StrangersLeaveNoTrace
<1>1. Init => StrangersLeaveNoTrace
  BY DEF Init, L!Init, StrangersLeaveNoTrace
<1>2. Safe /\ StrangersLeaveNoTrace /\ [Next]_vars => StrangersLeaveNoTrace'
  <2> SUFFICES ASSUME Safe, StrangersLeaveNoTrace, [Next]_vars,
                      NEW t \in Tokens \ {ServerToken}
               PROVE  t \notin DOMAIN state' /\ refused'[t] = {}
    BY DEF StrangersLeaveNoTrace
  <2>1. t \notin DOMAIN state /\ refused[t] = {} /\ t \in DOMAIN refused
    BY DEF StrangersLeaveNoTrace, Safe, L!TypeOK
  <2>2. CASE L!Admit(ServerToken)
    BY <2>1, <2>2 DEF L!Admit
  <2>3. CASE L!Refuse(ServerToken)
    BY <2>1, <2>3 DEF L!Refuse
  <2>4. CASE L!Restart
    BY <2>4 DEF L!Restart
  <2> QED
    BY <2>1, <2>2, <2>3, <2>4, LimiterAsked
<1> QED
  BY <1>1, <1>2, AlwaysSafe, PTL DEF Spec

-----------------------------------------------------------------------------
(* Layer 3: counting.  At any moment finitely many requests were let in or *)
(* wait at the payment gate, however many there will be.                   *)

Waiting == {r \in Reqs : req[r].pc = "pay"}

(* The requests that receipt x let in, and the times it was accepted. *)
LetIn(x) == {r \in Metered : Bought(r, x)}
Uses(x) == {i \in DOMAIN accepted : accepted[i].receipt = x}

(* A request at the payment gate has been admitted and not yet charged: it *)
(* is what keeps ChargedOnlyAdmitted from being inductive by itself.       *)
Balanced ==
    /\ IsFiniteSet(Metered) /\ IsFiniteSet(Waiting)
    /\ ReceiptsBalance
    /\ Cardinality(P!Served(epoch)) + Cardinality(Waiting) <= Len(admits[ServerToken])

(* The history after one more acceptance. *)
LEMMA OneMoreUse ==
    ASSUME P!TypeOK, NEW h \in P!Headers, P!Accept(h)
    PROVE  LET n == Len(accepted) IN
           /\ n \in Nat /\ DOMAIN accepted = 1..n /\ Len(accepted') = n + 1
           /\ h = P!Carrying(h.receipt) /\ h.receipt \in Receipts
           /\ epoch' = epoch
           /\ P!Served(epoch)' = P!Served(epoch) \union {n + 1}
           /\ \A x : Uses(x)' = IF x = h.receipt THEN Uses(x) \union {n + 1} ELSE Uses(x)
<1> DEFINE a == [receipt |-> h.receipt, at |-> wall, epoch |-> epoch]
           n == Len(accepted)
<1>1. h.form = "receipt"
  BY DEF P!Accept, P!Paid, P!Decodes
<1>2. h = P!Carrying(h.receipt) /\ h.receipt \in Receipts
  BY <1>1 DEF P!Headers, P!NoHeader, P!Malformed, P!TooDeep, P!Carrying
<1>3. accepted \in Seq([receipt : Receipts, at : Int, epoch : 0..epoch])
      /\ wall \in Int /\ epoch \in Nat
  BY DEF P!TypeOK
<1>4. accepted' = Append(accepted, a) /\ epoch' = epoch
  BY DEF P!Accept
<1>5. a \in [receipt : Receipts, at : Int, epoch : 0..epoch]
  BY <1>2, <1>3
<1>6. /\ n \in Nat /\ DOMAIN accepted = 1..n
      /\ Len(accepted') = n + 1 /\ DOMAIN accepted' = 1..(n + 1)
      /\ \A i \in 1..n : accepted'[i] = accepted[i]
      /\ accepted'[n + 1] = a
  BY <1>3, <1>4, <1>5, AppendProperties, LenProperties
<1>7. a.receipt = h.receipt /\ a.epoch = epoch
  OBVIOUS
<1> HIDE DEF a
<1>8. \A i : i \in DOMAIN accepted' <=> i \in DOMAIN accepted \/ i = n + 1
  BY <1>6
<1>9. P!Served(epoch)' = P!Served(epoch) \union {n + 1}
  BY <1>4, <1>6, <1>7, <1>8 DEF P!Served
<1>10. ASSUME NEW x
       PROVE  Uses(x)' = IF x = h.receipt THEN Uses(x) \union {n + 1} ELSE Uses(x)
  BY <1>6, <1>7, <1>8 DEF Uses
<1> QED
  BY <1>2, <1>4, <1>6, <1>9, <1>10

(* A request whose payment is accepted leaves the payment gate and joins   *)
(* those that its receipt let in.                                          *)
LEMMA OneMoreLetIn ==
    ASSUME Safe, NEW r \in Reqs, PayAccepted(r)
    PROVE  LET p == req[r].kind.header.receipt IN
           /\ r \notin Metered /\ Metered' = Metered \union {r}
           /\ r \in Waiting /\ Waiting' = Waiting \ {r}
           /\ \A x : LetIn(x)' = IF x = p THEN LetIn(x) \union {r} ELSE LetIn(x)
<1> DEFINE p == req[r].kind.header.receipt
<1>1. ReqOK /\ PlacedAt(r) /\ req[r].pc = "pay"
  BY DEF Safe, Placed, PayAccepted, AtPay
<1>2. req[r].kind.header = P!Carrying(p)
  BY <1>1, SentKind, OneMoreUse DEF Safe, PayAccepted
<1>3. metered /\ req[r].entered = "no" /\ req[r].kind.scope = "http"
  BY <1>1 DEF PlacedAt
<1>4. Moves(r, "mcp", req[r].status, "metered")
  BY <1>1, <1>3, EnterMoves DEF PayAccepted
<1>5. /\ \A j \in Reqs : j # r => req'[j] = req[j]
      /\ req'[r].pc = "mcp" /\ req'[r].entered = "metered" /\ req'[r].kind = req[r].kind
  BY <1>4 DEF Moves
<1>6. r \notin Metered /\ Metered' = Metered \union {r}
  <2>1. r \notin Metered
    BY <1>3 DEF Metered
  <2>2. \A j \in Reqs : j \in Metered' <=> j \in Metered \/ j = r
    <3>1. r \in Metered'
      BY <1>3, <1>5 DEF Metered
    <3>2. \A j \in Reqs : j # r => (j \in Metered' <=> j \in Metered)
      BY <1>5 DEF Metered
    <3> QED
      BY <3>1, <3>2
  <2>3. Metered \subseteq Reqs /\ Metered' \subseteq Reqs
    BY DEF Metered
  <2> QED
    BY <2>1, <2>2, <2>3
<1>7. r \in Waiting /\ Waiting' = Waiting \ {r}
  BY <1>1, <1>5 DEF Waiting
<1>8. \A x : P!Carrying(p) = P!Carrying(x) <=> x = p
  BY DEF P!Carrying
<1>9. ASSUME NEW x
      PROVE  LetIn(x)' = IF x = p THEN LetIn(x) \union {r} ELSE LetIn(x)
  <2>1. \A j \in Reqs : req'[j].kind = req[j].kind
    BY <1>5
  <2>2. \A j \in Reqs : Bought(j, x)' <=> Bought(j, x)
    BY <2>1 DEF Bought, P!Carrying
  <2>3. Bought(r, x) <=> x = p
    BY <1>2, <1>8 DEF Bought
  <2>4. Metered \subseteq Reqs
    BY DEF Metered
  <2> QED
    BY <1>6, <2>2, <2>3, <2>4 DEF LetIn
<1> QED
  BY <1>6, <1>7, <1>9

(* A request that is let in, or not, and if it is, carries the same. *)
Stays(r) ==
    /\ r \in Metered' <=> r \in Metered
    /\ r \in Metered => req'[r].kind = req[r].kind

(* If no request changes its way in, nobody has been let in. *)
LEMMA NobodyLetIn ==
    ASSUME \A r \in Reqs : Stays(r)
    PROVE  Metered' = Metered /\ \A x : LetIn(x)' = LetIn(x)
<1>1. Metered \subseteq Reqs /\ Metered' \subseteq Reqs
  BY DEF Metered
<1>2. Metered' = Metered
  BY <1>1 DEF Stays
<1>3. ASSUME NEW x PROVE LetIn(x)' = LetIn(x)
  <2>1. \A r \in Metered : Bought(r, x)' <=> Bought(r, x)
    BY <1>1 DEF Stays, Bought, P!Carrying
  <2> QED
    BY <1>2, <2>1 DEF LetIn
<1> QED
  BY <1>2, <1>3

(* Nobody new waits at the payment gate but who was just admitted. *)
Queued ==
    /\ UNCHANGED <<accepted, epoch>>
    /\ Metered' = Metered /\ \A x : LetIn(x)' = LetIn(x)
    /\ \/ Waiting' \subseteq Waiting
          /\ Len(admits[ServerToken]) <= Len(admits'[ServerToken])
       \/ \E r \in Reqs \ Waiting :
             /\ Waiting' = Waiting \union {r}
             /\ Len(admits'[ServerToken]) = Len(admits[ServerToken]) + 1

(* The gates other than an accepted payment. *)
LEMMA GatesQueue ==
    ASSUME Safe, NEW r \in Reqs, Serve(r), ~ PayAccepted(r)
    PROVE  Queued
<1>1. ReqOK /\ PlacedAt(r) /\ L!TypeOK
  BY DEF Safe, Placed
<1>2. UNCHANGED <<accepted, epoch>>
  BY DEF Serve, Probe, PassThrough, Unauthorized, CompareFails, Admitted, Limited,
     PayRefused, PayRaises, paymentVars
<1>3. \A j \in Reqs : j # r => req'[j] = req[j]
  BY <1>1, OthersKeep
<1>4. \A j \in Reqs : j # r => Stays(j)
  BY <1>3 DEF Stays, Metered
<1>5. r \notin Metered
  BY <1>1 DEF Serve, Probe, PassThrough, Unauthorized, CompareFails, Admitted, Limited,
     PayRefused, PayRaises, AtGate, AtPay, PlacedAt, Metered
<1>6. ASSUME r \notin Metered'
      PROVE  Metered' = Metered /\ \A x : LetIn(x)' = LetIn(x)
  BY <1>4, <1>5, <1>6, NobodyLetIn DEF Stays
<1>7. ASSUME r \notin Waiting'
      PROVE  Waiting' \subseteq Waiting
  BY <1>3, <1>7 DEF Waiting
<1>8. ASSUME NEW s \in Statuses, Reply(r, s), admits' = admits,
             req[r].pc \in {"probe", "gate", "pay"}
      PROVE  Queued
  <2>1. req'[r].entered = "no" /\ req'[r].pc = "done"
    BY <1>1, <1>8, ReplyMoves DEF PlacedAt, Moves
  <2>2. r \notin Metered' /\ r \notin Waiting'
    BY <2>1 DEF Metered, Waiting
  <2>3. Len(admits[ServerToken]) <= Len(admits'[ServerToken])
    <3>1. Len(admits[ServerToken]) \in Nat
      BY <1>1, TokensAssumption DEF L!TypeOK
    <3> QED
      BY <1>8, <3>1
  <2> QED
    BY <1>2, <1>6, <1>7, <2>2, <2>3 DEF Queued
<1>9. CASE PassThrough(r)
  <2>1. req'[r].kind = req[r].kind /\ req'[r].pc = "mcp"
    BY <1>1, <1>9, EnterMoves DEF PassThrough, Moves
  <2>2. r \notin Metered' /\ r \notin Waiting'
    BY <1>9, <2>1 DEF PassThrough, Metered, Waiting
  <2>3. Len(admits[ServerToken]) <= Len(admits'[ServerToken])
    <3>1. Len(admits[ServerToken]) \in Nat /\ admits' = admits
      BY <1>1, <1>9, TokensAssumption DEF PassThrough, limiterVars, L!TypeOK
    <3> QED
      BY <3>1
  <2> QED
    BY <1>2, <1>6, <1>7, <2>2, <2>3 DEF Queued
<1>10. CASE Admitted(r)
  <2>1. L!Admit(ServerToken) /\ req[r].pc = "gate"
    BY <1>10, AuthenticNames DEF Admitted, AtGate
  <2>2. /\ Len(admits[ServerToken]) \in Nat
        /\ Len(admits'[ServerToken]) = Len(admits[ServerToken]) + 1
    <3>1. admits \in [Tokens -> Seq(Nat)] /\ now \in Nat /\ ServerToken \in Tokens
      BY <1>1, TokensAssumption DEF L!TypeOK
    <3>2. admits'[ServerToken] = Append(admits[ServerToken], now)
      BY <2>1, <3>1 DEF L!Admit
    <3> QED
      BY <3>1, <3>2, AppendProperties
  <2>3. CASE metered
    <3>1. req'[r].pc = "pay" /\ req'[r].entered = req[r].entered
      BY <1>1, <1>10, <2>3, PayMoves DEF Admitted, Moves
    <3>2. r \notin Metered'
      BY <1>1, <2>1, <3>1 DEF Metered, PlacedAt
    <3>3. r \notin Waiting /\ Waiting' = Waiting \union {r}
      BY <1>3, <2>1, <3>1 DEF Waiting
    <3> QED
      BY <1>2, <1>6, <2>2, <3>2, <3>3 DEF Queued
  <2>4. CASE ~ metered
    <3>1. req'[r].pc = "mcp" /\ req'[r].entered = "free"
      BY <1>1, <1>10, <2>4, EnterMoves DEF Admitted, Moves
    <3>2. r \notin Metered' /\ r \notin Waiting'
      BY <3>1 DEF Metered, Waiting
    <3> QED
      BY <1>2, <1>6, <1>7, <2>2, <3>2 DEF Queued
  <2> QED
    BY <2>3, <2>4
<1>11. {200, 401, 402, 429, 500} \subseteq Statuses
  BY DEF Statuses
<1>12. CASE Probe(r) \/ Unauthorized(r) \/ CompareFails(r) \/ Limited(r)
             \/ PayRefused(r) \/ PayRaises(r)
  <2>1. admits' = admits /\ req[r].pc \in {"probe", "gate", "pay"}
    BY <1>12 DEF Probe, Unauthorized, CompareFails, Limited, PayRefused, PayRaises,
       AtGate, AtPay, limiterVars, L!Refuse
  <2>2. \E s \in Statuses : Reply(r, s)
    BY <1>11, <1>12
       DEF Probe, Unauthorized, CompareFails, Limited, PayRefused, PayRaises
  <2> QED
    BY <1>8, <2>1, <2>2
<1> QED
  BY <1>9, <1>10, <1>12 DEF Serve

(* All other steps but a restart. *)
LEMMA OthersQueue ==
    ASSUME Safe, [Next]_vars, ~ Restart, \A r \in Reqs : ~ PayAccepted(r)
    PROVE  Queued
<1>1. ReqOK /\ Placed /\ L!TypeOK
  BY DEF Safe
<1>2. Len(admits[ServerToken]) \in Nat
  BY <1>1, TokensAssumption DEF L!TypeOK
<1>3. ASSUME NEW r \in Reqs, Serve(r) PROVE Queued
  BY <1>3, GatesQueue
<1>4. ASSUME UNCHANGED <<accepted, epoch, admits>>,
             \A r \in Reqs : Stays(r), Waiting' \subseteq Waiting
      PROVE  Queued
  BY <1>2, <1>4, NobodyLetIn DEF Queued
<1>5. ASSUME NEW r \in Reqs, Answer(r) \/ \E k \in Kinds : Arrive(r, k)
      PROVE  Queued
  <2>1. \A j \in Reqs : j # r => req'[j] = req[j]
    BY <1>1, <1>5, OthersKeep
  <2>2. CASE Answer(r)
    <3>1. Moves(r, "done", 200, req[r].entered)
      BY <1>1, <2>2, ReplyMoves DEF Answer, Statuses
    <3>2. req'[r].kind = req[r].kind /\ req'[r].entered = req[r].entered /\ req'[r].pc = "done"
      BY <3>1 DEF Moves
    <3>3. Waiting' \subseteq Waiting
      BY <2>1, <3>2 DEF Waiting
    <3>4. \A j \in Reqs : Stays(j)
      BY <2>1, <3>2 DEF Stays, Metered
    <3> QED
      BY <1>4, <2>2, <3>3, <3>4 DEF Answer, limiterVars, paymentVars
  <2>3. CASE \E k \in Kinds : Arrive(r, k)
    <3>1. PICK k \in Kinds : Arrive(r, k)
      BY <2>3
    <3>2. req[r].entered = "no"
      BY <1>1, <3>1 DEF Arrive, Placed, PlacedAt
    <3>3. req'[r].entered = "no" /\ req'[r].pc # "pay"
      BY <1>1, <3>1, <3>2 DEF Arrive, ReqOK
    <3>4. Waiting' \subseteq Waiting
      BY <2>1, <3>3 DEF Waiting
    <3>5. \A j \in Reqs : Stays(j)
      BY <2>1, <3>2, <3>3 DEF Stays, Metered
    <3> QED
      BY <1>4, <3>1, <3>4, <3>5 DEF Arrive, limiterVars, paymentVars
  <2> QED
    BY <1>5, <2>2, <2>3
<1>6. ASSUME UNCHANGED <<req, accepted, epoch, admits>>
      PROVE  Queued
  BY <1>4, <1>6 DEF Stays, Metered, Waiting
<1>7. CASE Tick \/ (\E x \in Receipts : Settle(x)) \/ (\E t \in 0..MaxWall : SetClock(t))
           \/ UNCHANGED vars
  BY <1>6, <1>7 DEF Tick, L!Tick, L!limiterVars, Settle, P!Settle, SetClock, P!SetClock,
     limiterVars, paymentVars, vars
<1> QED
  BY <1>3, <1>5, <1>7 DEF Next

(* A restart cuts who waits and forgets the admissions. *)
LEMMA RestartCuts ==
    ASSUME Safe, Restart
    PROVE  /\ accepted' = accepted /\ Metered' = Metered /\ \A x : LetIn(x)' = LetIn(x)
           /\ Waiting' = {} /\ admits'[ServerToken] = <<>>
           /\ P!Served(epoch)' = {}
<1>1. ReqOK
  BY DEF Safe
<1>2. \A r \in Reqs : /\ req'[r].kind = req[r].kind /\ req'[r].entered = req[r].entered
                      /\ req'[r].pc # "pay"
  BY <1>1 DEF Restart, ReqOK, Exchanges
<1>3. Metered' = Metered /\ \A x : LetIn(x)' = LetIn(x)
  BY <1>2, NobodyLetIn DEF Stays, Metered
<1>4. Waiting' = {}
  BY <1>2 DEF Waiting
<1>5. accepted' = accepted /\ epoch' = epoch + 1
  BY DEF Restart, P!Restart
<1>6. admits'[ServerToken] = <<>>
  BY TokensAssumption DEF Restart, L!Restart
<1>7. \A i \in DOMAIN accepted : accepted[i].epoch \in 0..epoch
  <2> DEFINE S == [receipt : Receipts, at : Int, epoch : 0..epoch]
  <2>1. accepted \in Seq(S)
    BY DEF Safe, P!TypeOK
  <2>2. \A i \in DOMAIN accepted : accepted[i] \in S
    <3> HIDE DEF S
    <3> QED
      BY <2>1
  <2> QED
    BY <2>2
<1>8. epoch \in Nat
  BY DEF Safe, P!TypeOK
<1>9. P!Served(epoch)' = {}
  BY <1>5, <1>7, <1>8 DEF P!Served
<1> QED
  BY <1>3, <1>4, <1>5, <1>6, <1>9

-----------------------------------------------------------------------------
(* Adding one to both of two equal counts, or moving one between two. *)
LEMMA AddOne ==
    ASSUME NEW S, IsFiniteSet(S), NEW x, x \notin S
    PROVE  /\ IsFiniteSet(S \union {x}) /\ Cardinality(S) \in Nat
           /\ Cardinality(S \union {x}) = Cardinality(S) + 1
  BY FS_AddElement, FS_CardinalityType

(* A finite set without one of its members. *)
LEMMA TakeOne ==
    ASSUME NEW S, IsFiniteSet(S), NEW x \in S
    PROVE  /\ IsFiniteSet(S \ {x}) /\ Cardinality(S) \in Nat
           /\ Cardinality(S \ {x}) = Cardinality(S) - 1
  BY FS_RemoveElement, FS_CardinalityType

(* Indices are finitely many. *)
LEMMA UsesFinite ==
    ASSUME P!TypeOK
    PROVE  /\ \A x : IsFiniteSet(Uses(x)) /\ Uses(x) \subseteq 1..Len(accepted)
           /\ \A e : IsFiniteSet(P!Served(e)) /\ P!Served(e) \subseteq 1..Len(accepted)
           /\ Len(accepted) \in Nat
<1>1. accepted \in Seq([receipt : Receipts, at : Int, epoch : 0..epoch])
  BY DEF P!TypeOK
<1>2. Len(accepted) \in Nat /\ DOMAIN accepted = 1..Len(accepted)
  BY <1>1, LenProperties
<1>3. IsFiniteSet(1..Len(accepted))
  BY <1>2, FS_Interval
<1>4. /\ \A x : Uses(x) \subseteq 1..Len(accepted)
      /\ \A e : P!Served(e) \subseteq 1..Len(accepted)
  BY <1>2 DEF Uses, P!Served
<1> QED
  BY <1>2, <1>3, <1>4, FS_Subset

(* Finitely many were let in by each receipt, if finitely many were at all.*)
LEMMA LetInFinite == IsFiniteSet(Metered) => \A x : IsFiniteSet(LetIn(x))
<1>1. \A x : LetIn(x) \subseteq Metered
  BY DEF LetIn
<1> QED
  BY <1>1, FS_Subset

(* At first nobody waits and nothing was accepted. *)
LEMMA InitBalanced == Init => Balanced
<1> SUFFICES ASSUME Init PROVE Balanced
  OBVIOUS
<1>1. Metered = {} /\ Waiting = {} /\ accepted = <<>> /\ admits[ServerToken] = <<>>
  BY TokensAssumption DEF Init, Metered, Waiting, P!Init, L!Init
<1>2. \A x : Uses(x) = {} /\ LetIn(x) = {}
  BY <1>1 DEF Uses, LetIn
<1>3. P!Served(epoch) = {}
  BY <1>1 DEF P!Served
<1>4. Len(accepted) = 0 /\ Len(admits[ServerToken]) = 0
  BY <1>1
<1> QED
  BY <1>1, <1>2, <1>3, <1>4, FS_EmptySet DEF Balanced, ReceiptsBalance, Uses, LetIn

(* An accepted payment takes a request from the gate, one use more, one    *)
(* call more; the admissions stay.                                         *)
LEMMA PaymentBalances ==
    ASSUME Safe, Balanced, NEW r \in Reqs, PayAccepted(r)
    PROVE  Balanced'
<1> DEFINE p == req[r].kind.header.receipt
           n == Len(accepted)
<1>1. P!TypeOK /\ ReqOK /\ L!TypeOK
  BY DEF Safe
<1>2. P!Accept(req[r].kind.header) /\ req[r].kind.header \in P!Headers
  BY <1>1, SentKind DEF PayAccepted, AtPay
<1>3. /\ n \in Nat /\ DOMAIN accepted = 1..n /\ Len(accepted') = n + 1
      /\ P!Served(epoch)' = P!Served(epoch) \union {n + 1}
      /\ \A x : Uses(x)' = IF x = p THEN Uses(x) \union {n + 1} ELSE Uses(x)
  BY <1>1, <1>2, OneMoreUse
<1>4. /\ r \notin Metered /\ Metered' = Metered \union {r}
      /\ r \in Waiting /\ Waiting' = Waiting \ {r}
      /\ \A x : LetIn(x)' = IF x = p THEN LetIn(x) \union {r} ELSE LetIn(x)
  BY OneMoreLetIn
<1> HIDE DEF p, n
<1>5. /\ IsFiniteSet(Metered) /\ IsFiniteSet(Waiting)
      /\ Cardinality(Metered) = n
      /\ \A x \in Receipts : Cardinality(Uses(x)) = Cardinality(LetIn(x))
      /\ Cardinality(P!Served(epoch)) + Cardinality(Waiting) <= Len(admits[ServerToken])
  BY DEF Balanced, ReceiptsBalance, Uses, LetIn, n
<1>6. IsFiniteSet(Metered') /\ Cardinality(Metered') = n + 1
  BY <1>4, <1>5, AddOne
<1>7. ASSUME NEW x \in Receipts PROVE Cardinality(Uses(x)') = Cardinality(LetIn(x)')
  <2>1. IsFiniteSet(Uses(x)) /\ n + 1 \notin Uses(x)
    BY <1>1, <1>3, UsesFinite DEF n
  <2>2. IsFiniteSet(LetIn(x)) /\ r \notin LetIn(x)
    BY <1>4, <1>5, LetInFinite DEF LetIn
  <2>3. CASE x = p
    <3>1. Cardinality(Uses(x)') = Cardinality(Uses(x)) + 1
      BY <1>3, <2>1, <2>3, AddOne
    <3>2. Cardinality(LetIn(x)') = Cardinality(LetIn(x)) + 1
      BY <1>4, <2>2, <2>3, AddOne
    <3> QED
      BY <1>5, <3>1, <3>2
  <2>4. CASE x # p
    BY <1>3, <1>4, <1>5, <2>4
  <2> QED
    BY <2>3, <2>4
<1>8. /\ IsFiniteSet(Waiting') /\ Cardinality(Waiting') = Cardinality(Waiting) - 1
      /\ Cardinality(Waiting) \in Nat
  BY <1>4, <1>5, TakeOne
<1>9. /\ Cardinality(P!Served(epoch)') = Cardinality(P!Served(epoch)) + 1
      /\ Cardinality(P!Served(epoch)) \in Nat
  <2>1. IsFiniteSet(P!Served(epoch)) /\ n + 1 \notin P!Served(epoch)
    BY <1>1, <1>3, UsesFinite DEF n
  <2> QED
    BY <1>3, <2>1, AddOne
<1>10. admits' = admits
  BY DEF PayAccepted, limiterVars
<1>11. Cardinality(P!Served(epoch)') + Cardinality(Waiting') <= Len(admits'[ServerToken])
  <2>1. Len(admits[ServerToken]) \in Nat
    BY <1>1, TokensAssumption DEF L!TypeOK
  <2> QED
    BY <1>5, <1>8, <1>9, <1>10, <2>1
<1> QED
  BY <1>3, <1>6, <1>7, <1>8, <1>11 DEF Balanced, ReceiptsBalance, Uses, LetIn

(* The balance survives what changes the queue only: *)
LEMMA QueueBalances ==
    ASSUME Safe, Balanced, Queued
    PROVE  Balanced'
<1>1. P!TypeOK /\ L!TypeOK
  BY DEF Safe
<1>2. Len(admits[ServerToken]) \in Nat
  BY <1>1, TokensAssumption DEF L!TypeOK
<1>3. /\ accepted' = accepted /\ epoch' = epoch
      /\ Metered' = Metered /\ \A x : LetIn(x)' = LetIn(x)
  BY DEF Queued
<1>4. P!Served(epoch)' = P!Served(epoch) /\ \A x : Uses(x)' = Uses(x)
  BY <1>3 DEF P!Served, Uses
<1>5. /\ IsFiniteSet(Metered) /\ IsFiniteSet(Waiting)
      /\ Cardinality(Metered) = Len(accepted)
      /\ \A x \in Receipts : Cardinality(Uses(x)) = Cardinality(LetIn(x))
      /\ Cardinality(P!Served(epoch)) + Cardinality(Waiting) <= Len(admits[ServerToken])
  BY DEF Balanced, ReceiptsBalance, Uses, LetIn
<1>6. Cardinality(P!Served(epoch)) \in Nat /\ Cardinality(Waiting) \in Nat
  BY <1>1, <1>5, UsesFinite, FS_CardinalityType
<1>7. /\ IsFiniteSet(Waiting')
      /\ Cardinality(P!Served(epoch)) + Cardinality(Waiting') <= Len(admits'[ServerToken])
  <2>1. CASE Waiting' \subseteq Waiting /\ Len(admits[ServerToken]) <= Len(admits'[ServerToken])
    <3>1. /\ IsFiniteSet(Waiting') /\ Cardinality(Waiting') <= Cardinality(Waiting)
          /\ Cardinality(Waiting') \in Nat
      BY <1>5, <2>1, FS_Subset, FS_CardinalityType
    <3> QED
      BY <1>2, <1>5, <1>6, <2>1, <3>1
  <2>2. CASE \E r \in Reqs \ Waiting :
                /\ Waiting' = Waiting \union {r}
                /\ Len(admits'[ServerToken]) = Len(admits[ServerToken]) + 1
    <3>1. IsFiniteSet(Waiting') /\ Cardinality(Waiting') = Cardinality(Waiting) + 1
      BY <1>5, <2>2, AddOne
    <3> QED
      BY <1>2, <1>5, <1>6, <2>2, <3>1
  <2> QED
    BY <2>1, <2>2 DEF Queued
<1> QED
  BY <1>3, <1>4, <1>5, <1>7 DEF Balanced, ReceiptsBalance, Uses, LetIn

(* and a restart, which empties it and forgets what was used. *)
LEMMA RestartBalances ==
    ASSUME Safe, Balanced, Restart
    PROVE  Balanced'
<1>1. /\ accepted' = accepted /\ Metered' = Metered /\ \A x : LetIn(x)' = LetIn(x)
      /\ Waiting' = {} /\ admits'[ServerToken] = <<>> /\ P!Served(epoch)' = {}
  BY RestartCuts
<1>2. IsFiniteSet(Waiting') /\ Cardinality(Waiting') = 0 /\ Cardinality(P!Served(epoch)') = 0
  BY <1>1, FS_EmptySet
<1>3. Len(admits'[ServerToken]) = 0
  BY <1>1
<1>4. \A x : Uses(x)' = Uses(x)
  BY <1>1 DEF Uses
<1>5. /\ IsFiniteSet(Metered)
      /\ Cardinality(Metered) = Len(accepted)
      /\ \A x \in Receipts : Cardinality(Uses(x)) = Cardinality(LetIn(x))
  BY DEF Balanced, ReceiptsBalance, Uses, LetIn
<1> QED
  BY <1>1, <1>2, <1>3, <1>4, <1>5 DEF Balanced, ReceiptsBalance, Uses, LetIn

(* The books balance in every state. *)
LEMMA AlwaysBalanced == Spec => []Balanced
<1>1. Safe /\ Balanced /\ [Next]_vars => Balanced'
  BY PaymentBalances, RestartBalances, OthersQueue, QueueBalances
<1> QED
  BY <1>1, InitBalanced, AlwaysSafe, PTL DEF Spec

(* The order auth -> payment -> MCP: as many admissions as receipts used,  *)
(* at least.                                                               *)
THEOREM OnlyAdmittedAreCharged == Spec => []ChargedOnlyAdmitted
<1>1. Safe /\ Balanced => ChargedOnlyAdmitted
  <2> SUFFICES ASSUME Safe, Balanced PROVE ChargedOnlyAdmitted
    OBVIOUS
  <2>1. Cardinality(P!Served(epoch)) \in Nat /\ Cardinality(Waiting) \in Nat
    BY UsesFinite, FS_CardinalityType DEF Safe, Balanced
  <2>2. Len(admits[ServerToken]) \in Nat
    BY TokensAssumption DEF Safe, L!TypeOK
  <2> QED
    BY <2>1, <2>2 DEF Balanced, ChargedOnlyAdmitted
<1> QED
  BY <1>1, AlwaysSafe, AlwaysBalanced, PTL

(* Receipts and calls balance, however many requests there are and however *)
(* they interleave.                                                        *)
THEOREM BooksBalance == Spec => []ReceiptsBalance
<1>1. Balanced => ReceiptsBalance
  BY DEF Balanced
<1> QED
  BY <1>1, AlwaysBalanced, PTL

-----------------------------------------------------------------------------
(* The refinement of PayPerCall: purchases are settlements, what the       *)
(* service remembers as used is what this process accepted.                *)

UsedHere == {accepted[i].receipt : i \in P!Served(epoch)}
Granted == [x \in Receipts |-> Cardinality(LetIn(x))]

(* A payment is accepted for a settlement that is not used yet. *)
LEMMA PaymentIsCall ==
    ASSUME Safe, Balanced, NEW r \in Reqs, PayAccepted(r)
    PROVE  \E p \in Receipts :
              /\ p \in settled \ UsedHere
              /\ UsedHere' = UsedHere \union {p}
              /\ Granted' = [Granted EXCEPT ![p] = @ + 1]
              /\ settled' = settled
<1> DEFINE h == req[r].kind.header
           p == req[r].kind.header.receipt
           n == Len(accepted)
<1>1. P!TypeOK /\ ReqOK /\ P!BurntIffAccepted
  BY DEF Safe
<1>2. P!Accept(h) /\ h \in P!Headers
  BY <1>1, SentKind DEF PayAccepted, AtPay
<1>3. /\ n \in Nat /\ DOMAIN accepted = 1..n /\ p \in Receipts
      /\ P!Served(epoch)' = P!Served(epoch) \union {n + 1}
  BY <1>1, <1>2, OneMoreUse
<1>4. p \in settled /\ settled' = settled /\ p.nonce \notin seen
  BY <1>2 DEF P!Accept, P!Presentable, P!Paid, P!Decodes, P!Genuine, P!Fresh
<1>5. p \notin UsedHere
  BY <1>1, <1>4 DEF P!BurntIffAccepted, UsedHere
<1>6. /\ \A i \in P!Served(epoch) : accepted'[i] = accepted[i]
      /\ accepted'[n + 1].receipt = p
  <2> DEFINE S == [receipt : Receipts, at : Int, epoch : 0..epoch]
             a == [receipt |-> p, at |-> wall, epoch |-> epoch]
  <2>1. accepted \in Seq(S) /\ accepted' = Append(accepted, a) /\ a \in S
    BY <1>1, <1>2, <1>3 DEF P!TypeOK, P!Accept
  <2>2. a.receipt = p
    OBVIOUS
  <2>3. P!Served(epoch) \subseteq 1..n
    BY <1>1, UsesFinite
  <2> HIDE DEF S, a
  <2> QED
    BY <2>1, <2>2, <2>3, AppendProperties
<1>7. UsedHere' = UsedHere \union {p}
  BY <1>3, <1>6 DEF UsedHere
<1>8. Granted' = [Granted EXCEPT ![p] = @ + 1]
  <2>1. /\ r \notin Metered
        /\ \A x : LetIn(x)' = IF x = p THEN LetIn(x) \union {r} ELSE LetIn(x)
    BY OneMoreLetIn
  <2>2. IsFiniteSet(LetIn(p)) /\ r \notin LetIn(p)
    BY <2>1, LetInFinite DEF Balanced, LetIn
  <2>3. Cardinality(LetIn(p) \union {r}) = Cardinality(LetIn(p)) + 1
    BY <2>2, AddOne
  <2>4. \A x \in Receipts : Cardinality(LetIn(x)') =
            IF x = p THEN Cardinality(LetIn(x)) + 1 ELSE Cardinality(LetIn(x))
    BY <2>1, <2>3
  <2> HIDE DEF p
  <2> QED
    BY <1>3, <2>4 DEF Granted
<1> QED
  BY <1>3, <1>4, <1>5, <1>7, <1>8

(* What changes the queue only sells nothing and uses nothing. *)
LEMMA QueueGrantsNothing == Queued => UsedHere' = UsedHere /\ Granted' = Granted
  BY DEF Queued, UsedHere, Granted, P!Served

(* Every step is one of PayPerCall, or none. *)
LEMMA StepOfShop == Safe /\ Balanced /\ [Next]_vars => [Shop!Next]_(Shop!vars)
<1> SUFFICES ASSUME Safe, Balanced, [Next]_vars PROVE [Shop!Next]_(Shop!vars)
  OBVIOUS
<1> USE DEF Shop!Next, Shop!vars
<1>1. /\ UsedHere = {accepted[i].receipt : i \in P!Served(epoch)}
      /\ Granted = [x \in Receipts |-> Cardinality({r \in Metered : Bought(r, x)})]
  BY DEF UsedHere, Granted, LetIn
<1>2. ASSUME NEW r \in Reqs, PayAccepted(r) PROVE \E p \in Receipts : Shop!Call(p)
  BY <1>1, <1>2, PaymentIsCall DEF Shop!Call, UsedHere, Granted, LetIn
<1>3. CASE Restart
  <2>1. UsedHere' = {} /\ Granted' = Granted /\ settled' = settled
    BY <1>3, RestartCuts DEF UsedHere, Granted, Restart, P!Restart
  <2> QED
    BY <1>1, <2>1 DEF Shop!Forget, UsedHere, Granted, LetIn
<1>4. ASSUME Queued, settled' = settled PROVE UNCHANGED Shop!vars
  BY <1>4, QueueGrantsNothing DEF UsedHere, Granted, LetIn
<1>5. ASSUME NEW x \in Receipts, Settle(x) PROVE Shop!Buy(x)
  BY <1>5 DEF Settle, P!Settle, Shop!Buy, limiterVars, Metered, Bought, P!Served, P!Carrying
<1>6. CASE /\ ~ Restart
           /\ \A r \in Reqs : ~ PayAccepted(r)
           /\ \A x \in Receipts : ~ Settle(x)
  <2>1. settled' = settled
    BY <1>6 DEF Next, Serve, Probe, PassThrough, Unauthorized, CompareFails, Admitted, Limited,
       PayRefused, PayRaises, Answer, Arrive, Tick, SetClock, P!SetClock, paymentVars, vars
  <2> QED
    BY <1>4, <1>6, <2>1, OthersQueue
<1> QED
  BY <1>2, <1>3, <1>5, <1>6

(* In paid mode the endpoint sells calls: one for each settlement, used    *)
(* once by a process, whatever races, restarts or is refused.              *)
THEOREM EndpointSellsCalls == Spec => SellsCalls
<1>1. Init => Shop!Init
  <2> SUFFICES ASSUME Init PROVE Shop!Init
    OBVIOUS
  <2>1. Metered = {} /\ accepted = <<>> /\ settled = {}
    BY DEF Init, Metered, P!Init
  <2>2. P!Served(epoch) = {}
    BY <2>1 DEF P!Served
  <2>3. \A x : Cardinality({r \in Metered : Bought(r, x)}) = 0
    BY <2>1, FS_EmptySet
  <2> QED
    BY <2>1, <2>2, <2>3 DEF Shop!Init
<1> QED
  BY <1>1, StepOfShop, AlwaysSafe, AlwaysBalanced, PTL DEF Spec, SellsCalls, Shop!Spec

====
