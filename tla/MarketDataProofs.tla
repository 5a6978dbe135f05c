-------------------------- MODULE MarketDataProofs --------------------------
(***************************************************************************)
(* The market-data calls, for any number of calls, timeframes, limits and  *)
(* clocks: what was sent remains what the caller asked for and was signed  *)
(* over, and what is analysed remains a whole stretch of OKX's market,     *)
(* however long the answer takes and whatever the market does meanwhile.   *)
(***************************************************************************)
EXTENDS MarketData, SequenceTheorems, TLAPS

Stages == {"idle", "sending", "answered", "analysing", "done"}
Outcomes == {"none", "error", "raised", "report", "exit_0", "exit_1", "exit_2"}
Fields == {"pc", "ask", "sent", "sig", "since", "answer", "rows", "input", "outcome"}

(* The last candles, newest first, when n was the newest. *)
MarketAt(n, limit) == [i \in 1 .. (IF limit < n THEN limit ELSE n) |-> n - i + 1]

(* What has left is the request as it was asked, signed at some time since.*)
SentAsAsked(c) ==
    c.sent # <<>> =>
        /\ c.ask \in Asks /\ ~ Answered(c.ask) /\ Prepares(c.ask)
        /\ c.sent = Path(c.ask)
        /\ Signed(c.ask) => \E t \in 0..now : c.sig = Sign(t, c.ask)
        /\ c.since \in 1..newest

CallOK(x) ==
    LET c == calls[x] IN
    /\ DOMAIN c = Fields
    /\ c.pc \in Stages /\ c.outcome \in Outcomes /\ c.ask \in Asks \union {<<>>}
    /\ SentAsAsked(c)
    /\ c.pc \in {"sending", "answered", "analysing"} => c.sent # <<>>
    /\ c.pc = "idle" => c.sent = <<>>
    /\ c.pc \in {"idle", "sending", "answered"} => c.input = <<>>
    /\ c.pc = "answered" /\ Fetched(x) /\ c.rows # <<>> =>
          \E n \in c.since .. newest : c.rows = MarketAt(n, c.sent.limit)
    /\ c.input # <<>> =>
          /\ c.sent # <<>>
          /\ \E n \in c.since .. newest : c.input = Reverse(MarketAt(n, c.sent.limit))
    /\ c.outcome = "exit_0" => c.input # <<>>

Inv ==
    /\ env \subseteq Secrets
    /\ now \in 0..MaxTime /\ newest \in 1..MaxCandle
    /\ DOMAIN calls = Calls
    /\ \A x \in Calls : CallOK(x)

-----------------------------------------------------------------------------
(* The operators *)

(* max(1, min(_, _MAX_LIMIT)) *)
LEMMA ClampedRange ==
    ASSUME NEW q \in Asks
    PROVE  Path(q).limit \in 1..MaxLimit
<1>1. q.limit \in Int
  BY MarketAssumption DEF Asks
<1>2. Clamped(q.limit) \in 1..MaxLimit
  BY <1>1, MarketAssumption DEF Clamped
<1> QED
  BY <1>2 DEF Path

(* A request is something. *)
LEMMA PathIsSent == \A q : Path(q) # <<>>
  BY DEF Path

(* The candles in the order of time: a run up to the newest. *)
LEMMA ReversedRun ==
    ASSUME NEW n \in Nat \ {0}, NEW limit \in Nat \ {0}
    PROVE  LET in == Reverse(MarketAt(n, limit))
               m  == IF limit < n THEN limit ELSE n
           IN  /\ Len(in) = m /\ DOMAIN in = 1..m /\ in # <<>>
               /\ Last(in) = n
               /\ \A i \in 1..m : in[i] = n - m + i
<1> DEFINE m == IF limit < n THEN limit ELSE n
           s == MarketAt(n, limit)
<1>1. m \in Nat \ {0}
  OBVIOUS
<1>2. s = [i \in 1..m |-> n - i + 1]
  BY DEF MarketAt
<1> HIDE DEF m, s
<1>3. s \in Seq(Int) /\ Len(s) = m
  BY <1>1, <1>2
<1>4. Reverse(s) = [i \in 1..m |-> s[(m - i) + 1]]
  BY <1>3 DEF Reverse
<1>5. \A i \in 1..m : Reverse(s)[i] = n - m + i /\ s[(m - i) + 1] \in Int
  BY <1>1, <1>2, <1>4
<1>6. Reverse(s) \in Seq(Int) /\ Len(Reverse(s)) = m
  BY <1>1, <1>4, <1>5
<1>7. Last(Reverse(s)) = n
  BY <1>1, <1>5, <1>6 DEF Last
<1> QED
  BY <1>1, <1>5, <1>6, <1>7 DEF m, s

(* Nothing is nothing in any order. *)
LEMMA ReversedEmpty == Reverse(<<>>) = <<>>
  BY DEF Reverse

-----------------------------------------------------------------------------
(* What the clock and the market do meanwhile takes nothing back. *)
LEMMA LaterOK ==
    ASSUME Inv, env' = env, now' \in Nat, newest' \in Nat, now <= now', newest <= newest',
           NEW y \in Calls, calls'[y] = calls[y]
    PROVE  CallOK(y)'
<1> DEFINE c == calls[y]
<1>1. CallOK(y) /\ calls'[y] = c
  BY DEF Inv
<1>2. now \in Nat /\ newest \in Nat
  BY MarketAssumption DEF Inv
<1>3. c.sent # <<>> => c.since \in Nat
  BY <1>1, <1>2 DEF CallOK, SentAsAsked
<1>4. SentAsAsked(c) => SentAsAsked(c)'
  BY <1>2 DEF SentAsAsked, Prepares, HasCredentials
<1>5. Fetched(y)' <=> Fetched(y)
  BY <1>1 DEF Fetched
<1>6. c.sent # <<>> => c.since .. newest \subseteq c.since .. newest'
  BY <1>2, <1>3
<1> HIDE DEF c
<1> QED
  BY <1>1, <1>4, <1>5, <1>6 DEF CallOK, c

(* A request that was sent remains what was asked, as its call goes on. *)
LEMMA SentStays ==
    ASSUME NEW x, SentAsAsked(calls[x]), UNCHANGED <<env, now, newest>>,
           UNCHANGED <<calls[x].ask, calls[x].sent, calls[x].sig, calls[x].since>>
    PROVE  SentAsAsked(calls[x])'
  BY DEF SentAsAsked, Prepares, HasCredentials

(* Only call x moves. *)
LEMMA OneMoves ==
    ASSUME Inv, NEW x \in Calls, UNCHANGED <<env, now, newest>>, DOMAIN calls' = Calls,
           \A y \in Calls : y # x => calls'[y] = calls[y],
           CallOK(x)'
    PROVE  Inv'
<1>1. now \in Nat /\ newest \in Nat
  BY MarketAssumption DEF Inv
<1>2. \A y \in Calls : y # x => CallOK(y)'
  BY <1>1, LaterOK
<1> QED
  BY <1>2 DEF Inv

(* A call that ends as it is, without a PASS. *)
LEMMA EndOK ==
    ASSUME Inv, NEW x \in Calls, NEW o \in Outcomes \ {"exit_0"}, End(x, o),
           UNCHANGED <<env, now, newest>>
    PROVE  Inv'
<1>1. CallOK(x) /\ DOMAIN calls = Calls /\ DOMAIN calls[x] = Fields
  BY DEF Inv, CallOK
<1>2. DOMAIN calls' = Calls /\ \A y \in Calls : y # x => calls'[y] = calls[y]
  BY <1>1 DEF End
<1>3. /\ DOMAIN calls'[x] = Fields
      /\ calls'[x].pc = "done" /\ calls'[x].outcome = o
      /\ calls'[x].ask = calls[x].ask /\ calls'[x].sent = calls[x].sent
      /\ calls'[x].sig = calls[x].sig /\ calls'[x].since = calls[x].since
      /\ calls'[x].input = calls[x].input
  BY <1>1 DEF End, Fields
<1>4. CallOK(x)'
  BY <1>1, <1>3 DEF CallOK, SentAsAsked, Stages, Prepares, HasCredentials
<1> QED
  BY <1>2, <1>4, OneMoves

(* A request leaves: it is what was asked, signed now. *)
LEMMA BeginOK ==
    ASSUME Inv, NEW x \in Calls, NEW q \in Asks, Begin(x, q)
    PROVE  Inv'
<1>1. CallOK(x) /\ DOMAIN calls = Calls /\ DOMAIN calls[x] = Fields
  BY DEF Inv, CallOK
<1>2. UNCHANGED <<env, now, newest>> /\ ~ Answered(q) /\ Prepares(q)
  BY DEF Begin
<1>3. DOMAIN calls' = Calls /\ \A y \in Calls : y # x => calls'[y] = calls[y]
  BY <1>1 DEF Begin
<1>4. /\ DOMAIN calls'[x] = Fields
      /\ calls'[x].pc = "sending" /\ calls'[x].outcome = calls[x].outcome
      /\ calls'[x].ask = q /\ calls'[x].sent = Path(q)
      /\ calls'[x].sig = (IF Signed(q) THEN Sign(now, q) ELSE <<>>)
      /\ calls'[x].since = newest
      /\ calls'[x].input = calls[x].input
  BY <1>1 DEF Begin, Fields
<1>5. now \in 0..now /\ newest \in 1..newest
  BY MarketAssumption DEF Inv
<1>6. SentAsAsked(calls[x])'
  BY <1>2, <1>4, <1>5 DEF SentAsAsked, Prepares, HasCredentials
<1>7. calls[x].input = <<>> /\ calls[x].outcome # "exit_0"
  BY <1>1 DEF Begin, CallOK
<1>8. CallOK(x)'
  BY <1>1, <1>4, <1>6, <1>7, PathIsSent DEF CallOK, Stages
<1> QED
  BY <1>2, <1>3, <1>8, OneMoves

(* Nothing leaves: the call ends before the request. *)
LEMMA BeginFailsOK ==
    ASSUME Inv, NEW x \in Calls, NEW q \in Asks, BeginFails(x, q)
    PROVE  Inv'
<1>1. CallOK(x) /\ DOMAIN calls = Calls /\ DOMAIN calls[x] = Fields
  BY DEF Inv, CallOK
<1>2. PICK o \in Outcomes \ {"exit_0"} :
          calls' = [calls EXCEPT ![x].pc = "done", ![x].ask = q, ![x].outcome = o]
  <2>1. CASE Answered(q)
    BY <2>1 DEF BeginFails, Outcomes
  <2>2. CASE ~ Answered(q) /\ q.via = "smoke" /\ ~ HasCredentials
    <3>1. calls' = [calls EXCEPT ![x].pc = "done", ![x].ask = q, ![x].outcome = "exit_2"]
      BY <2>2 DEF BeginFails
    <3> QED
      BY <3>1 DEF Outcomes
  <2>3. CASE ~ Answered(q) /\ ~ (q.via = "smoke" /\ ~ HasCredentials)
    <3>1. Failure(q) \in Outcomes \ {"exit_0"}
      BY DEF Failure, Outcomes
    <3>2. calls' = [calls EXCEPT ![x].pc = "done", ![x].ask = q, ![x].outcome = Failure(q)]
      BY <2>3 DEF BeginFails
    <3> QED
      BY <3>1, <3>2
  <2> QED
    BY <2>1, <2>2, <2>3
<1>3. UNCHANGED <<env, now, newest>> /\ calls[x].pc = "idle"
  BY DEF BeginFails
<1>4. DOMAIN calls' = Calls /\ \A y \in Calls : y # x => calls'[y] = calls[y]
  BY <1>1, <1>2
<1>5. /\ DOMAIN calls'[x] = Fields
      /\ calls'[x].pc = "done" /\ calls'[x].outcome = o
      /\ calls'[x].ask = q /\ calls'[x].sent = calls[x].sent
      /\ calls'[x].input = calls[x].input
  BY <1>1, <1>2 DEF Fields
<1>6. calls[x].input = <<>> /\ (calls[x].sent = <<>>)
  BY <1>1, <1>3 DEF CallOK
<1>7. CallOK(x)'
  BY <1>1, <1>2, <1>5, <1>6 DEF CallOK, SentAsAsked, Stages
<1> QED
  BY <1>3, <1>4, <1>7, OneMoves

(* OKX's answers: a whole stretch of its market, nothing, or something     *)
(* that will not be taken for one.                                         *)
LEMMA RespondOK ==
    ASSUME Inv, NEW x \in Calls, NEW answer, NEW rows, Respond(x, answer, rows),
           \/ answer # "code_0"
           \/ rows = <<>>
           \/ rows = LatestRows(calls[x].sent.limit)
           \/ ~ Readable(rows)
    PROVE  Inv'
<1>1. CallOK(x) /\ DOMAIN calls = Calls /\ DOMAIN calls[x] = Fields
  BY DEF Inv, CallOK
<1>2. DOMAIN calls' = Calls /\ \A y \in Calls : y # x => calls'[y] = calls[y]
  BY <1>1 DEF Respond
<1>3. /\ DOMAIN calls'[x] = Fields
      /\ calls'[x].pc = "answered" /\ calls'[x].outcome = calls[x].outcome
      /\ calls'[x].answer = answer /\ calls'[x].rows = rows
      /\ calls'[x].ask = calls[x].ask /\ calls'[x].sent = calls[x].sent
      /\ calls'[x].sig = calls[x].sig /\ calls'[x].since = calls[x].since
      /\ calls'[x].input = calls[x].input
  BY <1>1 DEF Respond, Fields
<1>4. calls[x].pc = "sending" /\ UNCHANGED <<env, now, newest>>
  BY DEF Respond
<1>5. ASSUME Fetched(x)', rows # <<>>
      PROVE  \E n \in calls[x].since .. newest : rows = MarketAt(n, calls[x].sent.limit)
  <2>1. answer = "code_0" /\ Readable(rows)
    BY <1>3, <1>5 DEF Fetched
  <2>2. rows = MarketAt(newest, calls[x].sent.limit)
    BY <1>5, <2>1 DEF LatestRows, MarketAt
  <2>3. newest \in calls[x].since .. newest
    BY <1>1, <1>4, MarketAssumption DEF CallOK, SentAsAsked, Inv
  <2> QED
    BY <2>2, <2>3
<1>6. SentAsAsked(calls[x])'
  BY <1>1, <1>3, <1>4, SentStays DEF CallOK
<1>7. CallOK(x)'
  BY <1>1, <1>3, <1>4, <1>5, <1>6 DEF CallOK, Stages
<1> QED
  BY <1>2, <1>4, <1>7, OneMoves

(* Parsing what was fetched. *)
LEMMA InputOK ==
    ASSUME Inv, NEW x \in Calls, calls[x].pc = "answered", Fetched(x)
    PROVE  LET c == calls[x] IN
           /\ Candles(c.rows) = <<>> <=> c.rows = <<>>
           /\ c.rows # <<>> =>
                 \E n \in c.since .. newest : Candles(c.rows) = Reverse(MarketAt(n, c.sent.limit))
<1>1. CallOK(x) /\ newest \in Nat
  BY MarketAssumption DEF Inv
<1>2. CASE calls[x].rows = <<>>
  BY <1>2, ReversedEmpty DEF Candles
<1>3. CASE calls[x].rows # <<>>
  <2>1. PICK n \in calls[x].since .. newest : calls[x].rows = MarketAt(n, calls[x].sent.limit)
    BY <1>1, <1>3 DEF CallOK
  <2>2. /\ calls[x].ask \in Asks /\ calls[x].sent = Path(calls[x].ask)
        /\ calls[x].since \in 1..newest
    BY <1>1 DEF CallOK, SentAsAsked
  <2>3. n \in Nat \ {0} /\ calls[x].sent.limit \in Nat \ {0}
    BY <1>1, <2>1, <2>2, ClampedRange, MarketAssumption
  <2>4. Reverse(MarketAt(n, calls[x].sent.limit)) # <<>>
    BY <2>3, ReversedRun
  <2> QED
    BY <1>3, <2>1, <2>4 DEF Candles
<1> QED
  BY <1>2, <1>3

(* The rows of the answer, reversed, are handed to the analysis. *)
LEMMA ReceiveOK ==
    ASSUME Inv, NEW x \in Calls, Receive(x) \/ Report(x)
    PROVE  Inv'
<1> DEFINE o == IF calls[x].rows # <<>> THEN "exit_0" ELSE "exit_1"
<1>1. CallOK(x) /\ DOMAIN calls = Calls /\ DOMAIN calls[x] = Fields
  BY DEF Inv, CallOK
<1>2. calls[x].pc = "answered" /\ Fetched(x) /\ UNCHANGED <<env, now, newest>>
  BY DEF Receive, Report
<1>3. DOMAIN calls' = Calls /\ \A y \in Calls : y # x => calls'[y] = calls[y]
  BY <1>1 DEF Receive, Report
<1>4. /\ DOMAIN calls'[x] = Fields
      /\ calls'[x].input = Candles(calls[x].rows)
      /\ calls'[x].ask = calls[x].ask /\ calls'[x].sent = calls[x].sent
      /\ calls'[x].sig = calls[x].sig /\ calls'[x].since = calls[x].since
      /\ \/ calls'[x].pc = "analysing" /\ calls'[x].outcome = calls[x].outcome
         \/ calls'[x].pc = "done" /\ calls'[x].outcome = o
  BY <1>1 DEF Receive, Report, Fields
<1>5. SentAsAsked(calls[x])'
  BY <1>1, <1>2, <1>4, SentStays DEF CallOK
<1>6. calls[x].sent # <<>> /\ calls[x].outcome # "exit_0"
  BY <1>1, <1>2 DEF CallOK
<1>7. CallOK(x)'
  BY <1>1, <1>2, <1>4, <1>5, <1>6, InputOK DEF CallOK, Stages, Outcomes
<1> QED
  BY <1>2, <1>3, <1>7, OneMoves

(* Every step keeps the invariant. *)
LEMMA StepKeeps == Inv /\ [Next]_vars => Inv'
<1> SUFFICES ASSUME Inv, [Next]_vars PROVE Inv'
  OBVIOUS
<1>1. ASSUME NEW x \in Calls, OkxServes(x) \/ OkxRefuses(x) PROVE Inv'
  <2>1. CASE OkxServes(x)
    <3> DEFINE rows == LatestRows(calls[x].sent.limit)
    <3>1. ASSUME NEW i \in DOMAIN rows PROVE ~ Readable([rows EXCEPT ![i] = Broken])
      BY <3>1 DEF Readable
    <3> QED
      BY <2>1, <3>1, RespondOK DEF OkxServes
  <2>2. CASE OkxRefuses(x)
    BY <2>2, RespondOK DEF OkxRefuses
  <2> QED
    BY <1>1, <2>1, <2>2
<1>2. ASSUME NEW x \in Calls, NetworkFails(x) \/ ReceiveFails(x) \/ Analyse(x) PROVE Inv'
  <2>1. \A q : Failure(q) \in Outcomes \ {"exit_0"}
    BY DEF Failure, Outcomes
  <2>2. {"report", "raised"} \subseteq Outcomes \ {"exit_0"}
    BY DEF Outcomes
  <2> QED
    BY <1>2, <2>1, <2>2, EndOK DEF NetworkFails, ReceiveFails, Analyse
<1>3. CASE Tick \/ NewCandle \/ UNCHANGED vars
  <2>1. /\ now \in Nat /\ newest \in Nat /\ calls' = calls /\ env' = env
        /\ now' \in 0..MaxTime /\ newest' \in 1..MaxCandle
        /\ now <= now' /\ newest <= newest'
    BY <1>3, MarketAssumption DEF Tick, NewCandle, vars, Inv
  <2>2. \A y \in Calls : CallOK(y)'
    BY <2>1, LaterOK, MarketAssumption
  <2> QED
    BY <2>1, <2>2 DEF Inv
<1> QED
  BY <1>1, <1>2, <1>3, BeginOK, BeginFailsOK, ReceiveOK DEF Next

(* The invariant holds in every state. *)
LEMMA AlwaysInv == Spec => []Inv
<1>1. Init => Inv
  <2> SUFFICES ASSUME Init PROVE Inv
    OBVIOUS
  <2>1. \A x \in Calls : calls[x] = Idle
    BY DEF Init
  <2>2. DOMAIN calls = Calls
    BY DEF Init
  <2>3. \A x \in Calls : CallOK(x)
    BY <2>1 DEF Idle, CallOK, SentAsAsked, Fields, Stages, Outcomes
  <2> QED
    BY <2>2, <2>3, MarketAssumption DEF Init, Inv
<1> QED
  BY <1>1, StepKeeps, PTL DEF Spec

-----------------------------------------------------------------------------
(* The theorems *)

(* Every variable keeps its type; no request asks for more than _MAX_LIMIT *)
(* rows.                                                                   *)
THEOREM TypeCorrect == Spec => []TypeOK
<1>1. Inv => TypeOK
  <2> SUFFICES ASSUME Inv PROVE TypeOK
    OBVIOUS
  <2>1. ASSUME NEW x \in Calls, calls[x].pc = "sending"
        PROVE  calls[x].sent.limit \in 1..MaxLimit
    BY <2>1, ClampedRange DEF Inv, CallOK, SentAsAsked
  <2> QED
    BY <2>1 DEF Inv, CallOK, TypeOK, Stages, Outcomes
<1> QED
  BY <1>1, AlwaysInv, PTL

(* Whatever fails on the way, whatever is analysed, and whatever a PASS    *)
(* rests on, is an unbroken and current stretch of the market.             *)
THEOREM AnalysisIsWhole == Spec => []AnalysesWholeMarket
<1>1. Inv => AnalysesWholeMarket
  <2> SUFFICES ASSUME Inv, NEW x \in Calls, calls[x].input # <<>>
               PROVE  LET in == calls[x].input IN
                      /\ \A i \in DOMAIN in : in[i] = Last(in) - Len(in) + i
                      /\ Last(in) \in calls[x].since .. newest
                      /\ Len(in) = IF calls[x].sent.limit < Last(in)
                                   THEN calls[x].sent.limit ELSE Last(in)
    BY DEF AnalysesWholeMarket, Inv, CallOK
  <2>1. /\ calls[x].ask \in Asks /\ calls[x].sent = Path(calls[x].ask)
        /\ calls[x].since \in 1..newest /\ newest \in Nat
    BY MarketAssumption DEF Inv, CallOK, SentAsAsked
  <2>2. PICK n \in calls[x].since .. newest :
                calls[x].input = Reverse(MarketAt(n, calls[x].sent.limit))
    BY DEF Inv, CallOK
  <2>3. n \in Nat \ {0} /\ calls[x].sent.limit \in Nat \ {0}
    BY <2>1, <2>2, ClampedRange, MarketAssumption
  <2> DEFINE run == Reverse(MarketAt(n, calls[x].sent.limit))
             m == IF calls[x].sent.limit < n THEN calls[x].sent.limit ELSE n
  <2>4. /\ Len(run) = m /\ DOMAIN run = 1..m /\ Last(run) = n
        /\ \A i \in 1..m : run[i] = n - m + i
    BY <2>3, ReversedRun
  <2>5. calls[x].input = run
    BY <2>2
  <2> HIDE DEF run
  <2> QED
    BY <2>4, <2>5
<1> QED
  BY <1>1, AlwaysInv, PTL

(* Nothing leaves unsigned or half signed: OKX's only reason to turn a     *)
(* signature down is its age.                                              *)
THEOREM RequestsAreHonest == Spec => []HonestlySigned
<1>1. Inv => HonestlySigned
  <2> SUFFICES ASSUME Inv, NEW x \in Calls, calls[x].sent # <<>>, Signed(calls[x].ask)
               PROVE  /\ env = Secrets
                      /\ calls[x].ask.via = "dex" => calls[x].ask.named
                      /\ calls[x].pc = "sending" /\ ~ SignatureHolds(x)
                            => now > calls[x].sig.stamp + Tolerance
    BY DEF HonestlySigned
  <2>1. /\ ~ Answered(calls[x].ask) /\ Prepares(calls[x].ask)
        /\ calls[x].sent = Path(calls[x].ask)
        /\ \E t \in 0..now : calls[x].sig = Sign(t, calls[x].ask)
    BY DEF Inv, CallOK, SentAsAsked
  <2>2. calls[x].sig.path = calls[x].sent /\ calls[x].sig.stamp \in 0..now
    BY <2>1 DEF Sign
  <2>3. now \in Nat
    BY MarketAssumption DEF Inv
  <2> QED
    BY <2>1, <2>2, <2>3, MarketAssumption DEF Answered, Prepares, HasCredentials, SignatureHolds
<1> QED
  BY <1>1, AlwaysInv, PTL

(* The two copies of the conversion agree on what a timeframe means, for   *)
(* any number and any unit, known or not.                                  *)
LEMMA ConversionKeepsMeaning == \A f : Meaning(Converted(f)) = Meaning(f)
  BY DEF Meaning, Converted, OkxUnit

(* A report's label tells the truth about its candles. *)
THEOREM LabelsAreTrue == Spec => []LabelledAsFetched
<1>1. Inv => LabelledAsFetched
  <2> SUFFICES ASSUME Inv, NEW x \in Calls, calls[x].input # <<>>
               PROVE  LET f == calls[x].ask.frame IN
                      Meaning(calls[x].sent.bar) =
                          IF f \in {Empty, Blank} THEN <<"4", "hours">> ELSE Meaning(f)
    BY DEF LabelledAsFetched
  <2>1. calls[x].sent = Path(calls[x].ask) /\ Prepares(calls[x].ask)
    BY DEF Inv, CallOK, SentAsAsked
  <2>2. Meaning(<<"4", "H">>) = <<"4", "hours">>
    BY DEF Meaning
  <2> QED
    BY <2>1, <2>2, ConversionKeepsMeaning
       DEF Path, Bar, CexBar, DexBar, DexBarRaises, Prepares
<1> QED
  BY <1>1, AlwaysInv, PTL

=============================================================================
