----------------------------- MODULE MarketData -----------------------------
(***************************************************************************)
(* The OKX market-data tools: okx_data.py (public candles, "cex") and      *)
(* okx_dex.py (signed requests for on-chain candles, "dex").  A call works *)
(* up to its HTTP request without a pause, awaits the answer, parses it    *)
(* and hands the candles to RUNECLAW's analysis.  The smoke script         *)
(* (okx_dex_smoke.py) makes the same signed request without the analysis.  *)
(* OKX, whose market moves on meanwhile, is external: it answers           *)
(* newest-first, refuses a bar it does not know and a signature that does  *)
(* not cover the request or whose timestamp is too old when it arrives,    *)
(* and may fail in every way the code looks for.                           *)
(*                                                                         *)
(* A candle is its number in time; the candles 1..newest exist.  A row     *)
(* that is too short or holds no numbers is Broken.  A timeframe is        *)
(* <<number, unit>>, unless it is empty or blank (white space only).       *)
(***************************************************************************)
EXTENDS Integers, Sequences, FiniteSets, SequencesExt

CONSTANTS
    Calls,       \* the calls of market-data tools
    Frames,      \* timeframes a caller may ask for
    Empty, Blank,   \* the two timeframes without a last character
    OkxBars,     \* the bars OKX knows
    Limits,      \* limits a caller may ask for
    MaxLimit,    \* _MAX_LIMIT
    Broken,      \* a row that float() or an index refuses
    Tolerance,   \* how old a signed timestamp OKX accepts
    MaxTime,     \* bound of the model: the clock stops here
    MaxCandle    \* bound of the model: the last candle

ASSUME MarketAssumption ==
    /\ Limits \subseteq Int
    /\ MaxLimit \in Nat \ {0}
    /\ Broken \notin Int
    /\ Tolerance \in Nat /\ MaxTime \in Nat /\ MaxCandle \in Nat \ {0}

(* named: a chain and a token are given. *)
Asks == [via : {"cex", "dex", "smoke"}, named : BOOLEAN,
         frame : Frames \union {Empty, Blank}, limit : Limits]

Secrets == {"OKX_API_KEY", "OKX_SECRET_KEY", "OKX_PASSPHRASE"}

VARIABLES
    env,      \* which credentials are set
    now,      \* the clock of the timestamps
    newest,   \* the newest candle OKX has
    calls     \* the calls: where each is, what it asked, sent, got and gave

vars == <<env, now, newest, calls>>

-----------------------------------------------------------------------------
(* Mutant of Clamped: no upper bound. *)
ClampedBelow(n) == IF n < 1 THEN 1 ELSE n

(* max(1, min(int(limit), _MAX_LIMIT)) *)
Clamped(n) == IF n < 1 THEN 1 ELSE IF n > MaxLimit THEN MaxLimit ELSE n

(* Mutant of HasCredentials: one credential will do. *)
HasSomeCredential == env # {}

(* load_credentials *)
HasCredentials == env = Secrets

(* Mutant of OkxUnit: every unit in upper case. *)
OkxUnitUpper(u) ==
    CASE u \in {"h", "H"} -> "H" [] u \in {"d", "D"} -> "D" [] u \in {"w", "W"} -> "W"
      [] u \in {"m", "M"} -> "M" [] OTHER -> u

(* Minutes stay in lower case; months ("M") and what is not known pass.    *)
OkxUnit(u) ==
    CASE u \in {"h", "H"} -> "H" [] u \in {"d", "D"} -> "D" [] u \in {"w", "W"} -> "W"
      [] OTHER -> u

Converted(f) == <<f[1], OkxUnit(f[2])>>

(* to_okx_bar *)
CexBar(f) == IF f \in {Empty, Blank} THEN <<"4", "H">> ELSE Converted(f)

(* _to_okx_bar of the DEX adapter puts the default in before it strips and *)
(* raises an IndexError for what is blank.                                 *)
DexBarRaises(f) == f = Blank

DexBar(f) == IF f = Empty THEN <<"4", "H">> ELSE Converted(f)

Signed(q) == q.via # "cex"

Bar(q) == IF Signed(q) THEN DexBar(q.frame) ELSE CexBar(q.frame)

(* The path with its query, which is signed and sent. *)
Path(q) == [named |-> q.named, bar |-> Bar(q), limit |-> Clamped(q.limit)]

(* Mutant of Sign: the limit is added to the query after it was signed. *)
SignWithoutLimit(stamp, q) == [stamp |-> stamp, path |-> [Path(q) EXCEPT !.limit = 0]]

(* sign and build_headers: the HMAC tells apart what it covers. *)
Sign(stamp, q) == [stamp |-> stamp, path |-> Path(q)]

(* What a call does before its request.  The tool compares the chain and   *)
(* the token with the empty string first, which is answered; the script    *)
(* does not.  Then the credentials are read, which the script does itself  *)
(* too; then the bar is made from the timeframe.                           *)
Answered(q) == q.via = "dex" /\ ~ q.named

Prepares(q) == Signed(q) => HasCredentials /\ ~ DexBarRaises(q.frame)

(* The last n candles, newest first. *)
LatestRows(n) == [i \in 1 .. (IF n < newest THEN n ELSE newest) |-> newest - i + 1]

Readable(rows) == \A i \in DOMAIN rows : rows[i] # Broken

(* Mutant of Candles: left in OKX's order. *)
CandlesAsSent(rows) == rows

(* candles.reverse() *)
Candles(rows) == Reverse(rows)

-----------------------------------------------------------------------------
Idle == [pc |-> "idle", ask |-> <<>>, sent |-> <<>>, sig |-> <<>>, since |-> 0,
         answer |-> "none", rows |-> <<>>, input |-> <<>>, outcome |-> "none"]

Init ==
    /\ env \in SUBSET Secrets
    /\ now = 0
    /\ newest = 1
    /\ calls = [x \in Calls |-> Idle]

(* The script catches every exception, the tools none. *)
Failure(q) == IF q.via = "smoke" THEN "exit_1" ELSE "raised"

End(x, outcome) == calls' = [calls EXCEPT ![x].pc = "done", ![x].outcome = outcome]

(* Up to the request, of which the signature is a part if there is one. *)
Begin(x, q) ==
    /\ calls[x].pc = "idle" /\ ~ Answered(q) /\ Prepares(q)
    /\ calls' = [calls EXCEPT
          ![x].pc = "sending", ![x].ask = q, ![x].sent = Path(q), ![x].since = newest,
          ![x].sig = IF Signed(q) THEN Sign(now, q) ELSE <<>>]
    /\ UNCHANGED <<env, now, newest>>

(* No chain or token: an error as a result.  No credentials, or a blank    *)
(* timeframe: an exception, or in the script a way to exit.                *)
BeginFails(x, q) ==
    /\ calls[x].pc = "idle" /\ (Answered(q) \/ ~ Prepares(q))
    /\ calls' = [calls EXCEPT ![x].pc = "done", ![x].ask = q,
          ![x].outcome = IF Answered(q) THEN "error"
                         ELSE IF q.via = "smoke" /\ ~ HasCredentials THEN "exit_2"
                         ELSE Failure(q)]
    /\ UNCHANGED <<env, now, newest>>

(* OKX's own account of a signed request. *)
SignatureHolds(x) ==
    Signed(calls[x].ask) =>
        calls[x].sig.path = calls[x].sent /\ now - calls[x].sig.stamp <= Tolerance

Respond(x, answer, rows) ==
    /\ calls[x].pc = "sending"
    /\ calls' = [calls EXCEPT ![x].pc = "answered", ![x].answer = answer, ![x].rows = rows]
    /\ UNCHANGED <<env, now, newest>>

(* OKX answers with the latest candles, one of which may be broken, or,    *)
(* for what it does not trade, with none.                                  *)
OkxServes(x) ==
    /\ calls[x].pc = "sending"
    /\ SignatureHolds(x) /\ calls[x].sent.bar \in OkxBars
    /\ LET rows == LatestRows(calls[x].sent.limit) IN
       \/ Respond(x, "code_0", rows)
       \/ Respond(x, "code_0", <<>>)
       \/ \E i \in DOMAIN rows : Respond(x, "code_0", [rows EXCEPT ![i] = Broken])

(* OKX reports an error: by the status, by the code, or by no JSON object. *)
OkxRefuses(x) == \E a \in {"status", "code", "garbage"} : Respond(x, a, <<>>)

(* The connection fails or a read times out. *)
NetworkFails(x) ==
    /\ calls[x].pc = "sending"
    /\ End(x, Failure(calls[x].ask))
    /\ UNCHANGED <<env, now, newest>>

(* fetch_okx_candles and fetch_dex_candles raise for anything but this. *)
Fetched(x) == calls[x].answer = "code_0" /\ Readable(calls[x].rows)

(* The answer is parsed and the candles go to the analysis. *)
Receive(x) ==
    /\ calls[x].pc = "answered" /\ calls[x].ask.via # "smoke"
    /\ Fetched(x)
    /\ calls' = [calls EXCEPT ![x].pc = "analysing", ![x].input = Candles(calls[x].rows)]
    /\ UNCHANGED <<env, now, newest>>

(* raise_for_status, json, the code and the rows each may raise. *)
ReceiveFails(x) ==
    /\ calls[x].pc = "answered"
    /\ ~ Fetched(x)
    /\ End(x, Failure(calls[x].ask))
    /\ UNCHANGED <<env, now, newest>>

(* The script counts the candles. *)
Report(x) ==
    /\ calls[x].pc = "answered" /\ calls[x].ask.via = "smoke"
    /\ Fetched(x)
    /\ calls' = [calls EXCEPT ![x].pc = "done", ![x].input = Candles(calls[x].rows),
                    ![x].outcome = IF calls[x].rows # <<>> THEN "exit_0" ELSE "exit_1"]
    /\ UNCHANGED <<env, now, newest>>

(* RUNECLAW's analysis, which may raise; its report is what goes out. *)
Analyse(x) ==
    /\ calls[x].pc = "analysing"
    /\ \E o \in {"report", "raised"} : End(x, o)
    /\ UNCHANGED <<env, now, newest>>

Tick == now < MaxTime /\ now' = now + 1 /\ UNCHANGED <<env, newest, calls>>

NewCandle ==
    newest < MaxCandle /\ newest' = newest + 1 /\ UNCHANGED <<env, now, calls>>

Next ==
    \/ \E x \in Calls :
          \/ \E q \in Asks : Begin(x, q) \/ BeginFails(x, q)
          \/ OkxServes(x) \/ OkxRefuses(x) \/ NetworkFails(x)
          \/ Receive(x) \/ ReceiveFails(x) \/ Analyse(x) \/ Report(x)
    \/ Tick
    \/ NewCandle

Spec == Init /\ [][Next]_vars

-----------------------------------------------------------------------------
(* Every variable has its type; what is sent asks for 1.._MAX_LIMIT rows.  *)
TypeOK ==
    /\ env \subseteq Secrets
    /\ now \in 0..MaxTime /\ newest \in 1..MaxCandle
    /\ \A x \in Calls :
          /\ calls[x].pc \in {"idle", "sending", "answered", "analysing", "done"}
          /\ calls[x].ask \in Asks \union {<<>>}
          /\ calls[x].pc = "sending" => calls[x].sent.limit \in 1..MaxLimit
          /\ calls[x].outcome \in {"none", "error", "raised", "report",
                                   "exit_0", "exit_1", "exit_2"}

(* What is analysed is OKX's market and all of it: nothing if OKX had      *)
(* nothing, and otherwise an unbroken run of candles in the order of time, *)
(* as many as were asked for or as there were, and up to date with the     *)
(* moment of the call at least.  A defective answer, or one row of it, is  *)
(* never analysed in part, and no PASS of the script rests on one.         *)
(* (fetch_okx_candles, fetch_dex_candles)                                  *)
AnalysesWholeMarket ==
    \A x \in Calls :
        LET in == calls[x].input IN
        /\ calls[x].outcome = "exit_0" => in # <<>>
        /\ in # <<>> =>
              /\ \A i \in DOMAIN in : in[i] = Last(in) - Len(in) + i
              /\ Last(in) \in calls[x].since .. newest
              /\ Len(in) = IF calls[x].sent.limit < Last(in)
                           THEN calls[x].sent.limit ELSE Last(in)

(* Fail-closed and honest: while a credential is missing no signed request *)
(* leaves, neither a tool's nor the script's, and none of a tool's without *)
(* a chain and a token; what leaves is signed over exactly what is sent,   *)
(* so that OKX turns it down for its age only.  ("Build the query          *)
(* ourselves so the signed path matches the sent path exactly")            *)
HonestlySigned ==
    \A x \in Calls :
        calls[x].sent # <<>> /\ Signed(calls[x].ask) =>
            /\ env = Secrets
            /\ calls[x].ask.via = "dex" => calls[x].ask.named
            /\ calls[x].pc = "sending" /\ ~ SignatureHolds(x)
                  => now > calls[x].sig.stamp + Tolerance

(* Upper and lower case say the same except between minutes and months.    *)
Meaning(f) ==
    <<f[1], CASE f[2] \in {"h", "H"} -> "hours" [] f[2] \in {"d", "D"} -> "days"
              [] f[2] \in {"w", "W"} -> "weeks" [] OTHER -> f[2]>>

(* A report is labelled with the timeframe as it was asked for: the candles*)
(* behind it have that length, whichever adapter fetched them, and 4 hours *)
(* if none was given.  (to_okx_bar and its copy _to_okx_bar)               *)
LabelledAsFetched ==
    \A x \in Calls :
        LET f == calls[x].ask.frame IN
        calls[x].input # <<>> =>
            Meaning(calls[x].sent.bar) =
                IF f \in {Empty, Blank} THEN <<"4", "hours">> ELSE Meaning(f)

=============================================================================
