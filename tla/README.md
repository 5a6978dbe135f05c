# RUNECLAW for OKX AI: specifications and proofs

This directory holds TLA+ models of the program in `src/runeclaw_okx`, the TLC
configurations that check them on small instances, and theorems about them
that TLAPS checks for every value of the constants. `PROJECT.json` says which
definition models which lines, which run checks which property, and which bug
each property would catch.

## The system

`runeclaw_okx` serves RUNECLAW's read-only analysis tools over the Model
Context Protocol, over stdio or over HTTP, free or paid per call. RUNECLAW
itself (a submodule) and the MCP SDK are not in the repository; they appear
here only as `src/` uses them.

```
             stdio: serve() ------------------------------.
 command                                                   v
 line, env                                          build_server() -> tools
             HTTP:  uvicorn -> bearer gate -> payment gate -^          |
                              + rate limit    + receipts        extended server
                                                                + attestation
                                                                      |
                                                     RUNECLAW skills, OKX data
```

| component | state it keeps | operations | what is hard | what makes it correct |
|---|---|---|---|---|
| Rate limiter (`http_transport.py`, `RateLimiter`) | key -> window start and count | `check` | boundaries of a fixed window, truncation of Retry-After | bounded admission in any period; refusals deserved; Retry-After enough, and the next whole second at most |
| Receipt verifier (`payments.py`) | set of used nonces, terms, wall clock | `verify`, `NonceStore.use`, 402 challenge | order of checks, uncaught exceptions, amounts compared as floats, clock set back, restart | one call per nonce, each call paid for, no receipt lost by a refusal |
| HTTP transport (`http_transport.py`) | requests under way | bearer gate, payment gate, `/healthz`, `build_http_app` | interleaved requests, order of gates, exceptions | fail closed; charged only when admitted; receipts balance; every request decided |
| Extended server (`extended_server.py`) | tool index | `build_extended_server`, `call_tool`, `list_tools` | late edits of the catalogue, overridden names, clamping by two ways, arguments that are false | never a trading skill; bounds always kept |
| Attestation (`attestation.py`, `_handle_attest`) | the process's key | `get_attestor`, `attest`, `verify_attestation` | await between run and signature, lazily made key, bad seed, arguments clamped behind the signed ones | one key per process; a signature covers what this very call's tool answered; what verifies was answered and signed together (the key id apart), and what was answered verifies |
| Start-up (`transport.py`, `build_http_app`) | engine built or not | `main`, `serve`, `serve_http`, `build_server` | two ways to the same guards, partial failure | serves only when guarded; paid mode never free; every start comes up or fails with its reason; what stdio leaves behind has a known cause |
| OKX market data (`okx_data.py`, `okx_dex.py`) | none | fetch candles, run the analysis | error answers, short rows, order of rows, stale signing time, two copies of the timeframe conversion | derived output or an error, nothing half-done; the candles have the length the report says; what is signed is what is sent |
| A2MCP manifest (`scripts/generate_a2mcp_manifest.py`) | `okx-ai/manifest.json` | generate, `--check` | catalogues put together twice, a price table, a truncating write, a server built at another time | the listing is what the server serves and names nothing that trades |
| DEX smoke script (`scripts/okx_dex_smoke.py`) | none | one signed request, exit code 0, 1 or 2 | every failure has to be one | a PASS rests on whole, non-empty data |
| Agent skills, tests, CI | none | | | not behaviour of the running system |

How they interact: `main` calls `serve` or `serve_http`; both call
`build_server`, which checks the environment and builds the extended server.
Over HTTP, `build_http_app` wraps the MCP session manager in the payment gate
(if a verifier is configured) and that in the bearer gate, which calls the
limiter. All of it runs in one asyncio loop: code between two awaits is
atomic, and requests interleave at awaits only. Nothing is persisted: a restart
loses the limiter's table, the used nonces and an ephemeral signing key.

## Modules

**RateLimiter** models `RateLimiter.check` with a clock of ticks, several of
which make a second so that `int(...)` in Retry-After is visible. `Admit` and
`Refuse` are the two ways a call of `check` ends; `Restart` is a new process.
`state` is `_state`. `admits` and `refused` are history: what each caller was
told; the code keeps neither. `LimitArg` is the constructor's argument, of any
sign, and `Limit` is `max(1, limit)`.

**Payments** models `SignedReceiptVerifier.verify` in one action (it has no
await) with two outcomes, `Accept` and `Decline`; the latter stands for every
refusal and for the four exceptions nobody catches (`Raises`: JSON nested too
deep, a payload that cannot be encoded, one that is no object, an expiry that
overflows): none of them changes anything. `seen` is `NonceStore._seen`. `settled`
is what the Broker issued (only it can sign), `accepted` is history. The
cryptography is a Boolean in the receipt, amounts and expiries are integers
or markers for what `float()` refuses, cannot compare or makes infinite.
`_decimal_ge` compares floats: `Float` rounds an amount to the nearest multiple
of `Ulp`, so that an amount below the price by less than that may do, and an
infinite one always does. A receipt without
an expiry is one that expired at 0, as in the code.

**PayPerCall** is the abstract specification of a metered service: a purchase,
once used, buys no second call until the service forgets it.

**HttpTransport** composes the two (`L == INSTANCE RateLimiter`, `P ==
INSTANCE Payments`) behind concurrent requests. A request is "at the gate",
"at the payment gate", in the MCP handler, answered, or cut by a restart. The
bearer gate with the limiter is one step; the payment gate is another because
`verify` is awaited, and PaymentVerifier is a protocol whose implementation may
suspend. A process is `metered` or not, and a restart may change that.

**Catalogue** holds what the server and the manifest share: the tools of a
release, the checks (`assert_extended_readonly` and its relatives), the list
(`list_tools`) and the index (the last definition of a name wins). **Shipped**
is the data of this release, each tool with its skill and the names of its
parameters, the skill sets and the price table.

**ExtendedServer** models the clamp and calls: direct ones and
`runeclaw_signed`, which awaits another tool and signs afterwards. The tool's
end (`Finish`, external) and the caller's resumption (`Return`) are two steps,
so that other calls run in between; the answers of two calls differ
(`Response`). `Falsy` stands for arguments that are left out, null or otherwise
false: both `or {}` of the code make them an empty object (`Given`). `attestor` is `_ATTESTOR`. The catalogue a release ships is a
constant (`Catalogues`), so that a run can ask which edits start-up would
stop. "limit" stands for the three bounded arguments. A signed payload is a
sequence of members; `CanonicalBytes` forgets their order, as `sort_keys` does,
and a hash or a signature is a record of what it covers. `Attestation` has the
six fields of the code. `Verifies` is `verify_attestation`, which compares three
of them, and which no action uses: the properties use it as a client would.

**Manifest** models `okx-ai/manifest.json` between a checkout that is edited
(`source`), the script that truncates and then writes it (`Generate`,
`WriteOut`, `CutShort`), `--check`, an operator who fills in the placeholders,
and a server deployed from the checkout at another time. `origin` is history.
The generator puts the catalogues together for itself (`AllDefs`), as in the
code, and the property compares that with the server's list.

**Startup** models the process from the command line to its end. A
*deployment* (environment, flags, payment configuration, catalogue, missing
packages) is chosen at the start and each action is a step that may fail:
RUNECLAW's constructor, the log entry of `serve` (which comes before its `try`)
and uvicorn's bind may do so in any deployment. `Proceed` is the steps of the
start. `StopServing` is an end that Python sees, an exception or Ctrl-C among
them: over stdio the finally clause comes next. `Shutdown`, which is external,
may raise or never return, and `Kill` (SIGTERM or SIGKILL) ends the process with no
finally clause at all.

**MarketData** models a market-data tool from its arguments to its report:
what happens before the request (`Begin`, `BeginFails`), the request and OKX's
answer (external), and the parsing (`Receive`, `ReceiveFails`). A candle is its
number in time. The path of a request is what the query holds; a DEX request
carries a signature that covers a timestamp and a path, and OKX compares both
with what arrives (`SignatureHolds`). `OkxUnit`, `CexBar` and `DexBar` are the
timeframe conversions. The smoke script is a third kind of caller: it ends with
an exit code (`Report`, `Failure`) instead of an analysis.

The `*Proofs` modules hold the proofs, one for each component's module, and
the `MC*` modules give constants their values.

## Runs

| run | question | bounds, and why they are enough |
|---|---|---|
| `limiter` | does a fixed window bound, refuse and advise as it should? | two keys (isolation needs two), a limit of 2, a window of several ticks that is not a whole number of seconds, a clock that runs over more than two windows, restarts |
| `payments` | is each call paid for once, and a good receipt honoured? | one receipt per way to fail, two that share a nonce (one of them for an infinite amount), one that pays an amount below the price that rounds up to it, a wall clock set to any value, one restart |
| `payments_replay` | is a receipt good for one call? | *violated*: not across a restart |
| `http` | do the gates hold together for concurrent requests, and is each request decided? | three requests against a limit of 2: two race for one receipt while the third is refused; one kind of request for each way through the gates; windows of one tick and a clock that opens a second one; one restart, into either mode. No symmetry, as liveness is checked |
| `http_bad_token` | is a bad token always answered 401? | *violated*: 500 when it is not ASCII |
| `http_price` | is the advertised price charged? | *violated*: the flat price is |
| `extended` | can a tool call reach a trading skill, or get round the clamp or the key, and what does a signature prove? | three calls, so that one can be answered while another awaits its tool, and the parts of three answers can be mixed; two processes, hence answers under two keys; a signing seed that is missing, good or bad; eight catalogues; arguments in and out of bounds, of no use, and false |
| `extended_number` | is a bad number answered? | *violated*: infinity raises |
| `startup` | what can serve, does every start come up or fail, and what is left behind? | every deployment |
| `startup_order` | does the execution guard come before every heavy import? | *violated*: over neither transport |
| `market_data` | is what is analysed whole, ordered, fresh and as long as it says, and what is signed what is sent? | one call, as calls share no state; limits below, in and above the range; timeframes in both cases, a minute and a month among them, one unknown, one empty, one blank; a market with fewer and with more candles than the limit; a clock that outruns a signature |
| `manifest` | is a listing that passes `--check` what the server serves? | the shipped data and five edits of it: a price, a parameter, a name of RUNECLAW's defined again, a tool less, a tool that trades. Two edits in a row are enough to leave any file behind any checkout |

The five runs marked *violated* contradict a sentence of the repository, which
`PROJECT.json` quotes under "findings". None of them lets a caller trade or
lets a request without the server's token in.

What the passing runs show, by component:

* *Limiter.* `SlidingBound` is sharp: a window may see up to
  `2 * Limit - 1` admissions, where the documents speak of `Limit` per minute.
  `RetryHonoured` and `RetryNextSecond` pin Retry-After from both sides: it is
  enough, and it is the first whole second *after* the end of the window. For
  a rest that is a whole number of seconds this is a second later than needed
  (61 for 60.0), as `int(rest) + 1` has it.
* *Payments.* `NothingForFree` and `SingleUse` hold whatever the clock does;
  they are promises of one process only. "Paid" is up to what floats can tell.
  `ReceiptHonoured` exempts a receipt whose expiry has passed or is none that
  can be compared, and needs a price that is a number.
* *HTTP.* `ReceiptsBalance` says that requests let in and receipts used are in
  balance, whoever raced whom; `ComponentsKept` that composition adds no
  behaviour the components' own specifications exclude; `SellsCalls` that the
  endpoint implements PayPerCall under the mapping `bought <- settled`, `used
  <-` the receipts accepted by this process, `calls <-` the metered requests
  that carried a receipt.
* *Extended server.* `NeverExecutes` holds for every edit of the catalogue in
  the instance, among them the ones that override a RUNECLAW name: the checks
  compare skills with the allow-lists, and those share nothing with
  EXECUTION_SKILLS (an assumption of the module, true of the constants in the
  code).
* *Attestation.* `SignsOnlyRuns`: however calls interleave, a signature covers
  the answer to its own call. `VerifiedIsGenuine`: whatever a client assembles
  out of the parts of signed answers, across a restart too, what verifies is a
  request and a response that were signed together, with their hash, signature
  and public key. It does not vouch for the `key_id`, which may be another
  answer's, as `verify_attestation` looks at neither `key_id` nor `algo` nor
  `hash`: a consumer that knows a server by its key id has to compute it from
  the public key. `GenuineVerifies`: the client's own request, unclamped and in any order of
  members, gives the signed bytes, *unless* its arguments were left out or
  false: the code signs an empty object for these, and such a client has to take the
  request from the answer. Verification trusts the key inside the attestation;
  that it is this server's is for the client to compare.
* *Market data.* `AnalysesWholeMarket` relies on OKX to answer newest-first and
  with no more rows than asked for, as the code does. `LabelledAsFetched` would
  break if one copy of the conversion put minutes in upper case: "1M" is a month.
* *Manifest.* `ListingIsServed` also says that a listing which passes
  `--check` still has its placeholders: one that was filled in, as
  `okx-ai/README.md` asks, is called stale, and generating it again puts them
  back. A torn or missing file never passes. Beside the run, TLC evaluates
  `ReleaseAssumption` on the shipped data: it passes its checks, no name occurs
  twice, and each key of the price table is the name of a tool.
* *Start-up.* Both ways into `build_server` pass the same guards, no
  combination of misconfigurations gets round one, and each ends in serving or
  in a failure with its reason (`ComesUpOrFails`), if nobody kills the process.
  `StdioEndsReleased` says what the finally clause of `serve` is worth: a stdio process
  that stops or fails has shut the engine down, unless the log entry before
  the `try` raised, or the shutdown itself. It says nothing of a process that
  is killed, or that hangs in the shutdown; and over HTTP there is no shutdown.

### Fairness

`Payments` has weak fairness of `Accept` for each receipt: its buyer retries.
`HttpTransport` has weak fairness of each request's own steps (`Serve`):
asyncio runs every ready task. The MCP handler (`Answer`), clients, the
clocks and restarts have none. `Startup` has weak fairness of `Proceed`: the
start is sequential code that waits for nobody. That serving ends
(`StopServing`) is not assumed, nor that the shutdown, which is RUNECLAW's,
ever returns. The clock of the
model stops at a bound; no liveness property waits for it. Market-data calls
have no fairness: a timeout of httpx bounds each operation and not the call.

### Deadlock

It is checked except for `ExtendedServer`, `MarketData` and `Startup`, whose
calls and whose process come to an end.

## Proofs

Every safety invariant that a passing run checks is a theorem of its
specification, and so are the two refinements of `HttpTransport`, for every
value of the constants that satisfies the modules' ASSUMEs. The bounds of the
models appear in guards only and no proof depends on their values. TLC
evaluates each ASSUME on the instance of its run.

| module | what is proved |
|---|---|
| `RateLimiterProofs` | bounds, refusals and Retry-After of the fixed window |
| `PaymentsProofs` | single use, backing and burning of nonces |
| `HttpTransportProofs` | the gates, the balance of receipts, both refinements |
| `CatalogueProofs` | what passing the start-up checks says of the index |
| `ExtendedServerProofs` | what calls run, on which argument, and what signatures are worth |
| `ManifestProofs` | what a listing says of the server |
| `StartupProofs` | serving implies the guards; what the end leaves behind |
| `MarketDataProofs` | whole data, honest signatures, true labels |

*Limiter.* The properties speak of the history, the code of one counter per
key, so that the invariant (`KeyInv`) ties them together: the current window
began at the admission `count` places from the end of the history, at `start`
(`Tracked`); admissions are in order of time and none lies in the future
(`Sorted`); those at least `Limit` places before the window's first were a
whole window earlier (`Windowed`); and the latest refusal was caused by a full
window whose end it was told to wait for (`Promised`, `Justified`).
`AdmitKeepsKey` and
`RefuseKeepsKey` show that a check keeps this for its own key, `Frame` that the
clock and other keys do not disturb it. `SlidingBound` is
one of the conjuncts (`Bounded`): when an admission completes a run of
`2 * Limit`, `Windowed` has kept the first of them a window away. Retry-After is integer
division, bounded once in `DivBounds`. Assumed: an integer limit, a positive
window and resolution.

*Payments.* `SingleUse`, `BurntIffAccepted` and `NothingForFree` need each
other: that a nonce is fresh says something about earlier acceptances only
because the used nonces are exactly those of the accepted presentations
(`BurntIffAccepted`), and that a settlement backs one call only is single use
again. Their conjunction with the types is inductive; `AcceptKeeps`,
`RestartKeeps` and `OutsideKeeps` are its three cases. A restart keeps it
because the history is split by process. That an amount whose float covers the
price's is short of it by less than one `Ulp` is `CoveredIsWorth`. Assumed: receipts
of the right shape, and a price that is an integer, infinite or, as nothing
checks it, no number at all.

*HTTP.* There are three layers, each resting on the one before.
(1) `Placed`: where a request stands says which gates it has passed, so that
`FailClosed` is a matter of one request. (2) Each step is a step or a stutter of
the limiter and one of the verifier (`StepOfComponents`), hence
`ComponentsAreKept`; the proof modules of the two are instantiated, and what
they prove holds of the endpoint (`EndpointKeepsPromises`).
`StrangersLeaveNoTrace` needs only that every check is asked about the server's
token (`LimiterAsked`). (3) `Balanced` counts. `ChargedOnlyAdmitted` is not
inductive, as a request between the gates has been admitted and not charged;
with those requests added (`Waiting`) it is, next to `ReceiptsBalance` and to
the finiteness of both sets, which holds although there may be infinitely many
requests. A step of the payment gate adds one to each side
(`PaymentBalances`), a step of the queue to neither or to the admissions
(`QueueBalances`), and a restart empties the queue (`RestartBalances`). The
refinement of PayPerCall follows from (2) and (3), as an accepted payment is
a call (`PaymentIsCall`) and every other step stutters, forgets, or settles.
`OwnerGetsIn` has two hypotheses of its own: the configured token is ASCII, and
has no white space around it. With a token that is not ASCII, `compare_digest`
raises and nobody gets in; with a padded one everybody is a stranger, as the
code strips what is presented (`http_transport.py:103`) and not what is
configured (`transport.py:80`). Nothing in the code refuses either at the
start. `OwnerIsAdmitted` is about the token as configured, or padded.

*Catalogue, tool server, manifest.* `IndexIsServable` is about the data alone:
of a catalogue that passes the checks, no name leads to a skill that trades,
and none but the attestation tools' to no skill, whichever definition of a name
wins. `LastOf` is a CHOOSE; that it chooses needs that a set of positions has a
maximum (`LastPosition`). In `ExtendedServer` the invariant says of each call
what it has run (`Ran`) and what it has signed or is about to (`SignedOK`: a
call of `runeclaw_signed` that awaits its tool is authenticated, the process
has its key already, what it has signed covers its own answer, and what has
been signed in this process is under that key). The last point is what makes `OneKey` inductive, which joins the
invariant as the keys of earlier processes are known by it only.
`BytesTellPayloads` (canonical bytes are injective on payloads) and
`OrdersKeepMembers` (reordering loses none) carry `VerifiedIsGenuine` and
`GenuineVerifies`. In `Manifest` the file is always the rendering of a source
that passed the assertion (`FileOK`), the writer's too (`WriterOK`), and a
verdict is about the file and the checkout as they still are (`VerdictOK`); the two ways
of putting the tuples together agree because concatenation is associative
(`AllDefsIsListing`). Assumed of a catalogue: its four parts are sequences
(`CatalogueShape`), the allow-lists share nothing with EXECUTION_SKILLS, and
RUNECLAW's own tools, which nothing here checks, do not trade (`BaseReadOnly`).
No skill is called like the placeholder of the attestation tools, "_" and
the name of the tool.

*Start-up.* `Passed` says which guards are behind each program counter; the
verifier is made before the guards of `build_server` and is kept with them.
`NothingIsLeftBehind` needs, besides, that an engine exists from its constructor on only,
and which reasons a failure after that can have.

*Market data.* The invariant (`CallOK`) says that what was sent is what was
asked for, signed at some time since, and that rows and input are the market
as it stood at some time between the request and now. `HonestlySigned` and
`AnalysesWholeMarket` follow from it by themselves, and `ConversionKeepsMeaning`
is what both copies of the timeframe conversion have to satisfy.

*Model-checked only.* Liveness under fairness is out of this prover's reach:
`ReceiptHonoured`, `Decided` and `ComesUpOrFails`. The
facts about the data of this release (`ReleaseAssumption`) are evaluated, not
proved. What a violated run shows is a counterexample and needs no proof.

## Not modelled

* The text of answers, of schemas and logs, the fixed text of the manifest; TLS;
  what the session manager does, DNS-rebinding protection among it: it comes
  after the payment gate, so that a request from a host that is not allowed has
  used up its receipt.
* What a request asks of MCP. The payment gate charges `initialize` and
  `tools/list` like a tool call, and the model counts requests as the code does.
* Scopes other than HTTP pass both gates in the code and in the model; whether
  the session manager accepts them is external.
* RUNECLAW's engine and skills. Over HTTP nothing shuts it down; the model
  shows it (`engine` stays "built"), no document speaks of it.
* Memory: the nonces are never dropped, and, with one accepted token, the
  limiter's table has a single entry.
* Numbers inside a candle: "NaN" and "Infinity" pass `float()` and go to the
  analysis, which is external. The conversion of symbols.
* Agent skills, which are prose; tests, CI and packaging.

## Plan

In the order in which the behaviour matters:

1. *(done)* RateLimiter, Payments with their proofs; the abstract PayPerCall;
   HttpTransport, which composes them; ExtendedServer; Startup.
2. *(done)* MarketData with timeframes, signatures and the smoke script;
   attestations as a client verifies them; Catalogue, Shipped and Manifest;
   liveness of the start.
3. *(done)* Proofs: every safety invariant, the composition's refinements, and
   the promises of the components carried over to the endpoint.
4. What remains: theorems on the way from a deployment to the endpoint
   (Startup's `verifier` is HttpTransport's `metered`); step properties that no
   invariant states, such as that a signed answer is never changed or withdrawn.

## Running

`tlc -config MCHttpTransport.cfg MCHttpTransport` checks one configuration;
`PROJECT.json` names the module of each. `tlapm HttpTransportProofs.tla` checks
the proofs of one module, two minutes for this one and less for the
others. Every run takes under a minute with two workers, but `http`, which
takes three.
