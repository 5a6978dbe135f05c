------------------------------ MODULE Startup ------------------------------
(***************************************************************************)
(* How the process of runeclaw_okx/transport.py comes up, serves and goes  *)
(* down, over stdio (serve) and over HTTP (serve_http and build_http_app   *)
(* of http_transport.py).  Both build the server with build_server, whose  *)
(* guards they reach by different ways: what is imported, checked and      *)
(* built before a guard differs, and so does what a failure leaves behind. *)
(*                                                                         *)
(* The process is sequential; an action stands for one step that may fail. *)
(* A signal that Python does not handle may end it at any time.            *)
(* A deployment is what the environment, the command line and the          *)
(* installed packages amount to:                                           *)
(*   transport  what --transport or MCP_TRANSPORT says; argparse does not  *)
(*              compare a default with the choices, so "other" is possible *)
(*   numbers    whether the port and the rate limit are integers           *)
(*   execute    MCP_ALLOW_EXECUTE is truthy                                *)
(*   token      MCP_AUTH_TOKEN is not empty                                *)
(*   payment    "off", or required with a configuration "ready" or not     *)
(*   readonly   the catalogue passes the checks of ExtendedServer          *)
(*   missing    the packages that cannot be imported                       *)
(***************************************************************************)
EXTENDS Naturals

(* "libs" are cryptography and httpx, "pack" is RUNECLAW. *)
Packages == {"uvicorn", "starlette", "sdk", "libs", "pack"}

Deployments ==
    [transport : {"stdio", "http", "other"}, numbers : BOOLEAN,
     execute : BOOLEAN, token : BOOLEAN, payment : {"off", "ready", "unready"},
     readonly : BOOLEAN, missing : SUBSET Packages]

VARIABLES
    deployed,  \* the deployment, which nothing changes while the process lives
    pc,        \* the next step of the process
    loaded,    \* the packages imported so far
    verifier,  \* whether a receipt verifier was built
    engine,    \* RUNECLAW's server: "none", "built", or "down" after shutdown
    cause      \* why the process gave up, "none" if it did not

vars == <<deployed, pc, loaded, verifier, engine, cause>>

Http == deployed.transport = "http"
Required == deployed.payment # "off"

-----------------------------------------------------------------------------
Init ==
    /\ deployed \in Deployments
    /\ pc = "args"
    /\ loaded = {}
    /\ verifier = FALSE
    /\ engine = "none"
    /\ cause = "none"

Goto(next) == pc' = next /\ UNCHANGED <<deployed, cause>>

(* An exception that nobody catches ends the process. *)
Fail(why) ==
    /\ pc' = "failed"
    /\ cause' = why
    /\ UNCHANGED <<deployed, loaded, verifier, engine>>

(* The next step after a check, which fails for the reason given.          *)
Guard(ok, next, why) ==
    \/ ok /\ Goto(next) /\ UNCHANGED <<loaded, verifier, engine>>
    \/ ~ ok /\ Fail(why)

(* Mutant of Import: what cannot be imported is done without. *)
ImportIfPresent(pkg, next) ==
    /\ loaded' = loaded \union {pkg}
    /\ Goto(next)
    /\ UNCHANGED <<verifier, engine>>

Import(pkg, next) ==
    \/ /\ pkg \notin deployed.missing
       /\ loaded' = loaded \union {pkg}
       /\ Goto(next)
       /\ UNCHANGED <<verifier, engine>>
    \/ pkg \in deployed.missing /\ Fail("import")

(* Mutant of ParseArgs: main knows the two names and nothing else. *)
ParseArgsByName ==
    /\ pc = "args"
    /\ Guard(deployed.numbers,
             IF Http THEN "uvicorn"
             ELSE IF deployed.transport = "stdio" THEN "stdio" ELSE "returned", "args")

(* _parse_args: the numbers are converted whatever the transport. *)
ParseArgs ==
    /\ pc = "args"
    /\ Guard(deployed.numbers, IF Http THEN "uvicorn" ELSE "stdio", "args")

(* serve imports the stdio server and RUNECLAW's logger. *)
ImportStdio == pc = "stdio" /\ Import("sdk", "logger")
ImportLogger == pc = "logger" /\ Import("pack", "execute")

(* serve_http, then build_http_app *)
ImportUvicorn == pc = "uvicorn" /\ Import("uvicorn", "manager")
ImportManager == pc = "manager" /\ Import("sdk", "starlette")
ImportStarlette ==
    pc = "starlette" /\ Import("starlette", IF Required THEN "payments" ELSE "execute")

(* When payment is required: the module, then from_env. *)
ImportPayments == pc = "payments" /\ Import("libs", "verifier")

(* Mutant of BuildVerifier: a bad configuration falls back to no payment.  *)
BuildVerifierOrNot ==
    /\ pc = "verifier"
    /\ verifier' = (deployed.payment = "ready")
    /\ Goto("execute")
    /\ UNCHANGED <<loaded, engine>>

(* SignedReceiptVerifier.from_env *)
BuildVerifier ==
    /\ pc = "verifier"
    /\ \/ /\ deployed.payment = "ready"
          /\ verifier' = TRUE
          /\ Goto("execute")
          /\ UNCHANGED <<loaded, engine>>
       \/ deployed.payment = "unready" /\ Fail("payment")

(* build_server *)
AssertExecuteDisabled ==
    pc = "execute" /\ Guard(~ deployed.execute, "token", "execute")

(* Mutant of ResolveAuthToken: only the HTTP transport insists. *)
ResolveAuthTokenHttpOnly ==
    pc = "token" /\ Guard(deployed.token \/ ~ Http, "sdk", "token")

ResolveAuthToken == pc = "token" /\ Guard(deployed.token, "sdk", "token")

ImportSdk == pc = "sdk" /\ Import("sdk", "extended")

ImportExtended == pc = "extended" /\ Import("libs", "catalogue")

(* build_extended_server: assert_extended_readonly, the import of RUNECLAW *)
(* and its server.                                                         *)
CheckCatalogue == pc = "catalogue" /\ Guard(deployed.readonly, "pack", "catalogue")

ImportPack == pc = "pack" /\ Import("pack", "build")

(* RUNECLAW's constructor, which is external and may raise. *)
BuildEngine ==
    /\ pc = "build"
    /\ \/ engine' = "built" /\ Goto("wire") /\ UNCHANGED <<loaded, verifier>>
       \/ Fail("engine")

(* Between the server that was built and the first request: over stdio the *)
(* log entry, which comes before the try; over HTTP the app with its gates *)
(* and uvicorn, which may find the port taken.                             *)
Wire ==
    /\ pc = "wire"
    /\ \/ Goto("serving") /\ UNCHANGED <<loaded, verifier, engine>>
       \/ Fail(IF Http THEN "bind" ELSE "log")

(* Mutant of StopServing: the shutdown follows an orderly end only, and    *)
(* there is no finally clause.                                             *)
StopServingNoFinally ==
    /\ pc = "serving"
    /\ Goto("stopped") \/ (~ Http /\ Goto("closing"))
    /\ UNCHANGED <<loaded, verifier, engine>>

(* The client disconnects, the server raises, or Ctrl-C cancels serve:     *)
(* over stdio the finally clause comes next, over HTTP there is none.      *)
StopServing ==
    /\ pc = "serving"
    /\ Goto(IF Http THEN "stopped" ELSE "closing")
    /\ UNCHANGED <<loaded, verifier, engine>>

(* await rc.shutdown(), which is external: it may raise, or hang.          *)
Shutdown ==
    /\ pc = "closing"
    /\ \/ engine' = "down" /\ Goto("stopped") /\ UNCHANGED <<loaded, verifier>>
       \/ Fail("shutdown")

Ended == pc \in {"stopped", "failed", "killed"}

(* SIGTERM, for which neither transport.py nor asyncio has a handler, or   *)
(* SIGKILL: no finally clause runs.  (uvicorn takes a SIGTERM for an end   *)
(* of serving.)                                                            *)
Kill ==
    /\ ~ Ended
    /\ pc' = "killed"
    /\ UNCHANGED <<deployed, loaded, verifier, engine, cause>>

(* The steps of the start: nothing in them waits for another. *)
Proceed ==
    \/ ParseArgs
    \/ ImportStdio \/ ImportLogger
    \/ ImportUvicorn \/ ImportManager \/ ImportStarlette
    \/ ImportPayments \/ BuildVerifier
    \/ AssertExecuteDisabled \/ ResolveAuthToken
    \/ ImportSdk \/ ImportExtended \/ CheckCatalogue \/ ImportPack \/ BuildEngine
    \/ Wire

Next == Proceed \/ StopServing \/ Shutdown \/ Kill

(* The start goes on; when serving ends, and whether the shutdown ever     *)
(* does, is up to others.                                                  *)
Spec == Init /\ [][Next]_vars /\ WF_vars(Proceed)

-----------------------------------------------------------------------------
(* Every variable has its type, and a package in use is installed.         *)
TypeOK ==
    /\ deployed \in Deployments
    /\ pc \in {"args", "stdio", "logger", "uvicorn", "manager", "starlette", "payments",
               "verifier", "execute", "token", "sdk", "extended", "catalogue", "pack",
               "build", "wire", "serving", "closing", "stopped", "failed", "killed"}
    /\ loaded \subseteq Packages \ deployed.missing
    /\ verifier \in BOOLEAN
    /\ engine \in {"none", "built", "down"}
    /\ cause \in {"none", "args", "import", "payment", "execute", "token", "catalogue",
                  "engine", "log", "bind", "shutdown"}
    /\ pc = "failed" <=> cause # "none"

(* However a deployment is misconfigured, what serves requests, over       *)
(* either transport, passed every guard: execution disabled, a token to    *)
(* check, a read-only catalogue.  (build_server on both paths)             *)
ServesGuarded ==
    pc = "serving" => ~ deployed.execute /\ deployed.token /\ deployed.readonly

(* "refuses to build, rather than silently serving a paid listing for      *)
(* free": over HTTP a deployment that requires payment serves with a       *)
(* verifier or does not serve.  (build_http_app)                           *)
NeverFreeWhenPaid == pc = "serving" /\ Http /\ Required => verifier

(* Every deployment, whatever is wrong with it, ends up serving, unless it *)
(* is killed, or fails with its reason: no way through the start leads     *)
(* nowhere.  (main to serve_http and serve, which take the steps in        *)
(* different orders)                                                       *)
ComesUpOrFails == <>(pc \in {"serving", "killed"} \/ cause # "none")

(* What a stdio process built it does not leave behind when it ends:       *)
(* unless it is killed, an end finds the engine shut down, or never built, *)
(* or names why not: the log entry before the try, or the shutdown itself, *)
(* raised.  (The finally clause of serve)                                  *)
StdioEndsReleased ==
    pc \in {"stopped", "failed"} /\ ~ Http /\ engine = "built" =>
        cause \in {"log", "shutdown"}

(* README.md, "a startup assertion (runs before auth and before any heavy  *)
(* import)": while execution is enabled nothing heavy is imported.         *)
ExecuteAssertedFirst == deployed.execute => loaded = {}

=============================================================================
