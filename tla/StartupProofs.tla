--------------------------- MODULE StartupProofs ---------------------------
(***************************************************************************)
(* The guards of the start-up, for every deployment: what a process has    *)
(* passed can be read off its next step, on both paths.                    *)
(***************************************************************************)
EXTENDS Startup, TLAPS

(* The steps that come after each guard, in the order of build_server. *)
AfterBuild == {"build", "wire", "serving"}
AfterCatalogue == {"pack"} \union AfterBuild
AfterToken == {"sdk", "extended", "catalogue"} \union AfterCatalogue
AfterExecute == {"token"} \union AfterToken
AfterVerifier == {"execute"} \union AfterExecute

(* A guard that is behind the process has held, and so has the receipt     *)
(* verifier that build_http_app makes before it calls build_server.        *)
Passed ==
    /\ pc \in AfterExecute => ~ deployed.execute
    /\ pc \in AfterToken => deployed.token
    /\ pc \in AfterCatalogue => deployed.readonly
    /\ pc \in {"stdio", "logger"} => ~ Http
    /\ pc \in AfterVerifier /\ Http /\ Required => verifier

(* What a step may do: go on to the next one if its check holds, or fail.  *)
LEMMA GuardTyped ==
    ASSUME TypeOK, NEW ok, NEW next, NEW why,
           next \in {"uvicorn", "stdio", "token", "sdk", "pack"},
           why \in {"args", "execute", "token", "catalogue"},
           pc # "failed", Guard(ok, next, why)
    PROVE  TypeOK'
  BY DEF Guard, Goto, Fail, TypeOK

(* An import goes on to the next step or fails. *)
LEMMA ImportTyped ==
    ASSUME TypeOK, NEW pkg \in Packages, NEW next,
           next \in {"logger", "execute", "manager", "starlette", "payments", "verifier",
                     "extended", "catalogue", "build"},
           pc # "failed", Import(pkg, next)
    PROVE  TypeOK'
  BY DEF Import, Goto, Fail, TypeOK

(* Every step keeps the types. *)
LEMMA StepTyped == TypeOK /\ [Next]_vars => TypeOK'
<1> SUFFICES ASSUME TypeOK, [Next]_vars PROVE TypeOK'
  OBVIOUS
<1>1. {"uvicorn", "starlette", "sdk", "libs", "pack"} \subseteq Packages
  BY DEF Packages
<1>2. CASE ParseArgs
  BY <1>2, GuardTyped DEF ParseArgs
<1>3. CASE ImportStdio \/ ImportLogger \/ ImportUvicorn \/ ImportManager \/ ImportStarlette
             \/ ImportPayments
  BY <1>1, <1>3, ImportTyped DEF ImportStdio, ImportLogger, ImportUvicorn, ImportManager,
     ImportStarlette, ImportPayments
<1>4. CASE BuildVerifier
  BY <1>4 DEF BuildVerifier, Goto, Fail, TypeOK
<1>5. CASE AssertExecuteDisabled
  BY <1>5, GuardTyped DEF AssertExecuteDisabled
<1>6. CASE ResolveAuthToken
  BY <1>6, GuardTyped DEF ResolveAuthToken
<1>7. CASE CheckCatalogue
  BY <1>7, GuardTyped DEF CheckCatalogue
<1>8. CASE ImportSdk \/ ImportExtended \/ ImportPack
  BY <1>1, <1>8, ImportTyped DEF ImportSdk, ImportExtended, ImportPack
<1>9. CASE BuildEngine \/ Wire \/ Shutdown \/ StopServing \/ Kill
  BY <1>9 DEF BuildEngine, Wire, Shutdown, StopServing, Kill, Ended, Goto, Fail, TypeOK
<1>10. CASE UNCHANGED vars
  BY <1>10 DEF TypeOK, vars
<1> QED
  BY <1>2, <1>3, <1>4, <1>5, <1>6, <1>7, <1>8, <1>9, <1>10 DEF Next, Proceed

(* Every variable keeps its type: in particular nothing is imported that   *)
(* is not installed, and a process has failed exactly if it has a reason.  *)
THEOREM TypeCorrect == Spec => []TypeOK
<1>1. Init => TypeOK
  BY DEF Init, TypeOK
<1> QED
  BY <1>1, StepTyped, PTL DEF Spec

-----------------------------------------------------------------------------
(* Failing keeps the invariant, whatever was passed. *)
LEMMA FailPasses ==
    ASSUME NEW why, Fail(why)
    PROVE  Passed'
  BY DEF Fail, Passed, AfterVerifier, AfterExecute, AfterToken, AfterCatalogue, AfterBuild

(* No step gets past a guard that does not hold. *)
LEMMA StepPasses == TypeOK /\ Passed /\ [Next]_vars => Passed'
<1> SUFFICES ASSUME TypeOK, Passed, [Next]_vars PROVE Passed'
  OBVIOUS
<1> USE DEF Passed, Http, Required, Goto,
            AfterVerifier, AfterExecute, AfterToken, AfterCatalogue, AfterBuild
<1>1. CASE ParseArgs
  BY <1>1, FailPasses DEF ParseArgs, Guard
<1>2. CASE ImportStdio \/ ImportLogger
  BY <1>2, FailPasses DEF ImportStdio, ImportLogger, Import
<1>3. CASE ImportUvicorn \/ ImportManager \/ ImportStarlette \/ ImportPayments
  BY <1>3, FailPasses DEF ImportUvicorn, ImportManager, ImportStarlette, ImportPayments, Import
<1>4. CASE BuildVerifier
  BY <1>4, FailPasses DEF BuildVerifier
<1>5. CASE AssertExecuteDisabled \/ ResolveAuthToken \/ CheckCatalogue
  BY <1>5, FailPasses DEF AssertExecuteDisabled, ResolveAuthToken, CheckCatalogue, Guard
<1>6. CASE ImportSdk \/ ImportExtended \/ ImportPack
  BY <1>6, FailPasses DEF ImportSdk, ImportExtended, ImportPack, Import
<1>7. CASE BuildEngine \/ Wire \/ Shutdown \/ StopServing \/ Kill
  BY <1>7, FailPasses DEF BuildEngine, Wire, Shutdown, StopServing, Kill
<1>8. CASE UNCHANGED vars
  BY <1>8 DEF vars
<1> QED
  BY <1>1, <1>2, <1>3, <1>4, <1>5, <1>6, <1>7, <1>8 DEF Next, Proceed

(* The guards behind the process have held, in every state. *)
LEMMA AlwaysPassed == Spec => []Passed
<1>1. Init => Passed
  BY DEF Init, Passed, AfterVerifier, AfterExecute, AfterToken, AfterCatalogue, AfterBuild
<1> QED
  BY <1>1, StepPasses, TypeCorrect, PTL DEF Spec

(* No deployment reaches serving around a guard, on either path. *)
THEOREM ServingIsGuarded == Spec => []ServesGuarded
<1>1. Passed => ServesGuarded
  BY DEF Passed, ServesGuarded, AfterExecute, AfterToken, AfterCatalogue, AfterBuild
<1> QED
  BY <1>1, AlwaysPassed, PTL

(* A paid listing is never served for free. *)
THEOREM PaidIsVerified == Spec => []NeverFreeWhenPaid
<1>1. Passed => NeverFreeWhenPaid
  BY DEF Passed, NeverFreeWhenPaid, AfterVerifier, AfterExecute, AfterToken, AfterCatalogue,
         AfterBuild
<1> QED
  BY <1>1, AlwaysPassed, PTL

-----------------------------------------------------------------------------
(* The steps until the engine is built. *)
BeforeEngine ==
    {"args", "stdio", "logger", "uvicorn", "manager", "starlette", "payments", "verifier",
     "execute", "token", "sdk", "extended", "catalogue", "pack", "build"}

(* Where the engine stands can be read off the next step too, and of a     *)
(* stdio process that has ended, off why.                                  *)
Released ==
    /\ pc \in BeforeEngine => engine = "none"
    /\ pc = "closing" => ~ Http
    /\ pc = "stopped" /\ ~ Http => engine = "down"
    /\ StdioEndsReleased

(* A failure before there is an engine leaves none behind. *)
LEMMA FailReleases ==
    ASSUME Released, pc \in BeforeEngine, NEW why, Fail(why)
    PROVE  Released'
  BY DEF Released, StdioEndsReleased, BeforeEngine, Fail, Http

(* No step but the last ones touches the engine. *)
LEMMA StepReleases == Released /\ [Next]_vars => Released'
<1> SUFFICES ASSUME Released, [Next]_vars PROVE Released'
  OBVIOUS
<1> USE DEF Released, StdioEndsReleased, BeforeEngine, Http, Goto
<1>1. CASE ParseArgs \/ AssertExecuteDisabled \/ ResolveAuthToken \/ CheckCatalogue
  BY <1>1, FailReleases
     DEF ParseArgs, AssertExecuteDisabled, ResolveAuthToken, CheckCatalogue, Guard
<1>2. CASE ImportStdio \/ ImportLogger \/ ImportUvicorn \/ ImportManager \/ ImportStarlette
             \/ ImportPayments \/ ImportSdk \/ ImportExtended \/ ImportPack
  BY <1>2, FailReleases
     DEF ImportStdio, ImportLogger, ImportUvicorn, ImportManager, ImportStarlette,
         ImportPayments, ImportSdk, ImportExtended, ImportPack, Import
<1>3. CASE BuildVerifier \/ BuildEngine
  BY <1>3, FailReleases DEF BuildVerifier, BuildEngine
<1>4. CASE Wire \/ StopServing \/ Shutdown
  BY <1>4 DEF Wire, StopServing, Shutdown, Fail
<1>5. CASE Kill \/ UNCHANGED vars
  BY <1>5 DEF Kill, vars
<1> QED
  BY <1>1, <1>2, <1>3, <1>4, <1>5 DEF Next, Proceed

(* Over stdio the finally clause is passed on every way out but a kill and *)
(* the log entry before the try.                                           *)
THEOREM NothingIsLeftBehind == Spec => []StdioEndsReleased
<1>1. Init => Released
  BY DEF Init, Released, StdioEndsReleased
<1>2. Released => StdioEndsReleased
  BY DEF Released
<1> QED
  BY <1>1, <1>2, StepReleases, PTL DEF Spec

=============================================================================
