--------------------------- MODULE ExtendedServer ---------------------------
(***************************************************************************)
(* The tool server of runeclaw_okx/extended_server.py and the signed tools *)
(* of runeclaw_okx/attestation.py: the start-up checks of the catalogue,   *)
(* the tool index they guard, the clamping of integer arguments, and       *)
(* concurrent calls, among them runeclaw_signed, which runs another tool   *)
(* and signs what came out.                                                *)
(*                                                                         *)
(* RUNECLAW's own server (class RuneClawMCPServer) is external.  Of its    *)
(* call_tool only this is used: a wrong token, an unknown tool or a limit  *)
(* that is no integer gets a structured error, and otherwise the skill the *)
(* index names runs, which is awaited.                                     *)
(*                                                                         *)
(* The argument "limit" stands for the three integer arguments of          *)
(* _EXTRA_BOUNDS.                                                          *)
(***************************************************************************)
EXTENDS Catalogue

CONSTANTS
    Catalogues,        \* the catalogues a release may ship
    Lo, Hi,            \* _EXTRA_BOUNDS of the argument
    Requests,          \* what clients may ask
    Absent,            \* the argument is left out
    Text,              \* int() raises ValueError or TypeError
    Infinite,          \* int() raises OverflowError
    Shapeless,         \* the inner tool's arguments are true but nothing dict() takes
    Falsy,             \* arguments left out, null, or else false to Python
    NoTool,            \* runeclaw_signed without a tool name
    NoRequest,         \* the request of a call not yet made
    NoAttestation,     \* the call has signed nothing
    Calls,             \* concurrent and successive tool calls
    MaxEpoch           \* bound of the model: last process

ASSUME ExtendedAssumption ==
    /\ Lo \in Int /\ Hi \in Int /\ Lo <= Hi
    /\ {Absent, Text, Infinite, Shapeless, Falsy} \intersect Int = {}
    /\ Absent # Text /\ Falsy # Absent
    /\ \A c \in Catalogues : CatalogueShape(c) /\ BaseReadOnly(c)
    /\ MaxEpoch \in Nat

VARIABLES
    index,      \* _tool_index, empty while no server is up
    seed,       \* MCP_ATTEST_PRIVATE_KEY: not set, a seed, or unusable
    attestor,   \* _ATTESTOR: the key of this process, or 0 for none yet
    fresh,      \* the next key a generator would draw
    calls,      \* the calls: where each is, what was asked, what happened
    epoch       \* how many times the process was restarted

serverVars == <<index, seed, epoch>>
attestorVars == <<attestor, fresh>>
vars == <<serverVars, attestorVars, calls>>

-----------------------------------------------------------------------------
(* Arguments *)

(* max(lo, min(int(v), hi)); what int() refuses is passed on as it came. *)
Clamp(v) == IF v \in Int THEN IF v < Lo THEN Lo ELSE IF v > Hi THEN Hi ELSE v
            ELSE v

(* "arguments or {}", of a call and of the tool to sign alike: what is     *)
(* false to Python becomes the object without members.                     *)
Given(q) == IF q.limit = Falsy THEN Absent ELSE q.limit

(* int() raises an OverflowError, or dict() a ValueError or TypeError,     *)
(* which nobody catches.  (What dict() takes, as a list of pairs, is as    *)
(* good as an object.)                                                     *)
ClampRaises(q) == Given(q) \in {Infinite, Shapeless}

(* For runeclaw_signed, inner is the tool to run and the other fields are  *)
(* about its arguments; encodable is FALSE if these hold a lone surrogate, *)
(* which canonical_bytes cannot encode.                                    *)
RequestShape(q) ==
    /\ DOMAIN q = {"tool", "inner", "limit", "auth", "encodable"}
    /\ q.limit \in Int \union {Absent, Text, Infinite, Shapeless, Falsy}
    /\ q.limit = Shapeless => q.tool = Signed
    /\ q.auth \in BOOLEAN /\ q.encodable \in BOOLEAN

ASSUME RequestsAssumption == NoRequest \notin Requests /\ \A q \in Requests : RequestShape(q)

Target(q) == IF q.tool = Signed THEN q.inner ELSE q.tool

-----------------------------------------------------------------------------
(* Signatures.  A key stands for its pair; a hash and a signature are told *)
(* apart by what they cover.                                               *)

(* Mutant of Payload: the arguments the tool ran on, not those asked for.  *)
PayloadClamped(q, response) ==
    << <<"tool", q.inner>>, <<"arguments", Clamp(Given(q))>>, <<"response", response>> >>

(* {request, response}, member by member, in the order it is built: the    *)
(* arguments as they were asked for, but for those that are false.         *)
Payload(q, response) ==
    << <<"tool", q.inner>>, <<"arguments", Given(q)>>, <<"response", response>> >>

(* sort_keys: the bytes do not depend on the order of the members. *)
CanonicalBytes(p) == ToSet(p)

(* Attestor.attest.  A key is known by its id. *)
Attestation(key, p) ==
    [ algo           |-> "ed25519",
      hash           |-> "sha256",
      key_id         |-> key,
      public_key     |-> key,
      content_sha256 |-> CanonicalBytes(p),
      signature      |-> [by |-> key, over |-> CanonicalBytes(p)] ]

(* Mutant of Verifies: the hash is thought to be enough. *)
VerifiesHash(p, a) == a.content_sha256 = CanonicalBytes(p)

(* verify_attestation: under the public key that the attestation names.    *)
(* algo, hash and key_id are not looked at.                                *)
Verifies(p, a) ==
    /\ a.content_sha256 = CanonicalBytes(p)
    /\ a.signature = [by |-> a.public_key, over |-> CanonicalBytes(p)]

-----------------------------------------------------------------------------
Idle == [pc |-> "idle", q |-> NoRequest, skill |-> NoSkill, used |-> Absent,
         outcome |-> "none", said |-> "none", key |-> 0, att |-> NoAttestation, epoch |-> 0]

Init ==
    /\ index = [t \in {} |-> NoSkill]
    /\ seed \in {"none", "usable", "unusable"}
    /\ attestor = 0
    /\ fresh = 1
    /\ calls = [x \in Calls |-> Idle]
    /\ epoch = 0

Up == DOMAIN index # {}

(* build_extended_server: the catalogue is checked before anything is      *)
(* built, and a server that fails the check does not start.                *)
Build(c) ==
    /\ ~ Up
    /\ CatalogueReadOnly(c)
    /\ index' = IndexOf(c)
    /\ UNCHANGED <<seed, epoch, attestorVars, calls>>

RefuseToBuild(c) ==
    /\ ~ Up
    /\ ~ CatalogueReadOnly(c)
    /\ UNCHANGED vars

(* get_attestor: the key of this process, made when first needed: from the *)
(* configured seed, which is key 1, or drawn afresh.  An unusable seed is  *)
(* only found out here.                                                    *)
HasKey == attestor # 0 \/ seed # "unusable"

KeyInUse == IF attestor # 0 THEN attestor ELSE IF seed = "usable" THEN 1 ELSE fresh + 1

(* Mutant of GetAttestor: nothing is cached. *)
GetAttestorUncached ==
    /\ HasKey
    /\ attestor' = attestor
    /\ fresh' = IF seed = "usable" THEN fresh ELSE fresh + 1

GetAttestor ==
    /\ HasKey
    /\ attestor' = KeyInUse
    /\ fresh' = IF attestor # 0 \/ seed = "usable" THEN fresh ELSE fresh + 1

Request(x, q) ==
    /\ Up
    /\ calls[x].pc = "idle"
    /\ calls' = [calls EXCEPT ![x].pc = "asked", ![x].q = q, ![x].epoch = epoch]
    /\ UNCHANGED <<serverVars, attestorVars>>

Done(x, outcome) == calls' = [calls EXCEPT ![x].pc = "done", ![x].outcome = outcome]

Asked(x) == Up /\ calls[x].pc = "asked"

(* Mutant of Argument: the inner call bypasses the override. *)
ArgumentInnerRaw(q) == IF q.tool = Signed THEN Given(q) ELSE Clamp(Given(q))

(* The argument a skill is handed. *)
Argument(q) == Clamp(Given(q))

(* RUNECLAW's call_tool goes on to the skill. *)
BaseAccepts(q) == q.auth /\ Target(q) \in DOMAIN index /\ Argument(q) # Text

Run(x) ==
    LET q == calls[x].q IN
    calls' = [calls EXCEPT ![x].pc = "running",
                           ![x].skill = index[Target(q)].skill, ![x].used = Argument(q)]

(* A call of any tool but the attestation tools. *)
Direct(x) == Asked(x) /\ calls[x].q.tool \notin AttestTools

(* The clamp comes first, for runeclaw_attest_key too.  runeclaw_signed    *)
(* has no bounded argument of its own.                                     *)
DirectRaises(x) ==
    /\ Asked(x) /\ calls[x].q.tool # Signed
    /\ ClampRaises(calls[x].q)
    /\ Done(x, "raised")
    /\ UNCHANGED <<serverVars, attestorVars>>

DirectRejected(x) ==
    /\ Direct(x)
    /\ ~ ClampRaises(calls[x].q) /\ ~ BaseAccepts(calls[x].q)
    /\ Done(x, "error")
    /\ UNCHANGED <<serverVars, attestorVars>>

DirectRuns(x) ==
    /\ Direct(x)
    /\ ~ ClampRaises(calls[x].q) /\ BaseAccepts(calls[x].q)
    /\ Run(x)
    /\ UNCHANGED <<serverVars, attestorVars>>

(* A call that reaches _handle_attest, which checks the token itself. *)
Meta(x) ==
    /\ Asked(x) /\ calls[x].q.tool \in AttestTools
    /\ calls[x].q.tool = Signed \/ ~ ClampRaises(calls[x].q)

MetaDenied(x) ==
    /\ Meta(x)
    /\ ~ calls[x].q.auth
    /\ Done(x, "error")
    /\ UNCHANGED <<serverVars, attestorVars>>

(* The seed cannot be decoded or has the wrong length. *)
SeedRaises(x) ==
    /\ Meta(x)
    /\ calls[x].q.auth
    /\ ~ HasKey
    /\ Done(x, "raised")
    /\ UNCHANGED <<serverVars, attestorVars>>

(* runeclaw_attest_key *)
PublishKey(x) ==
    /\ Meta(x) /\ calls[x].q.tool = AttestKey
    /\ calls[x].q.auth
    /\ GetAttestor
    /\ calls' = [calls EXCEPT ![x].pc = "done", ![x].outcome = "success", ![x].key = KeyInUse]
    /\ UNCHANGED serverVars

(* A named tool, not a meta-tool, that the index knows. *)
Signable(t) == t # NoTool /\ t \notin AttestTools /\ t \in DOMAIN index

(* runeclaw_signed for an authenticated caller. *)
Signing(x) == Meta(x) /\ calls[x].q.tool = Signed /\ calls[x].q.auth

SignedRejected(x) ==
    /\ Signing(x)
    /\ ~ Signable(calls[x].q.inner)
    /\ GetAttestor
    /\ Done(x, "error")
    /\ UNCHANGED serverVars

(* The inner call clamps its own arguments, and may fail at that. *)
SignedRaises(x) ==
    /\ Signing(x)
    /\ Signable(calls[x].q.inner) /\ ClampRaises(calls[x].q)
    /\ GetAttestor
    /\ Done(x, "raised")
    /\ UNCHANGED serverVars

SignedRuns(x) ==
    /\ Signing(x)
    /\ Signable(calls[x].q.inner) /\ ~ ClampRaises(calls[x].q)
    /\ BaseAccepts(calls[x].q)
    /\ GetAttestor
    /\ Run(x)
    /\ UNCHANGED serverVars

(* What the tool of call x answers; the answers of two calls differ. *)
Response(x, said) == <<x, said>>

(* Mutant of Attest: the answer is fetched from where all calls leave      *)
(* theirs, and may be another's.                                           *)
AttestShared(x, key, said) ==
    LET q == calls[x].q IN
    \E r \in {Response(x, said)} \union
             {Response(y, calls[y].said) : y \in {z \in Calls : calls[z].said # "none"}} :
        calls' = [calls EXCEPT
            ![x].pc = "done", ![x].said = said,
            ![x].outcome = IF q.encodable THEN "success" ELSE "raised",
            ![x].key = IF q.encodable THEN key ELSE 0,
            ![x].att = IF q.encodable THEN Attestation(key, Payload(q, r)) ELSE NoAttestation]

(* attest over {request, response}; what cannot be encoded raises. *)
Attest(x, key, said) ==
    LET q == calls[x].q IN
    calls' = [calls EXCEPT
        ![x].pc = "done", ![x].said = said,
        ![x].outcome = IF q.encodable THEN "success" ELSE "raised",
        ![x].key = IF q.encodable THEN key ELSE 0,
        ![x].att = IF q.encodable THEN Attestation(key, Payload(q, Response(x, said)))
                   ELSE NoAttestation]

(* A structured error of the inner call is signed like any response. *)
SignedError(x) ==
    /\ Signing(x)
    /\ Signable(calls[x].q.inner) /\ ~ ClampRaises(calls[x].q)
    /\ ~ BaseAccepts(calls[x].q)
    /\ GetAttestor
    /\ Attest(x, KeyInUse, "refused")
    /\ UNCHANGED serverVars

(* The skill is done, with a result or a structured error, and the call    *)
(* that awaits it will be resumed; until then other calls may go on.       *)
Finish(x) ==
    /\ Up /\ calls[x].pc = "running"
    /\ \E o \in {"success", "error"} :
          calls' = [calls EXCEPT ![x].pc = "answered", ![x].said = o]
    /\ UNCHANGED <<serverVars, attestorVars>>

(* The call goes on with what its tool answered.                           *)
Return(x) ==
    /\ Up /\ calls[x].pc = "answered"
    /\ IF calls[x].q.tool = Signed THEN Attest(x, attestor, calls[x].said)
       ELSE Done(x, calls[x].said)
    /\ UNCHANGED <<serverVars, attestorVars>>

(* The process dies: calls under way are cut, and the key is dropped. *)
Restart ==
    /\ epoch < MaxEpoch
    /\ epoch' = epoch + 1
    /\ index' = [t \in {} |-> NoSkill]
    /\ attestor' = 0
    /\ calls' = [x \in Calls |-> IF calls[x].pc \in {"idle", "done"} THEN calls[x]
                                 ELSE [calls[x] EXCEPT !.pc = "gone"]]
    /\ UNCHANGED <<seed, fresh>>

Handle(x) ==
    \/ DirectRaises(x) \/ DirectRejected(x) \/ DirectRuns(x)
    \/ MetaDenied(x) \/ SeedRaises(x) \/ PublishKey(x)
    \/ SignedRejected(x) \/ SignedRaises(x) \/ SignedRuns(x) \/ SignedError(x)
    \/ Finish(x) \/ Return(x)

Next ==
    \/ \E c \in Catalogues : Build(c) \/ RefuseToBuild(c)
    \/ \E x \in Calls : Handle(x) \/ \E q \in Requests : Request(x, q)
    \/ Restart

Spec == Init /\ [][Next]_vars

-----------------------------------------------------------------------------
(* Every variable has its type, and a call that will sign has its key.     *)
TypeOK ==
    /\ seed \in {"none", "usable", "unusable"}
    /\ attestor \in 0..fresh /\ fresh \in Nat \ {0}
    /\ epoch \in 0..MaxEpoch
    /\ \A x \in Calls :
          /\ calls[x].pc \in {"idle", "asked", "running", "answered", "done", "gone"}
          /\ calls[x].q \in Requests \union {NoRequest}
          /\ calls[x].outcome \in {"none", "success", "error", "raised"}
          /\ calls[x].said \in {"none", "refused", "success", "error"}
          /\ calls[x].key \in 0..fresh
          /\ calls[x].att = NoAttestation \/ calls[x].att.public_key = calls[x].key
          /\ calls[x].epoch \in 0..epoch
          /\ calls[x].pc \in {"running", "answered"} /\ calls[x].q.tool = Signed
                => attestor # 0

(* Whatever catalogue is shipped, no call, direct or through               *)
(* runeclaw_signed, ever runs a skill that can trade.  (The start-up       *)
(* checks of the catalogue are all that guards the index)                  *)
NeverExecutes == \A x \in Calls : calls[x].skill \notin ExecutionSkills

(* What a skill is handed for a bounded argument lies within the bounds,   *)
(* by every way a call can take.  (The clamp in call_tool, and the use of  *)
(* self.call_tool for the inner call of runeclaw_signed)                   *)
SkillsSeeBounds ==
    \A x \in Calls :
        calls[x].skill # NoSkill => calls[x].used = Absent \/ calls[x].used \in Lo..Hi

(* "Process-wide attestor (stable key within a server process)": all that  *)
(* one process signs and publishes is under one key, and with a configured *)
(* seed all processes share it.  (get_attestor)                            *)
OneKey ==
    \A x, y \in Calls :
        /\ calls[x].key # 0 /\ calls[y].key # 0
        /\ calls[x].epoch = calls[y].epoch \/ seed = "usable"
        => calls[x].key = calls[y].key

HasSigned == {x \in Calls : calls[x].att # NoAttestation}

(* What the signature of a call covers. *)
Covered(x) == Payload(calls[x].q, Response(x, calls[x].said))

(* A signature answers an authenticated request for a tool that is no      *)
(* meta-tool, and covers what that tool answered to this very call and no  *)
(* other, however calls interleave while it runs: the result or error of   *)
(* the skill, or the refusal of its arguments.  (The inner call that       *)
(* _handle_attest awaits, and what it then signs)                          *)
SignsOnlyRuns ==
    \A x \in HasSigned :
        LET c == calls[x] IN
        /\ c.q.auth /\ c.q.inner \notin AttestTools
        /\ c.att.signature.over = CanonicalBytes(Covered(x))
        /\ \/ c.skill # NoSkill /\ c.said \in {"success", "error"}
           \/ c.skill = NoSkill /\ c.said = "refused" /\ c.q.limit = Text

(* An attestation put together out of four. *)
Together(ids, keys, hashes, signatures) ==
    [ algo           |-> ids.algo,
      hash           |-> ids.hash,
      key_id         |-> ids.key_id,
      public_key     |-> keys.public_key,
      content_sha256 |-> hashes.content_sha256,
      signature      |-> signatures.signature ]

(* What clients put together out of signed answers, the request of one and *)
(* the response, key, hash, signature and key id of others, across         *)
(* restarts too, verifies only if request and response were answered and   *)
(* signed together under the public key it names.  (attest and             *)
(* verify_attestation; the key id is the one part that nothing ties to the *)
(* rest, and may be another's)                                             *)
VerifiedIsGenuine ==
    \A x, y, t, u, v, w \in HasSigned :
        LET p == Payload(calls[x].q, Response(y, calls[y].said))
            a == Together(calls[t].att, calls[u].att, calls[v].att, calls[w].att)
        IN  Verifies(p, a) =>
                \E z \in HasSigned :
                    p = Covered(z) /\ a = [calls[z].att EXCEPT !.key_id = a.key_id]

(* "Reconstruct the signed payload": a client that puts the response it    *)
(* got next to the request it made, the arguments as it asked for them and *)
(* the members in any order, finds the signature good, although the tool   *)
(* may have run on clamped arguments: but for one whose arguments were     *)
(* false to Python, for which the signed request has an empty object (as   *)
(* the answer says, which holds that request).  (verify_recipe; the        *)
(* request that _handle_attest signs)                                      *)
GenuineVerifies ==
    \A x \in HasSigned :
        LET Members(arguments) == { <<"response", Response(x, calls[x].said)>>,
                                    <<"tool", calls[x].q.inner>>,
                                    <<"arguments", arguments>> }
        IN  /\ \A p \in SetToSeqs(Members(Given(calls[x].q))) : Verifies(p, calls[x].att)
            /\ \A p \in SetToSeqs(Members(calls[x].q.limit)) :
                  Verifies(p, calls[x].att) <=> calls[x].q.limit # Falsy

(* extended_server.py, "base call_tool returns a structured type error":   *)
(* an integer argument that int() refuses is answered, not raised.         *)
BadNumberIsAnswered ==
    \A x \in Calls :
        calls[x].pc = "done" /\ calls[x].q.tool \notin AttestTools => calls[x].outcome # "raised"

=============================================================================
