------------------------ MODULE ExtendedServerProofs ------------------------
(***************************************************************************)
(* The extended tool server, for any catalogue, any requests and any       *)
(* number of concurrent calls and restarts: what is run, on what argument, *)
(* under which key it is signed, and what a signature is worth.            *)
(***************************************************************************)
EXTENDS ExtendedServer, CatalogueProofs, FiniteSetTheorems

Stages == {"idle", "asked", "running", "answered", "done", "gone"}
Outcomes == {"none", "success", "error", "raised"}
Sayings == {"none", "refused", "success", "error"}
Fields == {"pc", "q", "skill", "used", "outcome", "said", "key", "att", "epoch"}

-----------------------------------------------------------------------------
(* The invariant *)

(* No name leads to a skill that trades, and none but those of the         *)
(* attestation tools to no skill.                                          *)
IndexOK ==
    \A t \in DOMAIN index :
        /\ index[t].skill \notin ExecutionSkills
        /\ t \notin AttestTools => index[t].skill # NoSkill

(* The key of this process, if it has one. *)
KeyOK ==
    /\ fresh \in Nat \ {0} /\ attestor \in 0..fresh
    /\ attestor # 0 /\ seed = "usable" => attestor = 1

(* A call: what its fields may hold, *)
Shaped(c) ==
    /\ DOMAIN c = Fields
    /\ c.pc \in Stages /\ c.outcome \in Outcomes /\ c.said \in Sayings
    /\ c.q \in Requests \union {NoRequest} /\ (c.pc # "idle" => c.q \in Requests)
    /\ c.key \in 0..fresh /\ c.epoch \in 0..epoch
    /\ c.pc \in {"asked", "running", "answered"} => c.epoch = epoch

(* what it has run, *)
Ran(c) ==
    /\ c.pc \in {"idle", "asked"} => c.skill = NoSkill
    /\ c.skill \notin ExecutionSkills
    /\ c.skill # NoSkill => c.used = Absent \/ c.used \in Lo..Hi

(* and what it has signed, or will.                                        *)
MaySign(q) == q.auth /\ q.inner \notin AttestTools

SignedOK(x) ==
    LET c == calls[x] IN
    /\ c.pc # "done" => c.key = 0 /\ c.att = NoAttestation
    /\ c.pc \in {"running", "answered"} /\ c.q.tool = Signed
          => attestor # 0 /\ MaySign(c.q) /\ c.skill # NoSkill
    /\ c.pc = "answered" => c.said \in {"success", "error"}
    /\ c.att # NoAttestation =>
          /\ c.att = Attestation(c.key, Covered(x))
          /\ MaySign(c.q)
          /\ \/ c.skill # NoSkill /\ c.said \in {"success", "error"}
             \/ c.skill = NoSkill /\ c.said = "refused" /\ c.q.limit = Text
    /\ c.key # 0 /\ c.epoch = epoch => c.key = attestor
    /\ c.key # 0 /\ seed = "usable" => c.key = 1

CallOK(x) == Shaped(calls[x]) /\ Ran(calls[x]) /\ SignedOK(x)

Inv ==
    /\ seed \in {"none", "usable", "unusable"} /\ epoch \in 0..MaxEpoch
    /\ IndexOK /\ KeyOK
    /\ DOMAIN calls = Calls
    /\ \A x \in Calls : CallOK(x)
    /\ OneKey

-----------------------------------------------------------------------------
(* The operators *)

(* The clamp of an argument that int() takes, or of none at all. *)
LEMMA ClampBounds ==
    ASSUME NEW q \in Requests, ~ ClampRaises(q), Argument(q) # Text
    PROVE  Argument(q) = Absent \/ Argument(q) \in Lo..Hi
<1>1. q.limit \in Int \union {Absent, Text, Infinite, Shapeless, Falsy}
  BY RequestsAssumption DEF RequestShape
<1>2. Given(q) \in Int \union {Absent, Text, Infinite, Shapeless}
  BY <1>1 DEF Given
<1> QED
  BY <1>2, ExtendedAssumption DEF ClampRaises, Argument, Clamp

(* A call's step may make the key of the process, and never changes one. *)
KeysStep == UNCHANGED serverVars /\ (GetAttestor \/ UNCHANGED attestorVars)

(* A key, once made, stays, and is within the range of keys drawn so far.  *)
LEMMA KeysKept ==
    ASSUME Inv, KeysStep
    PROVE  /\ KeyOK' /\ fresh <= fresh'
           /\ attestor # 0 => attestor' = attestor
           /\ GetAttestor => attestor' # 0 /\ attestor' = KeyInUse
           /\ UNCHANGED <<seed, epoch, index>>
<1>1. KeyOK /\ UNCHANGED <<seed, epoch, index>> /\ seed \in {"none", "usable", "unusable"}
  BY DEF Inv, KeysStep, serverVars
<1>2. CASE GetAttestor
  BY <1>1, <1>2 DEF KeyOK, GetAttestor, HasKey, KeyInUse
<1>3. CASE UNCHANGED attestorVars /\ ~ GetAttestor
  BY <1>1, <1>3 DEF KeyOK, attestorVars
<1> QED
  BY <1>2, <1>3 DEF KeysStep

(* A call that does not move stays as it should be. *)
LEMMA StaysOK ==
    ASSUME Inv, KeysStep, NEW y \in Calls, calls'[y] = calls[y]
    PROVE  CallOK(y)'
<1>1. CallOK(y) /\ KeyOK
  BY DEF Inv
<1>2. /\ fresh <= fresh'
      /\ attestor # 0 => attestor' = attestor
      /\ UNCHANGED <<seed, epoch>> /\ fresh \in Nat /\ fresh' \in Nat
  BY <1>1, KeysKept DEF KeyOK
<1>3. Shaped(calls[y])'
  <2>1. Shaped(calls[y])
    BY <1>1 DEF CallOK
  <2>2. calls[y].key \in 0..fresh'
    BY <1>2, <2>1 DEF Shaped
  <2> QED
    BY <1>2, <2>1, <2>2 DEF Shaped
<1>4. Ran(calls[y])'
  BY <1>1 DEF CallOK, Ran
<1>5. SignedOK(y)'
  <2>1. SignedOK(y) /\ Shaped(calls[y])
    BY <1>1 DEF CallOK
  <2>2. calls[y].key # 0 /\ calls[y].epoch = epoch => attestor # 0
    BY <2>1 DEF SignedOK
  <2> QED
    BY <1>2, <2>1, <2>2 DEF SignedOK, Covered
<1> QED
  BY <1>3, <1>4, <1>5 DEF CallOK

(* One call moves in this process. *)
LEMMA OneMoves ==
    ASSUME Inv, NEW x \in Calls, KeysStep, DOMAIN calls' = Calls,
           \A y \in Calls : y # x => calls'[y] = calls[y],
           CallOK(x)', calls'[x].epoch = epoch
    PROVE  Inv'
<1>1. KeyOK' /\ UNCHANGED <<seed, epoch, index>>
  BY KeysKept
<1>2. \A y \in Calls : CallOK(y)'
  BY StaysOK
<1>3. OneKey'
  <2> SUFFICES ASSUME NEW y \in Calls, NEW z \in Calls,
                      calls'[y].key # 0, calls'[z].key # 0,
                      calls'[y].epoch = calls'[z].epoch \/ seed = "usable"
               PROVE  calls'[y].key = calls'[z].key
    BY <1>1 DEF OneKey
  <2>1. CASE seed = "usable"
    BY <1>1, <1>2, <2>1 DEF CallOK, SignedOK
  <2>2. CASE y # x /\ z # x
    BY <2>2 DEF Inv, OneKey
  <2>3. CASE (y = x \/ z = x) /\ calls'[y].epoch = calls'[z].epoch
    BY <1>1, <1>2, <2>3 DEF CallOK, SignedOK
  <2> QED
    BY <2>1, <2>2, <2>3
<1>4. IndexOK'
  BY <1>1 DEF Inv, IndexOK
<1> QED
  BY <1>1, <1>2, <1>3, <1>4 DEF Inv

-----------------------------------------------------------------------------
(* The ways a call can take *)

(* It ends without a signature. *)
LEMMA DoneOK ==
    ASSUME Inv, NEW x \in Calls, calls[x].pc \in {"asked", "answered"},
           NEW o \in Outcomes, Done(x, o), KeysStep
    PROVE  Inv'
<1>1. CallOK(x) /\ DOMAIN calls = Calls /\ DOMAIN calls[x] = Fields /\ KeyOK
  BY DEF Inv, CallOK, Shaped
<1>2. DOMAIN calls' = Calls /\ \A y \in Calls : y # x => calls'[y] = calls[y]
  BY <1>1 DEF Done
<1>3. /\ DOMAIN calls'[x] = Fields
      /\ calls'[x].pc = "done" /\ calls'[x].outcome = o
      /\ \A f \in Fields \ {"pc", "outcome"} : calls'[x][f] = calls[x][f]
  BY <1>1 DEF Done, Fields
<1>4. /\ calls'[x].q = calls[x].q /\ calls'[x].skill = calls[x].skill
      /\ calls'[x].used = calls[x].used /\ calls'[x].said = calls[x].said
      /\ calls'[x].key = calls[x].key /\ calls'[x].att = calls[x].att
      /\ calls'[x].epoch = calls[x].epoch
  BY <1>3 DEF Fields
<1>5. KeyOK' /\ fresh <= fresh' /\ UNCHANGED <<seed, epoch>>
  BY KeysKept
<1>6. calls[x].key = 0 /\ calls[x].att = NoAttestation /\ calls[x].epoch = epoch
  BY <1>1 DEF CallOK, Shaped, SignedOK
<1>7. Shaped(calls[x])'
  BY <1>1, <1>3, <1>4, <1>5, <1>6 DEF CallOK, Shaped, KeyOK, Stages
<1>8. Ran(calls[x])'
  BY <1>1, <1>3, <1>4 DEF CallOK, Ran
<1>9. SignedOK(x)'
  BY <1>3, <1>4, <1>6 DEF SignedOK
<1> QED
  BY <1>2, <1>4, <1>6, <1>7, <1>8, <1>9, OneMoves DEF CallOK

(* It goes on to the skill the index names. *)
LEMMA RunOK ==
    ASSUME Inv, NEW x \in Calls, calls[x].pc = "asked", KeysStep,
           ~ ClampRaises(calls[x].q), BaseAccepts(calls[x].q),
           Target(calls[x].q) \notin AttestTools,
           calls[x].q.tool = Signed => attestor' # 0 /\ MaySign(calls[x].q),
           Run(x)
    PROVE  Inv'
<1> DEFINE t == Target(calls[x].q)
<1>1. CallOK(x) /\ DOMAIN calls = Calls /\ DOMAIN calls[x] = Fields /\ KeyOK
  BY DEF Inv, CallOK, Shaped
<1>2. DOMAIN calls' = Calls /\ \A y \in Calls : y # x => calls'[y] = calls[y]
  BY <1>1 DEF Run
<1>3. /\ DOMAIN calls'[x] = Fields
      /\ calls'[x].pc = "running" /\ calls'[x].skill = index[t].skill
      /\ calls'[x].used = Argument(calls[x].q)
      /\ \A f \in Fields \ {"pc", "skill", "used"} : calls'[x][f] = calls[x][f]
  BY <1>1 DEF Run, Fields
<1>4. /\ calls'[x].q = calls[x].q /\ calls'[x].said = calls[x].said
      /\ calls'[x].outcome = calls[x].outcome
      /\ calls'[x].key = calls[x].key /\ calls'[x].att = calls[x].att
      /\ calls'[x].epoch = calls[x].epoch
  BY <1>3 DEF Fields
<1>5. KeyOK' /\ fresh <= fresh' /\ UNCHANGED <<seed, epoch>>
  BY KeysKept
<1>6. /\ calls[x].key = 0 /\ calls[x].att = NoAttestation /\ calls[x].epoch = epoch
      /\ calls[x].q \in Requests
  BY <1>1 DEF CallOK, Shaped, SignedOK
<1>7. index[t].skill \notin ExecutionSkills /\ index[t].skill # NoSkill
  BY DEF Inv, IndexOK, BaseAccepts
<1>8. Argument(calls[x].q) = Absent \/ Argument(calls[x].q) \in Lo..Hi
  BY <1>6, ClampBounds DEF BaseAccepts
<1> HIDE DEF t
<1>9. Shaped(calls[x])'
  BY <1>1, <1>3, <1>4, <1>5, <1>6 DEF CallOK, Shaped, KeyOK, Stages
<1>10. Ran(calls[x])'
  BY <1>3, <1>7, <1>8 DEF Ran
<1>11. SignedOK(x)'
  BY <1>3, <1>4, <1>6, <1>7 DEF SignedOK
<1> QED
  BY <1>2, <1>4, <1>6, <1>9, <1>10, <1>11, OneMoves DEF CallOK

(* It signs what the tool said, unless that cannot be encoded. *)
LEMMA AttestOK ==
    ASSUME Inv, NEW x \in Calls, calls[x].pc \in {"asked", "answered"}, KeysStep,
           NEW key, key = attestor', key # 0, NEW said \in Sayings, MaySign(calls[x].q),
           \/ calls[x].skill # NoSkill /\ said \in {"success", "error"}
           \/ calls[x].skill = NoSkill /\ said = "refused" /\ calls[x].q.limit = Text,
           Attest(x, key, said)
    PROVE  Inv'
<1> DEFINE q == calls[x].q
<1>1. CallOK(x) /\ DOMAIN calls = Calls /\ DOMAIN calls[x] = Fields /\ KeyOK
  BY DEF Inv, CallOK, Shaped
<1>2. DOMAIN calls' = Calls /\ \A y \in Calls : y # x => calls'[y] = calls[y]
  BY <1>1 DEF Attest
<1>3. /\ DOMAIN calls'[x] = Fields
      /\ calls'[x].pc = "done" /\ calls'[x].said = said
      /\ calls'[x].outcome = IF q.encodable THEN "success" ELSE "raised"
      /\ calls'[x].key = IF q.encodable THEN key ELSE 0
      /\ calls'[x].att = IF q.encodable THEN Attestation(key, Payload(q, Response(x, said)))
                         ELSE NoAttestation
      /\ \A f \in Fields \ {"pc", "said", "outcome", "key", "att"} :
            calls'[x][f] = calls[x][f]
  BY <1>1 DEF Attest, Fields
<1>4. /\ calls'[x].q = q /\ calls'[x].skill = calls[x].skill
      /\ calls'[x].used = calls[x].used /\ calls'[x].epoch = calls[x].epoch
  BY <1>3 DEF Fields
<1>5. KeyOK' /\ UNCHANGED <<seed, epoch>>
  BY KeysKept
<1>6. calls[x].epoch = epoch
  BY <1>1 DEF CallOK, Shaped
<1>7. key \in 0..fresh' /\ 0 \in 0..fresh' /\ (seed = "usable" => key = 1)
  BY <1>5 DEF KeyOK
<1>8. Shaped(calls[x])'
  BY <1>1, <1>3, <1>4, <1>5, <1>6, <1>7 DEF CallOK, Shaped, Stages, Outcomes
<1>9. Ran(calls[x])'
  BY <1>1, <1>3, <1>4 DEF CallOK, Ran
<1>10. calls'[x].att # NoAttestation
         => calls'[x].att = Attestation(calls'[x].key, Covered(x)')
  BY <1>3, <1>4 DEF Covered
<1>11. calls'[x].key # 0 => calls'[x].key = key
  BY <1>3
<1> HIDE DEF q
<1>12. SignedOK(x)'
  BY <1>3, <1>4, <1>5, <1>7, <1>10, <1>11 DEF SignedOK, q
<1> QED
  BY <1>2, <1>4, <1>6, <1>8, <1>9, <1>12, OneMoves DEF CallOK

(* Its skill is done. *)
LEMMA FinishOK ==
    ASSUME Inv, NEW x \in Calls, Finish(x)
    PROVE  Inv'
<1>1. CallOK(x) /\ DOMAIN calls = Calls /\ DOMAIN calls[x] = Fields /\ KeyOK
  BY DEF Inv, CallOK, Shaped
<1>2. KeysStep
  BY DEF Finish, KeysStep
<1>3. PICK o \in {"success", "error"} :
         calls' = [calls EXCEPT ![x].pc = "answered", ![x].said = o]
  BY DEF Finish
<1>4. DOMAIN calls' = Calls /\ \A y \in Calls : y # x => calls'[y] = calls[y]
  BY <1>1, <1>3
<1>5. /\ DOMAIN calls'[x] = Fields
      /\ calls'[x].pc = "answered" /\ calls'[x].said = o
      /\ \A f \in Fields \ {"pc", "said"} : calls'[x][f] = calls[x][f]
  BY <1>1, <1>3 DEF Fields
<1>6. /\ calls'[x].q = calls[x].q /\ calls'[x].skill = calls[x].skill
      /\ calls'[x].used = calls[x].used /\ calls'[x].outcome = calls[x].outcome
      /\ calls'[x].key = calls[x].key /\ calls'[x].att = calls[x].att
      /\ calls'[x].epoch = calls[x].epoch
  BY <1>5 DEF Fields
<1>7. KeyOK' /\ UNCHANGED <<seed, epoch, attestorVars>>
  BY <1>2, KeysKept DEF Finish, serverVars
<1>8. /\ calls[x].pc = "running" /\ calls[x].key = 0 /\ calls[x].att = NoAttestation
      /\ calls[x].epoch = epoch
  BY <1>1 DEF CallOK, Shaped, SignedOK, Finish
<1>9. Shaped(calls[x])'
  BY <1>1, <1>5, <1>6, <1>7, <1>8 DEF CallOK, Shaped, Stages, Sayings, attestorVars
<1>10. Ran(calls[x])'
  BY <1>1, <1>5, <1>6 DEF CallOK, Ran
<1>11. SignedOK(x)'
  BY <1>1, <1>5, <1>6, <1>7, <1>8 DEF CallOK, SignedOK, attestorVars
<1> QED
  BY <1>2, <1>4, <1>6, <1>8, <1>9, <1>10, <1>11, OneMoves DEF CallOK

(* It publishes the key. *)
LEMMA PublishKeyOK ==
    ASSUME Inv, NEW x \in Calls, PublishKey(x)
    PROVE  Inv'
<1>1. /\ CallOK(x) /\ DOMAIN calls = Calls /\ DOMAIN calls[x] = Fields /\ KeyOK
      /\ calls[x].pc = "asked" /\ calls[x].q.tool = AttestKey
  BY DEF Inv, CallOK, Shaped, PublishKey, Meta, Asked
<1>2. KeysStep
  BY DEF PublishKey, KeysStep
<1>3. DOMAIN calls' = Calls /\ \A y \in Calls : y # x => calls'[y] = calls[y]
  BY <1>1 DEF PublishKey
<1>4. /\ DOMAIN calls'[x] = Fields
      /\ calls'[x].pc = "done" /\ calls'[x].outcome = "success" /\ calls'[x].key = KeyInUse
      /\ \A f \in Fields \ {"pc", "outcome", "key"} : calls'[x][f] = calls[x][f]
  BY <1>1 DEF PublishKey, Fields
<1>5. /\ calls'[x].q = calls[x].q /\ calls'[x].skill = calls[x].skill
      /\ calls'[x].used = calls[x].used /\ calls'[x].said = calls[x].said
      /\ calls'[x].att = calls[x].att /\ calls'[x].epoch = calls[x].epoch
  BY <1>4 DEF Fields
<1>6. KeyOK' /\ attestor' = KeyInUse /\ UNCHANGED <<seed, epoch>>
  BY <1>2, KeysKept DEF PublishKey
<1>7. calls[x].att = NoAttestation /\ calls[x].epoch = epoch
  BY <1>1 DEF CallOK, Shaped, SignedOK
<1>8. calls'[x].key \in 0..fresh' /\ calls'[x].key = attestor'
  BY <1>4, <1>6 DEF KeyOK
<1>9. Shaped(calls[x])'
  BY <1>1, <1>4, <1>5, <1>6, <1>7, <1>8 DEF CallOK, Shaped, Stages, Outcomes
<1>10. Ran(calls[x])'
  BY <1>1, <1>4, <1>5 DEF CallOK, Ran
<1>11. SignedOK(x)'
  <2>1. calls'[x].q.tool # Signed
    BY <1>1, <1>5, CatalogueAssumption
  <2> QED
    BY <1>4, <1>5, <1>6, <1>7, <1>8, <2>1 DEF SignedOK, KeyOK
<1> QED
  BY <1>2, <1>3, <1>5, <1>7, <1>9, <1>10, <1>11, OneMoves DEF CallOK

(* A client calls. *)
LEMMA RequestOK ==
    ASSUME Inv, NEW x \in Calls, NEW q \in Requests, Request(x, q)
    PROVE  Inv'
<1>1. /\ CallOK(x) /\ DOMAIN calls = Calls /\ DOMAIN calls[x] = Fields /\ KeyOK
      /\ calls[x].pc = "idle" /\ epoch \in 0..MaxEpoch
  BY DEF Inv, CallOK, Shaped, Request
<1>2. KeysStep
  BY DEF Request, KeysStep
<1>3. DOMAIN calls' = Calls /\ \A y \in Calls : y # x => calls'[y] = calls[y]
  BY <1>1 DEF Request
<1>4. /\ DOMAIN calls'[x] = Fields
      /\ calls'[x].pc = "asked" /\ calls'[x].q = q /\ calls'[x].epoch = epoch
      /\ \A f \in Fields \ {"pc", "q", "epoch"} : calls'[x][f] = calls[x][f]
  BY <1>1 DEF Request, Fields
<1>5. /\ calls'[x].skill = calls[x].skill /\ calls'[x].outcome = calls[x].outcome
      /\ calls'[x].used = calls[x].used /\ calls'[x].said = calls[x].said
      /\ calls'[x].key = calls[x].key /\ calls'[x].att = calls[x].att
  BY <1>4 DEF Fields
<1>6. KeyOK' /\ UNCHANGED <<seed, epoch, attestorVars>>
  BY <1>2, KeysKept DEF Request, serverVars
<1>7. calls[x].key = 0 /\ calls[x].att = NoAttestation
  BY <1>1 DEF CallOK, SignedOK
<1>8. epoch \in 0..epoch
  BY <1>1, ExtendedAssumption
<1>9. Shaped(calls[x])'
  BY <1>1, <1>4, <1>5, <1>6, <1>7, <1>8 DEF CallOK, Shaped, Stages, attestorVars
<1>10. Ran(calls[x])'
  BY <1>1, <1>4, <1>5 DEF CallOK, Ran
<1>11. SignedOK(x)'
  BY <1>4, <1>5, <1>7 DEF SignedOK
<1> QED
  BY <1>2, <1>3, <1>4, <1>9, <1>10, <1>11, OneMoves DEF CallOK

-----------------------------------------------------------------------------
(* The steps *)

(* Whatever a call does next, the invariant stays: one case for each way. *)
LEMMA HandleKeeps ==
    ASSUME Inv, NEW x \in Calls, Handle(x)
    PROVE  Inv'
<1> USE DEF KeysStep, Meta, Asked, Direct, Signing
<1>1. CASE DirectRaises(x)
  BY <1>1, DoneOK DEF DirectRaises, Outcomes
<1>2. CASE DirectRejected(x)
  BY <1>2, DoneOK DEF DirectRejected, Outcomes
<1>3. CASE DirectRuns(x)
  <2>1. calls[x].q.tool # Signed /\ Target(calls[x].q) \notin AttestTools
    BY <1>3 DEF DirectRuns, AttestTools, Target
  <2> QED
    BY <1>3, <2>1, RunOK DEF DirectRuns
<1>4. CASE MetaDenied(x)
  BY <1>4, DoneOK DEF MetaDenied, Outcomes
<1>5. CASE SeedRaises(x)
  BY <1>5, DoneOK DEF SeedRaises, Outcomes
<1>6. CASE PublishKey(x)
  BY <1>6, PublishKeyOK
<1>7. CASE SignedRejected(x)
  BY <1>7, DoneOK DEF SignedRejected, Outcomes
<1>8. CASE SignedRaises(x)
  BY <1>8, DoneOK DEF SignedRaises, Outcomes
<1>9. CASE SignedRuns(x)
  <2>1. KeysStep /\ attestor' # 0 /\ MaySign(calls[x].q)
    BY <1>9, KeysKept DEF SignedRuns, Signable, MaySign
  <2>2. Target(calls[x].q) \notin AttestTools
    BY <1>9 DEF SignedRuns, Target, Signable
  <2> QED
    BY <1>9, <2>1, <2>2, RunOK DEF SignedRuns
<1>10. CASE SignedError(x)
  <2>1. KeysStep /\ attestor' = KeyInUse /\ attestor' # 0 /\ MaySign(calls[x].q)
    BY <1>10, KeysKept DEF SignedError, Signable, MaySign
  <2>2. calls[x].q.limit = Text
    <3>1. calls[x].q \in Requests
      BY <1>10 DEF SignedError, Inv, CallOK, Shaped
    <3>2. Argument(calls[x].q) = Text
      BY <1>10 DEF SignedError, BaseAccepts, Target, Signable
    <3> QED
      BY <3>2, ExtendedAssumption DEF Argument, Clamp, Given
  <2>3. calls[x].skill = NoSkill
    BY <1>10 DEF SignedError, Inv, CallOK, Ran
  <2> QED
    BY <1>10, <2>1, <2>2, <2>3, AttestOK DEF SignedError, Sayings
<1>11. CASE Finish(x)
  BY <1>11, FinishOK
<1>12. CASE Return(x)
  <2>1. /\ calls[x].pc = "answered" /\ UNCHANGED <<serverVars, attestorVars>>
        /\ calls[x].said \in {"success", "error"}
    BY <1>12 DEF Return, Inv, CallOK, SignedOK
  <2>2. KeysStep /\ attestor' = attestor
    BY <2>1 DEF attestorVars
  <2>3. CASE calls[x].q.tool = Signed
    <3>1. attestor # 0 /\ MaySign(calls[x].q) /\ calls[x].skill # NoSkill
      BY <2>1, <2>3 DEF Inv, CallOK, SignedOK
    <3> QED
      BY <1>12, <2>1, <2>2, <2>3, <3>1, AttestOK DEF Return, Sayings
  <2>4. CASE calls[x].q.tool # Signed
    BY <1>12, <2>1, <2>2, <2>4, DoneOK DEF Return, Outcomes
  <2> QED
    BY <2>3, <2>4
<1> QED
  BY <1>1, <1>2, <1>3, <1>4, <1>5, <1>6, <1>7, <1>8, <1>9, <1>10, <1>11, <1>12 DEF Handle

(* A step that leaves calls and keys alone, and the index servable. *)
LEMMA CallsKept ==
    ASSUME Inv, UNCHANGED <<seed, epoch, attestorVars, calls>>, IndexOK'
    PROVE  Inv'
<1>1. UNCHANGED <<seed, epoch, attestor, fresh, calls>>
  BY DEF attestorVars
<1>2. KeyOK' /\ OneKey'
  BY <1>1 DEF Inv, KeyOK, OneKey
<1>3. ASSUME NEW x \in Calls PROVE CallOK(x)'
  BY <1>1 DEF Inv, CallOK, Shaped, Ran, SignedOK, Covered
<1> QED
  BY <1>1, <1>2, <1>3 DEF Inv

(* A server that is built has passed the checks that guard its index. *)
LEMMA BuildKeeps ==
    ASSUME Inv, NEW c \in Catalogues, Build(c)
    PROVE  Inv'
<1>1. CatalogueShape(c) /\ BaseReadOnly(c) /\ CatalogueReadOnly(c) /\ index' = IndexOf(c)
  BY ExtendedAssumption DEF Build
<1>2. IndexOK'
  BY <1>1, IndexIsServable DEF IndexOK
<1> QED
  BY <1>2, CallsKept DEF Build

(* A restart cuts the calls under way and drops the key; what was signed   *)
(* before belongs to an earlier process.                                   *)
LEMMA RestartKeeps ==
    ASSUME Inv, Restart
    PROVE  Inv'
<1>1. /\ epoch \in 0..MaxEpoch /\ epoch' = epoch + 1 /\ epoch' \in 0..MaxEpoch
      /\ attestor' = 0 /\ UNCHANGED <<seed, fresh>>
  BY ExtendedAssumption DEF Inv, Restart
<1>2. KeyOK'
  BY <1>1 DEF Inv, KeyOK
<1>3. IndexOK'
  BY DEF Restart, IndexOK
<1>4. ASSUME NEW x \in Calls
      PROVE  /\ DOMAIN calls'[x] = Fields
             /\ calls'[x].pc = IF calls[x].pc \in {"idle", "done"} THEN calls[x].pc
                               ELSE "gone"
             /\ calls'[x].q = calls[x].q /\ calls'[x].skill = calls[x].skill
             /\ calls'[x].used = calls[x].used /\ calls'[x].said = calls[x].said
             /\ calls'[x].outcome = calls[x].outcome /\ calls'[x].key = calls[x].key
             /\ calls'[x].att = calls[x].att /\ calls'[x].epoch = calls[x].epoch
  <2>1. DOMAIN calls[x] = Fields
    BY DEF Inv, CallOK, Shaped
  <2>2. calls'[x] = IF calls[x].pc \in {"idle", "done"} THEN calls[x]
                    ELSE [calls[x] EXCEPT !.pc = "gone"]
    BY DEF Restart
  <2>3. CASE calls[x].pc \in {"idle", "done"}
    BY <2>1, <2>2, <2>3
  <2>4. CASE calls[x].pc \notin {"idle", "done"}
    BY <2>1, <2>2, <2>4 DEF Fields
  <2> QED
    BY <2>3, <2>4
<1>5. ASSUME NEW x \in Calls PROVE CallOK(x)'
  <2>1. Shaped(calls[x]) /\ Ran(calls[x]) /\ SignedOK(x)
    BY DEF Inv, CallOK
  <2>2. Shaped(calls[x])'
    BY <1>1, <1>4, <2>1 DEF Shaped, Stages
  <2>3. Ran(calls[x])'
    BY <1>4, <2>1 DEF Ran
  <2>4. calls[x].epoch # epoch'
    BY <1>1, <2>1 DEF Shaped
  <2>5. SignedOK(x)'
    BY <1>1, <1>4, <2>1, <2>4 DEF SignedOK, Covered, Shaped, Stages
  <2> QED
    BY <2>2, <2>3, <2>5 DEF CallOK
<1>6. OneKey'
  BY <1>1, <1>4 DEF Inv, OneKey
<1>7. DOMAIN calls' = Calls
  BY DEF Restart
<1> QED
  BY <1>1, <1>2, <1>3, <1>5, <1>6, <1>7 DEF Inv

(* Every step keeps the invariant. *)
LEMMA StepKeeps == Inv /\ [Next]_vars => Inv'
<1> SUFFICES ASSUME Inv, [Next]_vars PROVE Inv'
  OBVIOUS
<1>1. CASE \E c \in Catalogues : Build(c)
  BY <1>1, BuildKeeps
<1>2. CASE UNCHANGED vars \/ \E c \in Catalogues : RefuseToBuild(c)
  <2>1. UNCHANGED <<index, seed, epoch, attestorVars, calls>>
    BY <1>2 DEF RefuseToBuild, vars, serverVars
  <2>2. IndexOK'
    BY <2>1 DEF Inv, IndexOK
  <2> QED
    BY <2>1, <2>2, CallsKept
<1>3. CASE \E x \in Calls : Handle(x)
  BY <1>3, HandleKeeps
<1>4. CASE \E x \in Calls, q \in Requests : Request(x, q)
  BY <1>4, RequestOK
<1>5. CASE Restart
  BY <1>5, RestartKeeps
<1> QED
  BY <1>1, <1>2, <1>3, <1>4, <1>5 DEF Next

(* It holds at first: nothing is indexed, signed or asked yet. *)
LEMMA Starts == Init => Inv
<1> SUFFICES ASSUME Init PROVE Inv
  OBVIOUS
<1>1. IndexOK /\ KeyOK
  BY DEF Init, IndexOK, KeyOK
<1>2. /\ epoch = 0 /\ fresh = 1 /\ attestor = 0 /\ calls = [x \in Calls |-> Idle]
      /\ epoch \in 0..MaxEpoch
  BY ExtendedAssumption DEF Init
<1>3. ASSUME NEW x \in Calls PROVE CallOK(x) /\ calls[x].key = 0
  <2>1. calls[x] = Idle
    BY <1>2
  <2>2. NoSkill \notin ExecutionSkills
    BY CatalogueAssumption
  <2>3. Shaped(calls[x])
    BY <1>2, <2>1 DEF Shaped, Idle, Fields, Stages, Outcomes, Sayings
  <2> QED
    BY <2>1, <2>2, <2>3 DEF CallOK, Ran, SignedOK, Idle
<1>4. OneKey
  BY <1>3 DEF OneKey
<1> QED
  BY <1>1, <1>2, <1>3, <1>4 DEF Inv, Init

(* The invariant holds in every state. *)
THEOREM AlwaysInv == Spec => []Inv
  BY Starts, StepKeeps, PTL DEF Spec

-----------------------------------------------------------------------------
(* What holds in every state *)

(* Every variable has its type, and a call that will sign has its key.     *)
THEOREM TypeCorrect == Spec => []TypeOK
<1>1. Inv => TypeOK
  <2> SUFFICES ASSUME Inv PROVE TypeOK
    OBVIOUS
  <2>1. ASSUME NEW x \in Calls
        PROVE  /\ calls[x].att = NoAttestation \/ calls[x].att.public_key = calls[x].key
               /\ calls[x].pc \in {"running", "answered"} /\ calls[x].q.tool = Signed
                     => attestor # 0
    <3>1. SignedOK(x)
      BY DEF Inv, CallOK
    <3>2. \A k, p : Attestation(k, p).public_key = k
      BY DEF Attestation
    <3> QED
      BY <3>1, <3>2 DEF SignedOK
  <2> QED
    BY <2>1 DEF TypeOK, Inv, KeyOK, CallOK, Shaped, Stages, Outcomes, Sayings
<1> QED
  BY <1>1, AlwaysInv, PTL

(* Whatever catalogue passes the start-up checks, no call, direct or       *)
(* through runeclaw_signed, runs a skill that trades.                      *)
THEOREM NoCallExecutes == Spec => []NeverExecutes
<1>1. Inv => NeverExecutes
  BY DEF Inv, CallOK, Ran, NeverExecutes
<1> QED
  BY <1>1, AlwaysInv, PTL

(* Whatever a client sends, by either way, a skill is handed a bounded     *)
(* argument within its bounds, or none.                                    *)
THEOREM SkillsAreBounded == Spec => []SkillsSeeBounds
<1>1. Inv => SkillsSeeBounds
  BY DEF Inv, CallOK, Ran, SkillsSeeBounds
<1> QED
  BY <1>1, AlwaysInv, PTL

(* However calls interleave, one process signs and publishes under one     *)
(* key, and with a configured seed all processes do.                       *)
THEOREM OneKeyPerProcess == Spec => []OneKey
<1>1. Inv => OneKey
  BY DEF Inv
<1> QED
  BY <1>1, AlwaysInv, PTL

(* What is signed answers an authenticated request for a tool that is no   *)
(* meta-tool, and covers what the tool answered to that very call, which   *)
(* ran it or was refused for its arguments.                                *)
THEOREM SignedHasRun == Spec => []SignsOnlyRuns
<1>1. Inv => SignsOnlyRuns
  <2> SUFFICES ASSUME Inv, NEW x \in HasSigned
               PROVE  LET c == calls[x] IN
                      /\ MaySign(c.q)
                      /\ c.att.signature.over = CanonicalBytes(Covered(x))
                      /\ \/ c.skill # NoSkill /\ c.said \in {"success", "error"}
                         \/ c.skill = NoSkill /\ c.said = "refused" /\ c.q.limit = Text
    BY DEF SignsOnlyRuns, MaySign
  <2>1. SignedOK(x) /\ calls[x].att # NoAttestation
    BY DEF HasSigned, Inv, CallOK
  <2>2. calls[x].att = Attestation(calls[x].key, Covered(x))
    BY <2>1 DEF SignedOK
  <2>3. calls[x].att.signature.over = CanonicalBytes(Covered(x))
    BY <2>2 DEF Attestation
  <2> QED
    BY <2>1, <2>3 DEF SignedOK
<1> QED
  BY <1>1, AlwaysInv, PTL

-----------------------------------------------------------------------------
(* What a signature is worth *)

(* The bytes that are hashed and signed tell the members of a payload, *)
LEMMA BytesOf ==
    ASSUME NEW q, NEW response
    PROVE  CanonicalBytes(Payload(q, response)) =
              {<<"tool", q.inner>>, <<"arguments", Given(q)>>, <<"response", response>>}
<1>1. DOMAIN Payload(q, response) = 1..3
  BY DEF Payload
<1> QED
  BY <1>1 DEF CanonicalBytes, ToSet, Payload

(* and so one payload from another.                                        *)
LEMMA BytesTellPayloads ==
    ASSUME NEW q, NEW said, NEW r, NEW told,
           CanonicalBytes(Payload(q, said)) = CanonicalBytes(Payload(r, told))
    PROVE  Payload(q, said) = Payload(r, told)
<1>1. /\ <<"tool", q.inner>> \in CanonicalBytes(Payload(r, told))
      /\ <<"arguments", Given(q)>> \in CanonicalBytes(Payload(r, told))
      /\ <<"response", said>> \in CanonicalBytes(Payload(r, told))
  BY BytesOf
<1>2. q.inner = r.inner /\ Given(q) = Given(r) /\ said = told
  BY <1>1, BytesOf
<1> QED
  BY <1>2 DEF Payload

(* An attestation with another key id. *)
LEMMA IdReplaced ==
    ASSUME NEW i, NEW k, NEW c, NEW s, NEW other
    PROVE  [ [ algo |-> "ed25519", hash |-> "sha256", key_id |-> i, public_key |-> k,
               content_sha256 |-> c, signature |-> s ] EXCEPT !.key_id = other ]
           = [ algo |-> "ed25519", hash |-> "sha256", key_id |-> other, public_key |-> k,
               content_sha256 |-> c, signature |-> s ]
  OBVIOUS

(* What clients put together out of signed answers, of this process and of *)
(* others, verifies only if the request and the response were answered and *)
(* signed together, under the public key that is named.  The key id alone  *)
(* may be another answer's.                                                *)
THEOREM NoForgeryByParts == Spec => []VerifiedIsGenuine
<1>1. Inv => VerifiedIsGenuine
  <2> SUFFICES ASSUME Inv,
                      NEW x \in HasSigned, NEW y \in HasSigned, NEW t \in HasSigned,
                      NEW u \in HasSigned, NEW v \in HasSigned, NEW w \in HasSigned,
                      Verifies(Payload(calls[x].q, Response(y, calls[y].said)),
                               Together(calls[t].att, calls[u].att, calls[v].att, calls[w].att))
               PROVE  \E z \in HasSigned :
                         /\ Payload(calls[x].q, Response(y, calls[y].said)) = Covered(z)
                         /\ Together(calls[t].att, calls[u].att, calls[v].att, calls[w].att)
                              = [calls[z].att EXCEPT !.key_id =
                                    Together(calls[t].att, calls[u].att,
                                             calls[v].att, calls[w].att).key_id]
    BY Zenon DEF VerifiedIsGenuine
  <2> DEFINE p == Payload(calls[x].q, Response(y, calls[y].said))
             a == Together(calls[t].att, calls[u].att, calls[v].att, calls[w].att)
  <2> SUFFICES p = Covered(w) /\ a = [calls[w].att EXCEPT !.key_id = a.key_id]
    BY Zenon
  <2>0. Verifies(p, a) /\ a = Together(calls[t].att, calls[u].att, calls[v].att, calls[w].att)
    OBVIOUS
  <2> HIDE DEF a
  <2> DEFINE pw == Covered(w)
             kw == calls[w].key
             kt == calls[t].key
  <2>1. calls[w].att = Attestation(kw, pw) /\ calls[t].att = Attestation(kt, Covered(t))
    BY DEF HasSigned, Inv, CallOK, SignedOK
  <2> HIDE DEF pw, kw, kt
  <2>2. a = [ algo |-> "ed25519", hash |-> "sha256", key_id |-> kt,
              public_key     |-> calls[u].att.public_key,
              content_sha256 |-> calls[v].att.content_sha256,
              signature      |-> calls[w].att.signature ]
    BY <2>0, <2>1 DEF Attestation, Together
  <2>3. /\ a.content_sha256 = CanonicalBytes(p) /\ a.key_id = kt
        /\ calls[w].att.signature = [by |-> a.public_key, over |-> CanonicalBytes(p)]
    <3> HIDE DEF p
    <3>1. a.key_id = kt /\ a.signature = calls[w].att.signature
      BY <2>2
    <3> QED
      BY <2>0, <3>1, Zenon DEF Verifies
  <2>4. calls[w].att.signature = [by |-> kw, over |-> CanonicalBytes(pw)]
    BY <2>1 DEF Attestation
  <2>5. a.public_key = kw /\ CanonicalBytes(p) = CanonicalBytes(pw)
    <3>1. [by |-> a.public_key, over |-> CanonicalBytes(p)]
            = [by |-> kw, over |-> CanonicalBytes(pw)]
      BY <2>3, <2>4, Zenon
    <3>2. [by |-> a.public_key, over |-> CanonicalBytes(p)].by
            = [by |-> kw, over |-> CanonicalBytes(pw)].by
      BY <3>1, Zenon
    <3>3. [by |-> a.public_key, over |-> CanonicalBytes(p)].over
            = [by |-> kw, over |-> CanonicalBytes(pw)].over
      BY <3>1, Zenon
    <3> QED
      BY <3>2, <3>3
  <2>6. p = pw
    BY <2>5, BytesTellPayloads DEF pw, Covered
  <2>7. a = [ algo |-> "ed25519", hash |-> "sha256", key_id |-> kt, public_key |-> kw,
              content_sha256 |-> CanonicalBytes(pw),
              signature |-> [by |-> kw, over |-> CanonicalBytes(pw)] ]
    <3>1. /\ calls[u].att.public_key = kw
          /\ calls[v].att.content_sha256 = CanonicalBytes(pw)
      BY <2>2, <2>3, <2>5
    <3> QED
      BY <2>2, <2>4, <3>1
  <2>8. a = [calls[w].att EXCEPT !.key_id = kt]
    BY <2>1, <2>7, IdReplaced DEF Attestation
  <2> QED
    BY <2>3, <2>6, <2>8 DEF pw
<1> QED
  BY <1>1, AlwaysInv, PTL

(* An order of the members of a finite set leaves none of them out.        *)
LEMMA OrdersKeepMembers ==
    ASSUME NEW S, IsFiniteSet(S), NEW p \in SetToSeqs(S)
    PROVE  ToSet(p) = S
<1> DEFINE D == 1..Cardinality(S)
<1>1. p \in [D -> S] /\ \A i, j \in D : i # j => p[i] # p[j]
  BY DEF SetToSeqs
<1>2. Cardinality(S) \in Nat
  BY FS_CardinalityType
<1>3. IsFiniteSet(D) /\ Cardinality(D) = Cardinality(S)
  BY <1>2, FS_Interval
<1>4. p \in Injection(D, S)
  BY <1>1 DEF Injection, IsInjective
<1>5. p \in Surjection(D, S)
  BY <1>3, <1>4, FS_Injection
<1> QED
  BY <1>1, <1>5 DEF Surjection, ToSet

(* A client that puts the response next to its request as it made it,      *)
(* members in any order, finds the signature good, unless its arguments    *)
(* were false to Python; with an empty object for these it does too.       *)
THEOREM SignaturesAreGood == Spec => []GenuineVerifies
<1> DEFINE M(x, arguments) == { <<"response", Response(x, calls[x].said)>>,
                                <<"tool", calls[x].q.inner>>,
                                <<"arguments", arguments>> }
<1>1. ASSUME Inv, NEW x \in HasSigned, NEW arguments, NEW p \in SetToSeqs(M(x, arguments))
      PROVE  Verifies(p, calls[x].att) <=> arguments = Given(calls[x].q)
  <2>1. calls[x].att = Attestation(calls[x].key, Covered(x))
    BY <1>1 DEF HasSigned, Inv, CallOK, SignedOK
  <2>2. IsFiniteSet(M(x, arguments))
    <3> DEFINE R == {<<"response", Response(x, calls[x].said)>>}
               T == {<<"tool", calls[x].q.inner>>}
               A == {<<"arguments", arguments>>}
    <3>1. IsFiniteSet(R) /\ IsFiniteSet(T) /\ IsFiniteSet(A)
      BY FS_Singleton
    <3>2. IsFiniteSet((R \union T) \union A)
      BY <3>1, FS_Union
    <3>3. M(x, arguments) = (R \union T) \union A
      OBVIOUS
    <3> QED
      BY <3>2, <3>3
  <2>3. CanonicalBytes(p) = M(x, arguments)
    BY <1>1, <2>2, OrdersKeepMembers DEF CanonicalBytes
  <2>4. CanonicalBytes(Covered(x)) = M(x, Given(calls[x].q))
    BY BytesOf DEF Covered
  <2>5. Verifies(p, calls[x].att) <=> CanonicalBytes(p) = CanonicalBytes(Covered(x))
    <3> DEFINE b == CanonicalBytes(p)
               c == CanonicalBytes(Covered(x))
               k == calls[x].key
    <3>1. /\ calls[x].att.content_sha256 = c /\ calls[x].att.public_key = k
          /\ calls[x].att.signature = [by |-> k, over |-> c]
      BY <2>1 DEF Attestation
    <3> HIDE DEF b, c, k
    <3> QED
      BY <3>1 DEF Verifies, b, c
  <2>6. M(x, arguments) = M(x, Given(calls[x].q)) <=> arguments = Given(calls[x].q)
    <3>1. ASSUME M(x, arguments) = M(x, Given(calls[x].q))
          PROVE  arguments = Given(calls[x].q)
      <4>1. <<"arguments", arguments>> \in M(x, Given(calls[x].q))
        BY <3>1
      <4> QED
        BY <4>1
    <3> QED
      BY <3>1
  <2> QED
    BY <2>3, <2>4, <2>5, <2>6
<1>2. ASSUME NEW q PROVE q.limit = Given(q) <=> q.limit # Falsy
  BY ExtendedAssumption DEF Given
<1>3. Inv => GenuineVerifies
  BY <1>1, <1>2 DEF GenuineVerifies
<1> QED
  BY <1>3, AlwaysInv, PTL

=============================================================================
