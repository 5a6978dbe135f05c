-------------------------- MODULE CatalogueProofs --------------------------
(***************************************************************************)
(* What the start-up checks of the catalogue are worth: whichever tuple a  *)
(* tool comes from and whichever definition of a name wins, the index they *)
(* guard leads to no skill that trades, and it knows every tool listed.    *)
(***************************************************************************)
EXTENDS Catalogue, SequenceTheorems, WellFoundedInduction, TLAPS

(* A tool that may be served: it does not trade, and runs a skill unless   *)
(* it is one of the attestation tools.                                     *)
Servable(t) ==
    /\ t.skill \notin ExecutionSkills
    /\ t.name \notin AttestTools => t.skill # NoSkill

(* The tools of a listing. *)
Tools(c) == ToSet(c.base) \union ToSet(c.ext) \union ToSet(c.okx) \union ToSet(c.dex)
              \union ToSet(AttestDefs)

(* The elements of a sequence, as a set. *)
LEMMA ToSetElements == \A s : \A i \in DOMAIN s : s[i] \in ToSet(s)
  BY DEF ToSet

(* A non-empty set of positions has a last one. *)
LEMMA LastPosition ==
    ASSUME NEW n \in Nat, NEW S \in SUBSET (1..n), S # {}
    PROVE  \E i \in S : \A j \in S : j <= i
<1> DEFINE T == {n - i : i \in S}
           R == {ss \in Nat \X Nat : ss[1] < ss[2]}
<1>1. T \subseteq Nat /\ T # {}
  <2>1. \A i \in S : n - i \in Nat
    OBVIOUS
  <2>2. PICK i \in S : TRUE
    OBVIOUS
  <2>3. n - i \in T
    OBVIOUS
  <2> QED
    BY <2>1, <2>3
<1>2. \A x, y \in Nat : <<x, y>> \in R <=> x < y
  OBVIOUS
<1>3. PICK x \in T : \A y \in T : ~ (y < x)
  <2>1. IsWellFoundedOn(R, Nat)
    BY NatLessThanWellFounded DEF OpToRel
  <2> HIDE DEF T, R
  <2>2. T \subseteq Nat
    BY <1>1
  <2>3. T # {}
    BY <1>1
  <2>4. \E x \in T : \A y \in T : ~ (<<y, x>> \in R)
    BY <2>1, <2>2, <2>3, WFMin
  <2> QED
    BY <1>1, <1>2, <2>4
<1>4. PICK i \in S : x = n - i
  OBVIOUS
<1>5. ASSUME NEW j \in S PROVE j <= i
  <2>1. n - j \in T /\ i \in 1..n /\ j \in 1..n
    OBVIOUS
  <2> QED
    BY <1>3, <1>4, <2>1
<1> QED
  BY <1>5

(* The definition that wins has the name. *)
LEMMA LastOfName ==
    ASSUME NEW S, NEW tools \in Seq(S), NEW n \in NamesOf(tools)
    PROVE  LastOf(tools, n) \in DOMAIN tools /\ tools[LastOf(tools, n)].name = n
<1> DEFINE P == {i \in DOMAIN tools : tools[i].name = n}
<1>1. DOMAIN tools = 1..Len(tools) /\ Len(tools) \in Nat
  BY LenProperties
<1>2. P \in SUBSET (1..Len(tools)) /\ P # {}
  BY <1>1 DEF NamesOf
<1>3. \E i \in P : \A j \in P : j <= i
  BY <1>1, <1>2, LastPosition
<1>4. \E i \in DOMAIN tools :
          tools[i].name = n /\ \A j \in DOMAIN tools : tools[j].name = n => j <= i
  BY <1>3
<1> QED
  BY <1>4 DEF LastOf

(* The five tuples, *)
LEMMA TuplesOf ==
    ASSUME NEW c, CatalogueShape(c)
    PROVE  /\ c.base \in Seq(Tools(c)) /\ c.ext \in Seq(Tools(c))
           /\ c.okx \in Seq(Tools(c)) /\ c.dex \in Seq(Tools(c))
           /\ AttestDefs \in Seq(Tools(c))
<1>1. /\ c.base \in Seq(ToSet(c.base)) /\ c.ext \in Seq(ToSet(c.ext))
      /\ c.okx \in Seq(ToSet(c.okx)) /\ c.dex \in Seq(ToSet(c.dex))
  BY DEF CatalogueShape
<1>2. AttestDefs \in Seq(ToSet(AttestDefs))
  <2>1. Len(AttestDefs) = 2 /\ DOMAIN AttestDefs = 1..2
    BY DEF AttestDefs
  <2>2. \A i \in 1..2 : AttestDefs[i] \in ToSet(AttestDefs)
    BY <2>1, ToSetElements
  <2>3. AttestDefs = [i \in 1..2 |-> AttestDefs[i]]
    BY DEF AttestDefs
  <2> QED
    BY <2>2, <2>3, IsASeq
<1> QED
  BY <1>1, <1>2, SeqMonotonic DEF Tools

(* and one after the other.                                                *)
LEMMA ListingOf ==
    ASSUME NEW c, CatalogueShape(c)
    PROVE  Listing(c) \in Seq(Tools(c))
  BY TuplesOf, ConcatProperties DEF Listing, Defs

(* Every tool of a checked catalogue is servable. *)
LEMMA CheckedTools ==
    ASSUME NEW c, CatalogueReadOnly(c), BaseReadOnly(c)
    PROVE  \A t \in Tools(c) : Servable(t)
<1> USE CatalogueAssumption DEF Servable, ToSet
<1>1. \A t \in ToSet(c.base) : Servable(t)
  BY DEF BaseReadOnly
<1>2. \A t \in ToSet(c.ext) : Servable(t)
  BY DEF CatalogueReadOnly, ExtReadOnly
<1>3. \A t \in ToSet(c.okx) : Servable(t)
  BY DEF CatalogueReadOnly, OkxReadOnly
<1>4. \A t \in ToSet(c.dex) : Servable(t)
  BY DEF CatalogueReadOnly, DexReadOnly
<1>5. \A t \in ToSet(AttestDefs) : Servable(t)
  BY DEF AttestDefs, AttestTools
<1> QED
  BY <1>1, <1>2, <1>3, <1>4, <1>5 DEF Tools

(* The index knows each name of the listing, by a tool of that name. *)
LEMMA IndexOfListing ==
    ASSUME NEW c, CatalogueShape(c), NEW n \in NamesOf(Listing(c))
    PROVE  n \in DOMAIN IndexOf(c) /\ IndexOf(c)[n] \in Tools(c) /\ IndexOf(c)[n].name = n
<1>1. Listing(c) \in Seq(Tools(c))
  BY ListingOf
<1>2. /\ LastOf(Listing(c), n) \in DOMAIN Listing(c)
      /\ Listing(c)[LastOf(Listing(c), n)].name = n
  BY <1>1, LastOfName
<1>3. \A i \in DOMAIN Listing(c) : Listing(c)[i] \in Tools(c)
  BY <1>1, ElementOfSeq, LenProperties
<1> QED
  BY <1>2, <1>3 DEF IndexOf

(* The checks guard the index: no name leads to a skill that trades,       *)
(* whichever tuple its winning definition is from.                         *)
THEOREM IndexIsServable ==
    ASSUME NEW c, CatalogueShape(c), CatalogueReadOnly(c), BaseReadOnly(c)
    PROVE  \A n \in DOMAIN IndexOf(c) :
              /\ IndexOf(c)[n].name = n
              /\ IndexOf(c)[n].skill \notin ExecutionSkills
              /\ n \notin AttestTools => IndexOf(c)[n].skill # NoSkill
<1>1. DOMAIN IndexOf(c) = NamesOf(Listing(c))
  BY DEF IndexOf
<1> QED
  BY <1>1, IndexOfListing, CheckedTools DEF Servable

=============================================================================
