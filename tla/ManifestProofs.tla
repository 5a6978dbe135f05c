--------------------------- MODULE ManifestProofs ---------------------------
(***************************************************************************)
(* The listing of the service, for any catalogues and prices a checkout    *)
(* may hold: what a file is known to be while it is edited, truncated,     *)
(* written, filled in and checked, and what a buyer may rely on.           *)
(***************************************************************************)
EXTENDS Manifest, CatalogueProofs

-----------------------------------------------------------------------------
(* The invariant *)

(* A file is the rendering of a source that passed the assertion, with the *)
(* placeholders as generated or filled in.                                 *)
FileOK ==
    Written =>
        /\ Renders(origin)
        /\ \E p \in {Placeholders, Operator} :
              file = [provider |-> p, tools |-> Rendered(origin).tools]

(* So is what will be written. *)
WriterOK == writer # Nobody => writer \in Sources /\ Renders(writer) /\ file = Torn

(* A verdict is about the file and the checkout as they are. *)
VerdictOK ==
    /\ verdict \in {"none", "current", "stale"}
    /\ verdict = "current" => Renders(source) /\ file = Rendered(source)

Inv ==
    /\ source \in Sources /\ origin \in Sources
    /\ FileOK /\ WriterOK /\ VerdictOK
    /\ server = Nobody \/ server \in {s.catalogue : s \in Sources}

-----------------------------------------------------------------------------
(* The operators *)

(* The script puts the tuples together as the server does, *)
LEMMA AllDefsIsListing ==
    ASSUME NEW c, CatalogueShape(c)
    PROVE  AllDefs(c) = Listing(c)
<1>1. PICK S : S = Tools(c)
  OBVIOUS
<1>2. PICK base \in Seq(S), ext \in Seq(S), okx \in Seq(S), dex \in Seq(S),
           attest \in Seq(S) :
        /\ base = c.base /\ ext = c.ext /\ okx = c.okx /\ dex = c.dex
        /\ attest = AttestDefs
  BY <1>1, TuplesOf
<1>3. PICK eo \in Seq(S) : eo = ext \o okx
  BY ConcatProperties
<1>4. PICK eod \in Seq(S) : eod = eo \o dex
  BY ConcatProperties
<1>5. (base \o ext) \o okx = base \o (ext \o okx)
  BY ConcatAssociative, SMTT(30)
<1>6. (base \o eo) \o dex = base \o (eo \o dex)
  BY ConcatAssociative, SMTT(30)
<1>7. (base \o eod) \o attest = base \o (eod \o attest)
  BY ConcatAssociative, SMTT(30)
<1>8. (((base \o ext) \o okx) \o dex) \o attest
         = base \o (((ext \o okx) \o dex) \o attest)
  BY <1>3, <1>4, <1>5, <1>6, <1>7
<1> QED
  BY <1>2, <1>8 DEF AllDefs, Listing, Defs

(* and renders one entry for each tool of the listing, in its order.       *)
LEMMA RenderedTools ==
    ASSUME NEW s \in Sources
    PROVE  LET rendered == Rendered(s).tools
               listing == Listing(s.catalogue)
           IN  /\ Len(rendered) = Len(listing) /\ DOMAIN rendered = DOMAIN listing
               /\ \A i \in DOMAIN rendered :
                     /\ rendered[i] = Entry(s, listing[i])
                     /\ listing[i].name \in NamesOf(listing)
<1> DEFINE listing == Listing(s.catalogue)
           rendered == Rendered(s).tools
<1>1. listing \in Seq(Tools(s.catalogue)) /\ AllDefs(s.catalogue) = listing
  BY SourcesAssumption, AllDefsIsListing, ListingOf
<1>2. rendered = [i \in DOMAIN listing |-> Entry(s, listing[i])]
  BY <1>1 DEF Rendered
<1> HIDE DEF rendered, listing
<1>3. DOMAIN listing = 1..Len(listing) /\ Len(listing) \in Nat
  BY <1>1, LenProperties
<1>4. Len(rendered) = Len(listing) /\ DOMAIN rendered = DOMAIN listing
  BY <1>2, <1>3
<1>5. \A i \in DOMAIN rendered :
          rendered[i] = Entry(s, listing[i]) /\ listing[i].name \in NamesOf(listing)
  BY <1>2 DEF NamesOf
<1> QED
  BY <1>4, <1>5 DEF rendered, listing

-----------------------------------------------------------------------------
(* The steps *)

(* Every step keeps the invariant: what was edited, filled in or cut short *)
(* withdraws the verdict.                                                  *)
LEMMA StepKeeps == Inv /\ [Next]_vars => Inv'
<1> SUFFICES ASSUME Inv, [Next]_vars PROVE Inv'
  OBVIOUS
<1> USE DEF Inv
<1>1. CASE \E s \in Sources : Edit(s)
  BY <1>1 DEF Edit, FileOK, WriterOK, VerdictOK, Written
<1>2. CASE FillIn
  <2>1. /\ file' = [file EXCEPT !.provider = Operator] /\ Written /\ writer = Nobody
        /\ UNCHANGED <<source, writer, origin, server>> /\ verdict' = "none"
    BY <1>2 DEF FillIn
  <2>2. PICK p \in {Placeholders, Operator} :
            file = [provider |-> p, tools |-> Rendered(origin).tools]
    BY <2>1 DEF FileOK
  <2>3. file' = [provider |-> Operator, tools |-> Rendered(origin).tools]
    BY <2>1, <2>2
  <2>4. FileOK'
    BY <2>1, <2>3 DEF FileOK, Rendered
  <2> QED
    BY <2>1, <2>4 DEF WriterOK, VerdictOK
<1>3. CASE Generate
  BY <1>3 DEF Generate, FileOK, WriterOK, VerdictOK, Written
<1>4. CASE WriteOut
  <2>1. /\ writer \in Sources /\ Renders(writer) /\ origin' = writer
        /\ file' = Rendered(writer) /\ writer' = Nobody /\ verdict' = "none"
        /\ UNCHANGED <<source, server>>
    BY <1>4 DEF WriteOut, WriterOK
  <2>2. Rendered(writer)
          = [provider |-> Placeholders, tools |-> Rendered(writer).tools]
    BY DEF Rendered
  <2>3. FileOK'
    BY <2>1, <2>2 DEF FileOK
  <2> QED
    BY <2>1, <2>3 DEF WriterOK, VerdictOK
<1>5. CASE CutShort
  BY <1>5 DEF CutShort, FileOK, WriterOK, VerdictOK, Written
<1>6. CASE Check
  BY <1>6 DEF Check, FileOK, WriterOK, VerdictOK, Written
<1>7. CASE Refuse \/ UNCHANGED vars
  BY <1>7 DEF Refuse, vars, FileOK, WriterOK, VerdictOK, Written
<1>8. CASE Deploy
  BY <1>8 DEF Deploy, FileOK, WriterOK, VerdictOK, Written
<1> QED
  BY <1>1, <1>2, <1>3, <1>4, <1>5, <1>6, <1>7, <1>8 DEF Next

(* The invariant holds in every state. *)
THEOREM AlwaysInv == Spec => []Inv
<1>1. Init => Inv
  BY DEF Init, Inv, FileOK, WriterOK, VerdictOK, Written
<1> QED
  BY <1>1, StepKeeps, PTL DEF Spec

-----------------------------------------------------------------------------
(* What holds in every state *)

(* Every variable has its type, and the file is torn while it is written.  *)
THEOREM TypeCorrect == Spec => []TypeOK
<1>1. Inv => TypeOK
  BY DEF Inv, FileOK, WriterOK, VerdictOK, TypeOK
<1> QED
  BY <1>1, AlwaysInv, PTL

(* A file that --check calls current lists, for the server built from that *)
(* checkout, what list_tools answers, at its price, and nothing that       *)
(* call_tool would not find.                                               *)
THEOREM ListingIsTrue == Spec => []ListingIsServed
<1>1. Inv => ListingIsServed
  <2> SUFFICES ASSUME Inv, verdict = "current", server = source.catalogue
               PROVE  /\ file.provider = Placeholders
                      /\ Len(file.tools) = Len(Listing(server))
                      /\ \A i \in DOMAIN file.tools :
                            /\ file.tools[i].name = Listing(server)[i].name
                            /\ file.tools[i].about = Listing(server)[i].about
                            /\ file.tools[i].price = PriceOf(source, file.tools[i].name)
                            /\ file.tools[i].name \in DOMAIN IndexOf(server)
    BY DEF ListingIsServed
  <2>1. source \in Sources /\ file = Rendered(source)
    BY DEF Inv, VerdictOK
  <2>2. file.provider = Placeholders
    BY <2>1 DEF Rendered
  <2>3. /\ Len(file.tools) = Len(Listing(server))
        /\ \A i \in DOMAIN file.tools :
              /\ file.tools[i] = Entry(source, Listing(server)[i])
              /\ Listing(server)[i].name \in NamesOf(Listing(server))
    BY <2>1, RenderedTools
  <2>4. ASSUME NEW i \in DOMAIN file.tools
        PROVE  /\ file.tools[i].name = Listing(server)[i].name
               /\ file.tools[i].about = Listing(server)[i].about
               /\ file.tools[i].price = PriceOf(source, file.tools[i].name)
    <3>1. file.tools[i] = Entry(source, Listing(server)[i])
      BY <2>3
    <3>2. \A s, d : /\ Entry(s, d).name = d.name /\ Entry(s, d).about = d.about
                    /\ Entry(s, d).price = PriceOf(s, d.name)
      BY DEF Entry
    <3> QED
      BY <3>1, <3>2
  <2>5. ASSUME NEW i \in DOMAIN file.tools
        PROVE  file.tools[i].name \in DOMAIN IndexOf(server)
    BY <2>3, <2>4 DEF IndexOf
  <2> QED
    BY <2>2, <2>3, <2>4, <2>5
<1> QED
  BY <1>1, AlwaysInv, PTL

(* Whatever was edited, refused or cut short before, a published listing   *)
(* names no tool that ran a skill which trades in the source it came from. *)
THEOREM ListingIsReadOnly == Spec => []ListsNothingThatTrades
<1>1. Inv => ListsNothingThatTrades
  <2> SUFFICES ASSUME Inv, Written, NEW i \in DOMAIN file.tools
               PROVE  IndexOf(origin.catalogue)[file.tools[i].name].skill
                        \notin ExecutionSkills
    BY DEF ListsNothingThatTrades
  <2> DEFINE c == origin.catalogue
  <2>1. origin \in Sources /\ Renders(origin) /\ file.tools = Rendered(origin).tools
    BY DEF Inv, FileOK
  <2>2. file.tools[i].name \in NamesOf(Listing(c))
    <3>1. /\ file.tools[i] = Entry(origin, Listing(c)[i])
          /\ Listing(c)[i].name \in NamesOf(Listing(c))
      BY <2>1, RenderedTools
    <3> QED
      BY <3>1 DEF Entry
  <2>3. CatalogueShape(c) /\ CatalogueReadOnly(c) /\ BaseReadOnly(c)
    BY <2>1, SourcesAssumption DEF Renders
  <2> HIDE DEF c
  <2>4. file.tools[i].name \in DOMAIN IndexOf(c)
    BY <2>2 DEF IndexOf
  <2>5. IndexOf(c)[file.tools[i].name].skill \notin ExecutionSkills
    BY <2>3, <2>4, IndexIsServable
  <2> QED
    BY <2>5 DEF c
<1> QED
  BY <1>1, AlwaysInv, PTL

=============================================================================
