------------------------------ MODULE Manifest ------------------------------
(***************************************************************************)
(* The listing of the service, okx-ai/manifest.json, and the script that   *)
(* writes it and, with --check, compares it (generate_a2mcp_manifest.py):  *)
(* a checkout whose catalogue and prices are edited, the file, a writer    *)
(* that truncates it before it writes, an operator who fills it in, and    *)
(* the server deployed from the checkout at some other moment.             *)
(*                                                                         *)
(* A source is [catalogue, prices].  The text of the file is               *)
(* [provider, tools]; the rest of it never changes.                        *)
(***************************************************************************)
EXTENDS Catalogue

CONSTANTS
    Sources,         \* what the checkout may hold
    DefaultPrice,    \* _DEFAULT_PRICE
    Placeholders,    \* "<your-provider-name>" and its like, as generated
    Operator,        \* what the operator puts in their place
    Missing, Torn,   \* no file; a file cut short
    Nobody           \* no writer at work, or no server deployed

ASSUME SourcesAssumption ==
    \A s \in Sources : CatalogueShape(s.catalogue) /\ BaseReadOnly(s.catalogue)

VARIABLES
    source,    \* the checkout
    file,      \* okx-ai/manifest.json
    writer,    \* what the script is about to write, once the file is truncated
    origin,    \* history: the source the file was rendered from
    verdict,   \* what --check said, until file or checkout changes
    server     \* the catalogue the running server was built from

vars == <<source, file, writer, origin, verdict, server>>

-----------------------------------------------------------------------------
(* _PER_TOOL_PRICE.get(name, _DEFAULT_PRICE) *)
PriceOf(s, n) == IF n \in DOMAIN s.prices THEN s.prices[n] ELSE DefaultPrice

(* Mutant of AllDefs: a tuple was added to the server and not here. *)
AllDefsForgotten(c) == c.base \o c.ext \o c.okx \o AttestDefs

(* all_defs, put together here a second time. *)
AllDefs(c) == c.base \o c.ext \o c.okx \o c.dex \o AttestDefs

Entry(s, d) == [name |-> d.name, about |-> d.about, price |-> PriceOf(s, d.name)]

(* build_manifest, serialized *)
Rendered(s) ==
    LET defs == AllDefs(s.catalogue) IN
    [provider |-> Placeholders, tools |-> [i \in DOMAIN defs |-> Entry(s, defs[i])]]

(* Mutant of Renders: the script does without the assertion. *)
RendersAlways(s) == TRUE

(* assert_extended_readonly comes before anything is rendered. *)
Renders(s) == CatalogueReadOnly(s.catalogue)

-----------------------------------------------------------------------------
Init ==
    /\ source \in Sources
    /\ file = Missing
    /\ writer = Nobody
    /\ origin = source
    /\ verdict = "none"
    /\ server = Nobody

Written == file \notin {Missing, Torn}

Edit(s) ==
    /\ source' = s
    /\ verdict' = "none"
    /\ UNCHANGED <<file, writer, origin, server>>

(* okx-ai/README.md: "Before listing, fill the placeholders". *)
FillIn ==
    /\ Written /\ writer = Nobody
    /\ file.provider # Operator
    /\ file' = [file EXCEPT !.provider = Operator]
    /\ verdict' = "none"
    /\ UNCHANGED <<source, writer, origin, server>>

(* Mutant of Generate: the text is written over the old one. *)
GenerateInPlace ==
    /\ writer = Nobody
    /\ Renders(source)
    /\ writer' = source
    /\ verdict' = "none"
    /\ UNCHANGED <<source, file, origin, server>>

(* main: open(..., "w") truncates the file. *)
Generate ==
    /\ writer = Nobody
    /\ Renders(source)
    /\ file' = Torn
    /\ writer' = source
    /\ verdict' = "none"
    /\ UNCHANGED <<source, origin, server>>

WriteOut ==
    /\ writer # Nobody
    /\ file' = Rendered(writer)
    /\ origin' = writer
    /\ writer' = Nobody
    /\ verdict' = "none"
    /\ UNCHANGED <<source, server>>

(* The script is stopped, or the disk is full. *)
CutShort ==
    /\ writer # Nobody
    /\ writer' = Nobody
    /\ UNCHANGED <<source, file, origin, verdict, server>>

(* main with --check: the whole text is compared. *)
Check ==
    /\ Renders(source)
    /\ verdict' = IF Written /\ file = Rendered(source) THEN "current" ELSE "stale"
    /\ UNCHANGED <<source, file, writer, origin, server>>

(* Either way the script ends in an exception, before it touches the file. *)
Refuse == ~ Renders(source) /\ UNCHANGED vars

(* The server is built from the checkout. *)
Deploy ==
    /\ CatalogueReadOnly(source.catalogue)
    /\ server' = source.catalogue
    /\ UNCHANGED <<source, file, writer, origin, verdict>>

Next ==
    \/ \E s \in Sources : Edit(s)
    \/ FillIn
    \/ Generate \/ WriteOut \/ CutShort
    \/ Check \/ Refuse
    \/ Deploy

Spec == Init /\ [][Next]_vars

-----------------------------------------------------------------------------
(* Every variable has its type, and the file is torn while it is written.  *)
TypeOK ==
    /\ source \in Sources /\ origin \in Sources
    /\ writer \in Sources \union {Nobody}
    /\ writer # Nobody => file = Torn
    /\ Written =>
          /\ file.provider \in {Placeholders, Operator}
          /\ file.tools = Rendered(origin).tools
    /\ verdict \in {"none", "current", "stale"}
    /\ server = Nobody \/ server \in {s.catalogue : s \in Sources}

(* "so the manifest can never drift from what the server actually serves": *)
(* if --check passed and the server was built from that checkout, the file *)
(* lists what list_tools answers, in its order, each tool at its price, and*)
(* no name that call_tool would not find.  (build_manifest, which puts the *)
(* catalogues together a second time, against build_extended_server.)  Such*)
(* a file is as generated: one that was filled in is always called stale.  *)
ListingIsServed ==
    verdict = "current" /\ server = source.catalogue =>
        /\ file.provider = Placeholders
        /\ Len(file.tools) = Len(Listing(server))
        /\ \A i \in DOMAIN file.tools :
              /\ file.tools[i].name = Listing(server)[i].name
              /\ file.tools[i].about = Listing(server)[i].about
              /\ file.tools[i].price = PriceOf(source, file.tools[i].name)
              /\ file.tools[i].name \in DOMAIN IndexOf(server)

(* "and can never list an execution tool": whatever was edited, refused or *)
(* cut short before, a published listing names no tool that ran a skill    *)
(* which trades in the source it came from.  (The assertion at the start   *)
(* of build_manifest)                                                      *)
ListsNothingThatTrades ==
    Written =>
        \A i \in DOMAIN file.tools :
            IndexOf(origin.catalogue)[file.tools[i].name].skill \notin ExecutionSkills

=============================================================================
