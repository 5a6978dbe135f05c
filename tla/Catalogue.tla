----------------------------- MODULE Catalogue -----------------------------
(***************************************************************************)
(* The tool catalogue of a release, which the server is built from and the *)
(* published manifest is generated from: RUNECLAW's own tools and the four *)
(* tuples extended_server.py, okx_data.py, okx_dex.py and attestation.py   *)
(* add to them, with the checks each of these files makes of its own.      *)
(*                                                                         *)
(* A tool is [name, about, skill, executable]: its name, what a listing    *)
(* says of it (description and parameters), the skill it runs, and whether *)
(* the name contains "execute".  A catalogue is [base, ext, okx, dex]; the *)
(* attestation tools are the same in every release.                        *)
(***************************************************************************)
EXTENDS Integers, Sequences, FiniteSets, SequencesExt

CONSTANTS
    ExecutionSkills,        \* EXECUTION_SKILLS
    Allowlist,              \* READONLY_ALLOWLIST
    OkxSkills, DexSkills,   \* OKX_SKILL_NAMES, DEX_SKILL_NAMES
    AttestKey, Signed,      \* the two attestation tools
    NoSkill                 \* the placeholder skill of these

AttestTools == {AttestKey, Signed}

ASSUME CatalogueAssumption ==
    /\ (Allowlist \union OkxSkills \union DexSkills)
          \intersect (ExecutionSkills \union {NoSkill}) = {}
    /\ NoSkill \notin ExecutionSkills
    /\ AttestKey # Signed

-----------------------------------------------------------------------------
(* The checks *)

UniqueNames(tools) == IsInjective([i \in DOMAIN tools |-> tools[i].name])

(* Mutant of ExtReadOnly: the check the tests exercise, and no other. *)
ExtReadOnlyNames(ext) ==
    \A i \in DOMAIN ext : ~ ext[i].executable /\ ext[i].skill # "halt"

(* assert_extended_readonly over EXTENDED_TOOLS *)
ExtReadOnly(ext) ==
    /\ UniqueNames(ext)
    /\ \A i \in DOMAIN ext :
          /\ ~ ext[i].executable
          /\ ext[i].skill \notin ExecutionSkills
          /\ ext[i].skill \in Allowlist

(* assert_okx_readonly *)
OkxReadOnly(okx) ==
    /\ UniqueNames(okx)
    /\ \A i \in DOMAIN okx : ~ okx[i].executable /\ okx[i].skill \in OkxSkills

(* assert_dex_readonly: names may repeat *)
DexReadOnly(dex) ==
    \A i \in DOMAIN dex : ~ dex[i].executable /\ dex[i].skill \in DexSkills

(* The attestation tools have no skill behind them. *)
AttestDefs ==
    << [name |-> AttestKey, about |-> <<>>, skill |-> NoSkill, executable |-> FALSE],
       [name |-> Signed, about |-> <<"tool", "arguments">>, skill |-> NoSkill,
        executable |-> FALSE] >>

(* assert_attest_readonly *)
AttestReadOnly == \A i \in DOMAIN AttestDefs : ~ AttestDefs[i].executable

CatalogueReadOnly(c) ==
    ExtReadOnly(c.ext) /\ OkxReadOnly(c.okx) /\ DexReadOnly(c.dex) /\ AttestReadOnly

(* RUNECLAW's own catalogue is not checked here: that it holds no skill    *)
(* that trades, and none of the name of the placeholder, is taken from     *)
(* RUNECLAW.                                                               *)
BaseReadOnly(c) ==
    \A i \in DOMAIN c.base : c.base[i].skill \notin ExecutionSkills \union {NoSkill}

(* The four tuples. *)
CatalogueShape(c) == \A s \in {c.base, c.ext, c.okx, c.dex} : s \in Seq(ToSet(s))

-----------------------------------------------------------------------------
(* The server's view *)

Defs(c) == c.ext \o c.okx \o c.dex \o AttestDefs

(* list_tools: RUNECLAW's list, then the definitions. *)
Listing(c) == c.base \o Defs(c)

NamesOf(tools) == {tools[i].name : i \in DOMAIN tools}

LastOf(tools, n) ==
    CHOOSE i \in DOMAIN tools :
        tools[i].name = n /\ \A j \in DOMAIN tools : tools[j].name = n => j <= i

(* __init__ adds the definitions to RUNECLAW's index; the last one of a    *)
(* name wins, over RUNECLAW's own too.                                     *)
IndexOf(c) ==
    [n \in NamesOf(Listing(c)) |-> Listing(c)[LastOf(Listing(c), n)]]

=============================================================================
