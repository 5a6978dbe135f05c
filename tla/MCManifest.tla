----------------------------- MODULE MCManifest -----------------------------
(***************************************************************************)
(* Model-checking instance of Manifest: the release as shipped, and edits  *)
(* of it.                                                                  *)
(***************************************************************************)
EXTENDS Manifest, Shipped

Release == [catalogue |-> ShippedCatalogue, prices |-> ShippedPrices]

MCSources ==
    { Release,
      \* a dearer tool
      [Release EXCEPT !.prices["runeclaw_signed"] = 5],
      \* another parameter
      [Release EXCEPT !.catalogue.ext[3].about = <<"symbol", "limit">>],
      \* a second definition of a name of RUNECLAW's
      [Release EXCEPT !.catalogue.dex =
          Append(@, Tool("runeclaw_scan", "okx_dex_quant", <<"chain">>))],
      \* one tool less
      [Release EXCEPT !.catalogue.okx = <<@[1]>>],
      \* a tool that trades
      [Release EXCEPT !.catalogue.ext = Append(@, Tool("runeclaw_run", "run_strategy", <<>>))] }

(* The release passes its own checks, and each price in the table is one   *)
(* of a tool: a name with a typing error would fall back to the default.   *)
ASSUME ReleaseAssumption ==
    /\ CatalogueReadOnly(ShippedCatalogue)
    /\ UniqueNames(Listing(ShippedCatalogue))
    /\ DOMAIN ShippedPrices \subseteq NamesOf(Listing(ShippedCatalogue))
=============================================================================
