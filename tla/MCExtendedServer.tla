-------------------------- MODULE MCExtendedServer --------------------------
(***************************************************************************)
(* Model-checking instance of ExtendedServer: the catalogue as shipped (in *)
(* small), and edits of it that the start-up checks must refuse.           *)
(***************************************************************************)
EXTENDS ExtendedServer, Shipped

Bare(name, skill) == Tool(name, skill, <<>>)

Small ==
    [ base |-> <<Bare("runeclaw_shield", "shield")>>,
      ext  |-> <<Bare("runeclaw_walkforward", "walk_forward")>>,
      okx  |-> <<Bare("runeclaw_okx_quant", "okx_quant")>>,
      dex  |-> <<Bare("runeclaw_dex_quant", "okx_dex_quant")>> ]

MCCatalogues ==
    { Small,
      [Small EXCEPT !.ext = Append(@, Bare("runeclaw_run", "run_strategy"))],
      [Small EXCEPT !.ext = Append(@, Bare("runeclaw_new", "unvetted"))],
      [Small EXCEPT !.ext = Append(@, [Bare("runeclaw_execute", "whynot")
                                           EXCEPT !.executable = TRUE])],
      [Small EXCEPT !.ext = Append(@, Bare("runeclaw_walkforward", "whynot"))],
      [Small EXCEPT !.okx = Append(@, Bare("runeclaw_shield", "run_strategy"))],
      [Small EXCEPT !.dex = Append(@, Bare("runeclaw_dex_quant", "run_strategy"))],
      \* passes: names are compared within a catalogue only
      [Small EXCEPT !.ext = Append(@, Bare("runeclaw_shield", "whynot"))] }

Plain == [tool |-> "runeclaw_walkforward", inner |-> "runeclaw_run", limit |-> 2,
          auth |-> TRUE, encodable |-> TRUE]

Sign == [Plain EXCEPT !.tool = "signed", !.inner = "runeclaw_walkforward"]

MCRequests ==
    { Plain,
      [Plain EXCEPT !.tool = "runeclaw_run"],
      [Plain EXCEPT !.auth = FALSE, !.limit = 9],
      [Plain EXCEPT !.tool = "runeclaw_shield", !.limit = Text],
      [Plain EXCEPT !.limit = Infinite],
      [Plain EXCEPT !.tool = "attest_key"],
      [Plain EXCEPT !.tool = "attest_key", !.auth = FALSE],
      [Plain EXCEPT !.tool = "attest_key", !.limit = Infinite],
      [Sign EXCEPT !.limit = 9],
      [Sign EXCEPT !.inner = "runeclaw_run", !.limit = 0],
      [Sign EXCEPT !.limit = Absent, !.encodable = FALSE],
      [Sign EXCEPT !.limit = Text],
      [Sign EXCEPT !.limit = Infinite],
      [Sign EXCEPT !.limit = Shapeless],
      [Sign EXCEPT !.limit = Falsy],
      [Sign EXCEPT !.inner = "signed"],
      [Sign EXCEPT !.inner = NoTool],
      [Sign EXCEPT !.auth = FALSE] }

CallSymmetry == Permutations(Calls)
=============================================================================
