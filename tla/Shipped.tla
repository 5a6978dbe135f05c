------------------------------ MODULE Shipped ------------------------------
(***************************************************************************)
(* The data of this release: the tools of each file with the names of      *)
(* their parameters, the skills that may and may not be exposed, and the   *)
(* generator's table of prices.  RUNECLAW's own tools are read off the     *)
(* published manifest, their skills named after them.                      *)
(***************************************************************************)
EXTENDS Sequences, TLC

(* No shipped name contains "execute". *)
Tool(name, skill, params) ==
    [name |-> name, about |-> params, skill |-> skill, executable |-> FALSE]

ShippedBase ==
    << Tool("runeclaw_scan", "scan", <<>>),
       Tool("runeclaw_analyze", "analyze", <<"symbol">>),
       Tool("runeclaw_risk", "risk", <<>>),
       Tool("runeclaw_portfolio", "portfolio", <<>>),
       Tool("runeclaw_explain", "explain", <<"trade_id">>),
       Tool("runeclaw_macro", "macro", <<>>),
       Tool("runeclaw_shield", "shield",
            <<"symbol", "direction", "entry_price", "stop_loss", "take_profit", "confidence">>),
       Tool("runeclaw_fullscan", "fullscan", <<"mode">>),
       Tool("runeclaw_backtest", "backtest", <<"bars", "seed">>) >>

(* EXTENDED_TOOLS *)
ShippedExt ==
    << Tool("runeclaw_quant", "quant_analyze", <<"symbol", "timeframe">>),
       Tool("runeclaw_walkforward", "walk_forward", <<"bars", "seed", "folds">>),
       Tool("runeclaw_whynot", "whynot", <<"symbol">>),
       Tool("runeclaw_event_risk", "check_event_risk", <<"symbol">>),
       Tool("runeclaw_macro_brief", "macro_brief", <<>>),
       Tool("runeclaw_rejected", "rejected_trades", <<"count">>),
       Tool("runeclaw_patterns", "patterns", <<>>) >>

(* OKX_DATA_TOOLS *)
ShippedOkx ==
    << Tool("runeclaw_okx_quant", "okx_quant", <<"symbol", "timeframe", "limit">>),
       Tool("runeclaw_okx_backtest", "okx_backtest", <<"symbol", "timeframe", "limit">>) >>

(* DEX_DATA_TOOLS *)
ShippedDex ==
    << Tool("runeclaw_dex_quant", "okx_dex_quant",
            <<"chain", "token", "timeframe", "limit">>) >>

ShippedCatalogue ==
    [base |-> ShippedBase, ext |-> ShippedExt, okx |-> ShippedOkx, dex |-> ShippedDex]

(* EXECUTION_SKILLS *)
TradingSkills ==
    {"execute_paper_trade", "run_strategy", "halt", "kill_switch",
     "request_live_approval", "feedback"}

(* READONLY_ALLOWLIST *)
VettedSkills ==
    {"quant_analyze", "walk_forward", "whynot", "check_event_risk",
     "macro_brief", "rejected_trades", "patterns"}

(* OKX_SKILL_NAMES, DEX_SKILL_NAMES: the names of the skill classes. *)
OkxDataSkills == {"okx_quant", "okx_backtest"}
DexDataSkills == {"okx_dex_quant"}

(* _PER_TOOL_PRICE, in hundredths. *)
ShippedPrices ==
    [n \in {"runeclaw_shield", "runeclaw_event_risk", "runeclaw_signed"} |-> 2] @@
    [n \in {"runeclaw_fullscan", "runeclaw_backtest", "runeclaw_quant",
            "runeclaw_walkforward", "runeclaw_okx_quant", "runeclaw_okx_backtest",
            "runeclaw_dex_quant"} |-> 5]

(* _DEFAULT_PRICE *)
FlatPrice == 1

=============================================================================
