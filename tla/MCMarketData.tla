---------------------------- MODULE MCMarketData ----------------------------
(***************************************************************************)
(* Model-checking instance of MarketData: timeframes in both cases, among  *)
(* them one minute and one month, and one OKX does not know.               *)
(***************************************************************************)
EXTENDS MarketData

MCFrames == { <<"1", "m">>, <<"1", "M">>, <<"4", "h">>, <<"4", "H">>, <<"1", "w">>, <<"1", "y">> }

MCBars == { <<"1", "m">>, <<"1", "M">>, <<"4", "H">>, <<"1", "W">> }
=============================================================================
