----------------------------- MODULE MCEODService -----------------------------
(***************************************************************************)
(* An instance of EODService for TLC: one equity and one index, four days  *)
(* of which the third is closed, and four edits of the administrator.      *)
(***************************************************************************)
EXTENDS EODService

Equity == [symbol |-> "600000.SH", venue |-> "SSE", asset |-> "equity",
           adjustment |-> "none"]
Index  == [symbol |-> "000300.SH", venue |-> "SSE", asset |-> "index",
           adjustment |-> "none"]

MCDatasets == <<Equity, Index>>
MCDays     == 1..4

Sessions == [id |-> "cn", version |-> "1", first |-> 1, last |-> 4,
             days |-> [d \in 1..4 |-> [date |-> d, open |-> d # 3]]]

Evidence(version, absent) ==
  [source |-> "exchange", version |-> version, dataset |-> Equity, absent |-> absent]

Files == <<"calendar">> :> Sessions @@ <<"absent", "2">> :> Evidence("1", <<2>>)
           @@ <<"absent", "none">> :> Evidence("2", <<>>)

Config(dataset, root, observation, providers) ==
  [version |-> CurrentVersion, root |-> root, calendar |-> <<"calendar">>,
   observation |-> observation, dataset |-> dataset, providers |-> providers,
   retry |-> DefaultPolicy, rate |-> DefaultPolicy]

Setup(root, observation, providers, indexEnabled) ==
  [root    |-> <<"operations">>,
   entries |-> <<[file |-> "equity", storage |-> "e", enabled |-> TRUE],
                 [file |-> "index", storage |-> "i", enabled |-> indexEnabled]>>,
   configs |-> "equity" :> Config(Equity, root, observation, providers) @@
               "index"  :> Config(Index, <<"index">>, NoPath,
                                  <<"akshare_eod_index", "akshare_eod_index_daily">>),
   files   |-> Files]

Tushare == <<"tushare_eod_equity">>
AKShare == <<"akshare_eod_equity">>

\* One absence is confirmed; the generations are moved; the chain mixes units,
\* which is refused; the absence is withdrawn; the index is disabled, and the
\* equity gets another provider, which knows of no absence.
MCSetups ==
  <<Setup(<<"a">>, <<"absent", "2">>, Tushare, TRUE),
    Setup(<<"b">>, <<"absent", "2">>, Tushare, TRUE),
    Setup(<<"b">>, <<"absent", "2">>, Tushare \o AKShare, TRUE),
    Setup(<<"b">>, <<"absent", "none">>, Tushare, TRUE),
    Setup(<<"b">>, NoPath, AKShare, FALSE)>>

Command(type, selectors, first, last, strategy, dry) ==
  [type |-> type, selectors |-> selectors, all |-> selectors = <<>>,
   range |-> DateRange(first, last),
   policy |-> [strategy |-> strategy,
               overlap |-> IF strategy = "overlap_window" THEN 1 ELSE 0],
   stop |-> TRUE, dry |-> dry, execute |-> ~dry]

MCCommands ==
  {Command("incremental_single", <<"e">>, 1, 2, "append_only", FALSE),
   Command("incremental_batch", <<>>, 1, 4, "append_only", FALSE),
   Command("incremental_batch", <<"i", "e">>, 2, 4, "append_only", TRUE),
   Command("full_refresh", <<"e">>, 1, 4, "full_refresh_required", FALSE),
   Command("incremental_single", <<"e">>, 2, 4, "overlap_window", FALSE),
   Command("maintenance", <<"i">>, 1, 1, "append_only", FALSE),
   [Command("incremental_single", <<"e">>, 1, 2, "append_only", TRUE)
      EXCEPT !.execute = TRUE]}
=============================================================================
