----------------------------- MODULE MCServices -----------------------------
(* Eight parts that do not touch one another: the simulation of a symbol, a backtest
   run, the market-hours gate, the price history, the option chains, the outcome of a
   plan, the rotation of the portfolio and the recommendation. In every behaviour one of them runs and the
   others stay as they began. *)
EXTENDS BacktestTrades, BacktestRun, MarketGate, HistoryStore, OptionChain,
        OutcomeTracking, PortfolioRotation, Recommendation, TLC

CONSTANTS app, worker, loopA, loopW, acc, tcs, sbi, infy, hdfc, wip, itc, one, two, nifty,
          bank, none

VARIABLE part

\* A part that does not run begins in one state only.
MCInit ==
    /\ part \in {"trades", "run", "gate", "history", "chains", "outcome", "rotation",
                "funnel"}
    /\ RunInit
    /\ IF part = "trades" THEN TradesInit
       ELSE /\ bar = [d \in Bars |-> CHOOSE b \in Shapes : TRUE]
            /\ signalled = 0 /\ blockedUntil = 0 /\ trades = <<>>
    /\ GateInit
    /\ part # "gate" => flag
    /\ HistoryInit /\ ChainInit /\ OutcomeInit /\ RotationInit
    /\ IF part = "funnel" THEN FunnelInit
       ELSE /\ stop = "watch" /\ lag = CHOOSE n \in Lags : TRUE
            /\ config = CHOOSE c \in Configs : TRUE
            /\ watch = NoWatch /\ reading = NoResult /\ timing = NoTiming
            /\ quality = NoQuality /\ promotion = NotPromoted
            /\ advice = "Skip" /\ allowed = "Elite" /\ replay = NoReplay

MCNext ==
    /\ UNCHANGED part
    /\ \/ part = "trades" /\ TradesNext
          /\ UNCHANGED <<runVars, gateVars, historyVars, chainVars, outcomeVars, rotationVars, funnelVars>>
       \/ part = "run" /\ RunNext
          /\ UNCHANGED <<tradeVars, gateVars, historyVars, chainVars, outcomeVars, rotationVars, funnelVars>>
       \/ part = "gate" /\ GateNext
          /\ UNCHANGED <<tradeVars, runVars, historyVars, chainVars, outcomeVars, rotationVars, funnelVars>>
       \/ part = "history" /\ HistoryNext
          /\ UNCHANGED <<tradeVars, runVars, gateVars, chainVars, outcomeVars, rotationVars, funnelVars>>
       \/ part = "chains" /\ ChainNext
          /\ UNCHANGED <<tradeVars, runVars, gateVars, historyVars, outcomeVars, rotationVars, funnelVars>>
       \/ part = "outcome" /\ OutcomeNext
          /\ UNCHANGED <<tradeVars, runVars, gateVars, historyVars, chainVars, rotationVars, funnelVars>>
       \/ part = "rotation" /\ RotationNext
          /\ UNCHANGED <<tradeVars, runVars, gateVars, historyVars, chainVars, outcomeVars, funnelVars>>
       \/ part = "funnel" /\ FunnelNext
          /\ UNCHANGED <<tradeVars, runVars, gateVars, historyVars, chainVars, outcomeVars, rotationVars>>

MCSpec ==
    MCInit /\ [][MCNext]_<<part, tradeVars, runVars, gateVars, historyVars, chainVars,
                          outcomeVars, rotationVars, funnelVars>>
-----------------------------------------------------------------------------
Bar(o, l, h, c) == [open |-> o, low |-> l, high |-> h, close |-> c]

\* One up to a target, one down to a stop, one over both, and gaps past them.
MCShapes == {Bar(4, 4, 6, 5), Bar(4, 2, 5, 4), Bar(5, 2, 7, 3), Bar(1, 1, 2, 2),
             Bar(7, 6, 7, 7)}
MCPlans == {[sl |-> 2, t1 |-> 7], [sl |-> 3, t1 |-> 6]}
MCHome == (loopA :> app @@ loopW :> worker)

\* What a render of the page sees: its weak holdings reach for the same offer, they are
\* equals, one has no score, the best offers fall, or what is left gains too little.
View(first, second, scores, offers, eligible, falling) ==
    [action |-> infy :> first @@ hdfc :> second, score |-> scores, offer |-> offers,
     eligible |-> eligible, falling |-> falling]
MCOffers == sbi :> 9 @@ wip :> 8 @@ itc :> 7
MCViews ==
    {View("EXIT", "REDUCE", infy :> 5 @@ hdfc :> 1, MCOffers, Offers, {}),
     View("REDUCE", "REDUCE", infy :> 5 @@ hdfc :> 1, MCOffers, Offers, {}),
     View("EXIT", "EXIT", infy :> 3 @@ hdfc :> 3, MCOffers, Offers, {}),
     View("EXIT", "EXIT", infy :> none @@ hdfc :> 3, MCOffers, {wip, itc}, {}),
     View("EXIT", "HOLD", infy :> 2 @@ hdfc :> 3, MCOffers, Offers, {sbi, wip}),
     View("REDUCE", "REDUCE", infy :> 6 @@ hdfc :> 3, MCOffers, Offers, {sbi})}

\* Each rung, its edge, a rung missed by one score, and the bypass's floor missed.
Scored(l, c, e) == [l |-> l, c |-> c, e |-> e]
MCPillars == {Scored(90, 80, 85), Scored(82, 75, 72), Scored(72, 62, 64), Scored(95, 60, 59),
              Scored(55, 52, 50), Scored(49, 90, 90)}
Config(bypass, hard, smc, conflict, replays) ==
    [bypass |-> bypass, hardGate |-> hard, smcGate |-> smc, conflictCaps |-> conflict,
     replayCaps |-> replays]
MCConfigs == {Config(TRUE, FALSE, TRUE, FALSE, TRUE), Config(TRUE, FALSE, FALSE, FALSE, FALSE),
              Config(TRUE, TRUE, TRUE, TRUE, FALSE), Config(FALSE, FALSE, TRUE, TRUE, TRUE)}

\* acc and tcs play the same part in the history and in the backtest run.
Alike == Permutations({acc, tcs})
=============================================================================
