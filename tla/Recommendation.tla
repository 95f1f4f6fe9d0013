---------------------------- MODULE Recommendation ----------------------------
(***************************************************************************)
(* What the scanner recommends for a symbol, and whether the backtest      *)
(* would have taken it on the same bar: score_stock (src/utils/            *)
(* scanner_engine.py) and generate_signals (src/utils/backtest_engine.py), *)
(* which implement one funnel twice.                                       *)
(*                                                                         *)
(* The detectors watch the bars; compute_bar freezes what they say; the    *)
(* three scores give a base tier and a natural class; the promotion adds   *)
(* timing; two structural gates take away.  Ages are in bars, rewards over *)
(* risk in tenths.  What no later step reads is dropped.                   *)
(***************************************************************************)
EXTENDS Integers

CONSTANTS
    Pillars,    \* the scores a bar may get: leadership, conviction, entry quality
    Rewards,    \* rewards over risk of the traded geometry
    Lags,       \* values of pvt_lb, the bars after which a pivot is known
    Takes,      \* bars from a lower low to the close that reclaims it
    Reclaim,    \* LL_MAX_BARS_TO_RECLAIM
    FirstBar,   \* index of the first bar watched
    WatchedBars, \* bound: bars watched
    Configs,    \* the settings: bypass, hardGate, smcGate, conflictCaps, replayCaps
    Never       \* not within the window

ASSUME RecommendationAssumption ==
    /\ Pillars \subseteq [l : 0 .. 100, c : 0 .. 100, e : 0 .. 100]
    /\ Rewards \subseteq Nat /\ Lags \subseteq Nat \ {0}
    /\ Reclaim \in Nat /\ Takes \subseteq 0 .. Reclaim
    /\ FirstBar \in Nat /\ FirstBar >= 20 /\ WatchedBars \in Nat
    /\ Configs \subseteq [bypass : BOOLEAN, hardGate : BOOLEAN, smcGate : BOOLEAN,
                          conflictCaps : BOOLEAN, replayCaps : BOOLEAN]
    /\ Never \notin Int

VARIABLES
    stop,       \* the next step of the funnel
    lag,        \* pvt_lb
    config,     \* the settings, those of the scan and of the backtest
    watch,      \* what the detectors know of the bars so far
    reading,     \* the BarResult
    timing,     \* the timing signals that count, and their score
    quality,    \* base tier, natural class, leadership at the floor, reward
    promotion,  \* the PromotionResult
    advice,     \* the Recommendation
    allowed,    \* the tier the structure of the bar allows
    replay      \* the backtest's verdict

funnelVars == <<stop, lag, config, watch, reading, timing, quality, promotion,
                advice, allowed, replay>>
-----------------------------------------------------------------------------
Ladder == <<"Skip", "Watch", "Developing", "Actionable", "Execute", "Elite">>
Rank(tier) == CHOOSE n \in 1 .. 6 : Ladder[n] = tier
Higher(s, t) == IF Rank(s) >= Rank(t) THEN s ELSE t
Lower(s, t) == IF Rank(s) >= Rank(t) THEN t ELSE s

NoResult == [crossed |-> FALSE, crossAge |-> -1, overbought |-> FALSE,
             defended |-> FALSE, springAge |-> -1, reclaimed |-> FALSE,
             touchAge |-> -1, confluent |-> FALSE]
NoTiming == [signals |-> {}, score |-> 0]
NoQuality == [base |-> "Skip", natural |-> "Skip", led |-> FALSE, reward |-> 0]
NotPromoted == [promoted |-> FALSE, bypassed |-> FALSE, tier |-> "Actionable"]
NoReplay == [fit |-> FALSE, admitted |-> FALSE]

\* Watched: the bar, %K above %D, today's cross, and the ages of the last cross up and of
\* the last touch of the VWAP; the close is above it again; the lower low.
NoSpring == [age |-> Never, took |-> Never]
NoWatch == [bar |-> FirstBar, above |-> FALSE, cross |-> "", crossUp |-> Never,
            touch |-> Never, returned |-> FALSE, spring |-> NoSpring]

FunnelInit ==
    /\ stop = "watch" /\ lag \in Lags /\ config \in Configs
    /\ watch = NoWatch /\ reading = NoResult /\ timing = NoTiming
    /\ quality = NoQuality /\ promotion = NotPromoted
    /\ advice = "Skip" /\ allowed = "Elite" /\ replay = NoReplay
-----------------------------------------------------------------------------
Aged(age, window) ==
    IF age = Never \/ age = window THEN Never ELSE age + 1

(* A cross counts if both lines are low (up) or high (down) on its bar. *)
Cross(above, extreme) ==
    CASE extreme /\ above /\ ~watch.above -> "up"
      [] extreme /\ ~above /\ watch.above -> "down"
      [] OTHER -> ""

(* The pivots are those of a window centered on them: a low is known lag
   bars after it was printed, reclaimed by then or later, in time or not. *)
Sooner(known) == {t \in Takes : t <= known}
NewSpring == {[age |-> lag, took |-> t] : t \in Sooner(lag) \cup {Never}}
OlderSpring ==
    IF watch.spring = NoSpring THEN {NoSpring}
    ELSE LET age == watch.spring.age + 1
             late == IF watch.spring.took = Never /\ age <= Reclaim
                     THEN {age} ELSE {}
         IN  {NoSpring} \cup {[age |-> age, took |-> t] : t \in late \cup {watch.spring.took}}

(* Another bar.  The close is above the VWAP again if it is also above the
   close of the bar that touched it, which that bar itself is not. *)
WatchBar ==
    /\ stop = "watch" /\ watch.bar < FirstBar + WatchedBars
    /\ \E above, extreme, touches, returns \in BOOLEAN,
          spring \in NewSpring \cup OlderSpring :
         LET touch == IF touches THEN 0 ELSE Aged(watch.touch, 3)
         IN  watch' = [bar |-> watch.bar + 1, above |-> above,
                       cross |-> Cross(above, extreme),
                       crossUp |-> IF above /\ ~watch.above THEN 0
                                   ELSE Aged(watch.crossUp, 4),
                       touch |-> touch,
                       returned |-> returns /\ touch # Never /\ touch # 0,
                       spring |-> spring]
    /\ UNCHANGED <<stop, lag, config, reading, timing, quality, promotion,
                   advice, allowed, replay>>

Near(a, b) == a # Never /\ b # Never /\ a - b \in -2 .. 2
SinceTouch == IF watch.touch = Never THEN -1 ELSE watch.bar - watch.touch
SinceReclaim ==
    IF watch.spring.took = Never THEN -1 ELSE watch.spring.age - watch.spring.took

(* compute_bar: the detectors' answers as fields of the BarResult. *)
ComputeBar ==
    /\ stop = "watch" /\ watch.bar > FirstBar
    /\ reading' = [crossed |-> watch.cross # "",
                  crossAge |-> IF watch.cross # "" THEN 0 ELSE -1,
                  overbought |-> watch.cross = "down",
                  defended |-> watch.spring.took # Never,
                  springAge |-> SinceReclaim,
                  reclaimed |-> watch.returned,
                  touchAge |-> SinceTouch,
                  confluent |-> Near(watch.crossUp, watch.touch)]
    /\ watch' = NoWatch
    /\ stop' = "timing"
    /\ UNCHANGED <<lag, config, timing, quality, promotion, advice, allowed, replay>>
-----------------------------------------------------------------------------
(* Fault: an age of no bars is read as it is. *)
AgeItself(age) == age

(* int(getattr(r, age, -1) or -1), in which 0 is false. *)
AgeRead(age) == IF age = 0 THEN -1 ELSE age
Recent(age, window) == AgeRead(age) \in 0 .. window

Counted(volume) ==
    {s \in {"stoch", "spring", "vwap", "volume"} :
        CASE s = "stoch" -> reading.crossed /\ Recent(reading.crossAge, 3) /\ ~reading.overbought
          [] s = "spring" -> reading.defended /\ Recent(reading.springAge, 3)
          [] s = "vwap" -> reading.reclaimed /\ Recent(reading.touchAge, 2)
          [] s = "volume" -> volume}

(* 25 points each; a cross and a touch that are one event count 30 together. *)
Points(s, signals) == IF s \in signals THEN 25 ELSE 0
Score(signals) ==
    Points("spring", signals) + Points("volume", signals)
    + IF {"stoch", "vwap"} \subseteq signals /\ reading.confluent THEN 30
      ELSE Points("stoch", signals) + Points("vwap", signals)

(* The signals of evaluate_promotion, the same in each of its calls. *)
TimeSignals ==
    /\ stop = "timing"
    /\ \E volume \in BOOLEAN :
         timing' = [signals |-> Counted(volume), score |-> Score(Counted(volume))]
    /\ reading' = NoResult
    /\ stop' = "classify"
    /\ UNCHANGED <<lag, config, watch, quality, promotion, advice, allowed, replay>>
-----------------------------------------------------------------------------
(* v4_tier_passes with the default thresholds: floors, and three times the
   composite's minimum. *)
Passes(p, floorL, floorC, floorE, total) ==
    /\ p.l >= floorL /\ p.c >= floorC /\ p.e >= floorE
    /\ p.l + p.c + p.e >= total

BaseTier(p) ==
    CASE Passes(p, 70, 60, 60, 198) -> "Actionable"
      [] ~Passes(p, 70, 60, 60, 198) /\ Passes(p, 50, 50, 50, 0) -> "Watch"
      [] OTHER -> "Skip"
NaturalClass(p) ==
    CASE Passes(p, 85, 75, 80, 246) -> "Elite"
      [] ~Passes(p, 85, 75, 80, 246) /\ Passes(p, 80, 70, 70, 228) -> "Execute"
      [] OTHER -> "Skip"

Classify ==
    /\ stop = "classify"
    /\ \E p \in Pillars, reward \in Rewards :
         quality' = [base |-> BaseTier(p), natural |-> NaturalClass(p),
                     led |-> p.l >= 50, reward |-> reward]
    /\ stop' = "promote"
    /\ UNCHANGED <<lag, config, watch, reading, timing, promotion, advice, allowed, replay>>

(* evaluate_promotion, for the tier the base funnel gave. *)
Evaluate(bypassing) ==
    IF quality.base # "Actionable" /\ ~bypassing THEN NotPromoted
    ELSE LET verdict(tier) == [promoted |-> tier # "Actionable",
                               bypassed |-> quality.base # "Actionable",
                               tier |-> tier]
         IN  CASE timing.score >= 75 /\ quality.reward >= 20 -> verdict("Elite")
               [] ~(timing.score >= 75 /\ quality.reward >= 20)
                  /\ timing.score >= 50 /\ quality.reward >= 15 -> verdict("Execute")
               [] OTHER -> verdict("Actionable")

(* promo_bypass_allowed; a bypass that promotes, else the ordinary call. *)
BypassAllowed == config.bypass /\ quality.led
Promote ==
    /\ stop = "promote"
    /\ LET bypass == Evaluate(TRUE)
       IN  promotion' = IF BypassAllowed /\ bypass.bypassed /\ bypass.promoted
                        THEN bypass ELSE Evaluate(FALSE)
    /\ stop' = "recommend"
    /\ UNCHANGED <<lag, config, watch, reading, timing, quality, advice, allowed, replay>>

(* ENABLE_STRUCTURAL_GATE lowers the base tier before the maximum is taken of
   the tier, the natural class and the promotion, which may raise it again. *)
Gated(failure) ==
    CASE config.hardGate /\ quality.base = "Actionable" /\ failure = "hard_stop" -> "Skip"
      [] config.hardGate /\ quality.base = "Actionable"
         /\ failure \in {"AVOID", "EXTENDED"} -> "Watch"
      [] OTHER -> quality.base
PromotedTo == IF promotion.promoted THEN promotion.tier ELSE "Skip"

Recommend ==
    /\ stop = "recommend"
    /\ \E failure \in {"none", "hard_stop", "AVOID", "EXTENDED"} :
         advice' = Higher(Gated(failure), Higher(quality.natural, PromotedTo))
    /\ stop' = "structure"
    /\ UNCHANGED <<lag, config, watch, reading, timing, quality, promotion, allowed, replay>>

(* classify_structural_state and the cap of each state; a classifier that
   raises caps nothing. *)
StructureCap(mitigated, smc, agrees, zone) ==
    CASE mitigated -> "Skip"
      [] ~mitigated /\ smc = "CONFLICT" -> IF config.conflictCaps THEN "Watch" ELSE "Elite"
      [] ~mitigated /\ smc \in {"evidence", "WAITING_RETEST"} /\ ~agrees -> "Watch"
      [] ~mitigated /\ smc \in {"evidence", "WAITING_RETEST"} /\ agrees
         /\ zone = "through_filled" -> "Watch"
      [] ~mitigated /\ smc = "WAITING_RETEST" /\ agrees /\ zone = "outside" -> "Developing"
      [] OTHER -> "Elite"

CapByStructure ==
    /\ stop = "structure"
    /\ \/ \E mitigated, agrees \in BOOLEAN,
             smc \in {"none", "CONFLICT", "evidence", "WAITING_RETEST"},
             zone \in {"outside", "in_zone", "through_filled"} :
            allowed' = StructureCap(mitigated, smc, agrees, zone)
       \/ allowed' = "Elite"
    /\ advice' = IF config.smcGate THEN Lower(advice, allowed') ELSE advice
    /\ stop' = "replay"
    /\ UNCHANGED <<lag, config, watch, reading, timing, quality, promotion, replay>>
-----------------------------------------------------------------------------
(* Fault: the backtest's bypass has no floor. *)
ReplayWithoutFloor == config.bypass /\ Evaluate(TRUE).promoted

(* generate_signals on the same bar, if no filter has dropped it.  fit: not
   extended and not stale.  The bypass admits only what the tiers rejected;
   a reward that is too small is final. *)
Qualified == quality.base = "Actionable" \/ quality.natural \in {"Execute", "Elite"}
ReplayBypass == config.bypass /\ quality.led /\ Evaluate(TRUE).promoted
Admitted == IF Qualified THEN quality.reward >= 20 ELSE ReplayBypass
ReplayTier ==
    CASE ~Qualified -> Evaluate(TRUE).tier
      [] Qualified /\ quality.base = "Actionable" -> "Actionable"
      [] OTHER -> quality.natural
StillActionable ==
    config.replayCaps => Rank(Lower(ReplayTier, allowed)) >= Rank("Actionable")

Replay ==
    /\ stop = "replay"
    /\ \E fit \in BOOLEAN :
         replay' = [fit |-> fit, admitted |-> fit /\ Admitted /\ StillActionable]
    /\ stop' = "done"
    /\ UNCHANGED <<lag, config, watch, reading, timing, quality, promotion, advice, allowed>>

FunnelNext ==
    \/ WatchBar \/ ComputeBar \/ TimeSignals \/ Classify \/ Promote \/ Recommend
    \/ CapByStructure \/ Replay

FunnelSpec == FunnelInit /\ [][FunnelNext]_funnelVars
-----------------------------------------------------------------------------
(* What timing can do: of its four signals a cross is read as none on the one
   bar it is reported on, the age of a touch is counted from the first bar of
   the history, and a low is known lag bars late.  So only a defended low with
   volume promotes, never to Elite, and none does at the default lag of 20. *)
PromotionReach ==
    promotion.promoted =>
        /\ promotion.tier = "Execute"
        /\ timing.signals = {"spring", "volume"}
        /\ lag <= Reclaim + 3

(* The backtest validates what the scanner recommends: under the same settings
   and with the opt-in gate off, it takes a fit bar exactly if the scanner's
   advice is Actionable or better, up to its own demand on the reward. *)
ReplayFollowsAdvice ==
    (stop = "done" /\ ~config.hardGate /\ config.smcGate = config.replayCaps) =>
        (replay.admitted <=> /\ replay.fit
                             /\ Rank(advice) >= Rank("Actionable")
                             /\ Qualified => quality.reward >= 20)
=============================================================================
