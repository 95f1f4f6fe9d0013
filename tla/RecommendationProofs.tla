------------------------ MODULE RecommendationProofs ------------------------
(* For any scores, rewards, lags, settings and number of bars: what timing can do for a
   symbol, PromotionReach, and that the backtest admits what the scanner recommends,
   ReplayFollowsAdvice. *)
EXTENDS Recommendation, TLAPS

(* A touch is at most three bars old; a low is as old as the lag at least, and what
   reclaimed it came no later than Reclaim bars after it. *)
WatchInv ==
    /\ watch.bar \in Int /\ watch.bar >= FirstBar
    /\ watch.touch = Never \/ watch.touch \in 0 .. 3
    /\ watch.spring.age = Never \/ (watch.spring.age \in Int /\ watch.spring.age >= lag)
    /\ watch.spring.age = Never => watch.spring = NoSpring
    /\ watch.spring.took = Never \/ (watch.spring.took \in Int /\ watch.spring.took <= Reclaim)
    /\ lag \in Int

(* A cross is read on its own bar, a touch is dated before the history, a low that is
   fresh was known in time. *)
ReadingInv ==
    /\ reading.crossAge \in {-1, 0}
    /\ reading.touchAge \in Int /\ reading.touchAge \notin 0 .. 2
    /\ (reading.defended /\ reading.springAge \in 0 .. 3) => lag <= Reclaim + 3

TimingInv ==
    /\ timing.signals \subseteq {"spring", "volume"}
    /\ "spring" \in timing.signals => lag <= Reclaim + 3
    /\ timing.score = Points("spring", timing.signals) + Points("volume", timing.signals)

Unpromoted == stop \in {"watch", "timing", "classify", "promote"} => ~promotion.promoted

FunnelInv == WatchInv /\ ReadingInv /\ TimingInv /\ Unpromoted /\ PromotionReach

LEMMA NoSpringFields == NoSpring.age = Never /\ NoSpring.took = Never
BY DEF NoSpring

LEMMA NoWatchFields ==
    /\ NoWatch.bar = FirstBar /\ NoWatch.touch = Never /\ NoWatch.spring = NoSpring
    /\ FirstBar \in Int
BY RecommendationAssumption DEF NoWatch

LEMMA NoWatchInv ==
    ASSUME lag' \in Int, watch' = NoWatch
    PROVE  WatchInv'
<1>1. /\ watch'.bar = FirstBar /\ watch'.touch = Never /\ watch'.spring.age = Never
      /\ watch'.spring = NoSpring /\ watch'.spring.took = Never
  BY NoWatchFields, NoSpringFields
<1> QED
  BY <1>1, NoWatchFields DEF WatchInv

LEMMA InitInv == FunnelInit => FunnelInv
<1> SUFFICES ASSUME FunnelInit PROVE FunnelInv
  OBVIOUS
<1>1. lag \in Int
  BY RecommendationAssumption DEF FunnelInit
<1>2. WatchInv
  BY <1>1, NoWatchFields, NoSpringFields DEF FunnelInit, WatchInv
<1>3. ReadingInv /\ TimingInv
  BY DEF FunnelInit, ReadingInv, NoResult, TimingInv, NoTiming, Points
<1> QED
  BY <1>2, <1>3 DEF FunnelInit, FunnelInv, Unpromoted, NotPromoted, PromotionReach

-----------------------------------------------------------------------------
(* Whether known late or grown older, a low keeps its distance from the bar. *)
LEMMA SpringsInv ==
    ASSUME WatchInv, NEW s \in NewSpring \cup OlderSpring
    PROVE  /\ s.age = Never \/ (s.age \in Int /\ s.age >= lag)
           /\ s.age = Never => s = NoSpring
           /\ s.took = Never \/ (s.took \in Int /\ s.took <= Reclaim)
<1>0. Reclaim \in Int /\ Never \notin Int /\ lag \in Int
  BY RecommendationAssumption DEF WatchInv
<1>1. CASE s = NoSpring
  BY <1>1, NoSpringFields
<1>2. CASE s \in NewSpring
  <2>1. PICK t \in Sooner(lag) \cup {Never} : s = [age |-> lag, took |-> t]
    BY <1>2 DEF NewSpring
  <2>2. t = Never \/ (t \in Int /\ t <= Reclaim)
    BY <2>1, <1>0, RecommendationAssumption DEF Sooner
  <2> QED
    BY <2>1, <2>2, <1>0
<1>3. CASE s \in OlderSpring /\ s # NoSpring
  <2>1. watch.spring # NoSpring
    BY <1>3 DEF OlderSpring
  <2>2. watch.spring.age \in Int /\ watch.spring.age >= lag
    BY <2>1 DEF WatchInv
  <2> DEFINE age == watch.spring.age + 1
  <2>3. PICK t \in (IF watch.spring.took = Never /\ age <= Reclaim THEN {age} ELSE {})
                     \cup {watch.spring.took} : s = [age |-> age, took |-> t]
    BY <1>3, <2>1 DEF OlderSpring
  <2>4. age \in Int /\ age >= lag
    BY <2>2, <1>0
  <2>5. t = Never \/ (t \in Int /\ t <= Reclaim)
    BY <2>3, <2>4 DEF WatchInv
  <2>6. s.age = age /\ s.took = t
    BY <2>3
  <2> HIDE DEF age
  <2> QED
    BY <2>4, <2>5, <2>6, <1>0
<1> QED
  BY <1>1, <1>2, <1>3

LEMMA WatchBarInv == WatchInv /\ WatchBar => WatchInv'
<1> SUFFICES ASSUME WatchInv, WatchBar PROVE WatchInv'
  OBVIOUS
<1>1. PICK above \in BOOLEAN, extreme \in BOOLEAN, touches \in BOOLEAN, returns \in BOOLEAN,
           spring \in NewSpring \cup OlderSpring :
        /\ watch'.bar = watch.bar + 1
        /\ watch'.touch = IF touches THEN 0 ELSE Aged(watch.touch, 3)
        /\ watch'.spring = spring
  BY DEF WatchBar
<1>2. watch'.touch = Never \/ watch'.touch \in 0 .. 3
  BY <1>1, RecommendationAssumption DEF WatchInv, Aged
<1>3. watch'.bar \in Int /\ watch'.bar >= FirstBar
  BY <1>1, RecommendationAssumption DEF WatchInv
<1>4. lag' = lag /\ lag \in Int
  BY DEF WatchBar, WatchInv
<1> QED
  BY <1>1, <1>2, <1>3, <1>4, SpringsInv DEF WatchInv

(* What the detectors say is never fresh, but for a low. *)
LEMMA ComputeBarInv == WatchInv /\ ComputeBar => WatchInv' /\ ReadingInv'
<1> SUFFICES ASSUME WatchInv, ComputeBar PROVE WatchInv' /\ ReadingInv'
  OBVIOUS
<1>1. lag' = lag /\ lag \in Int /\ watch' = NoWatch
  BY DEF ComputeBar, WatchInv
<1>2. WatchInv'
  BY <1>1, NoWatchInv
<1>3. /\ reading'.crossAge \in {-1, 0}
      /\ reading'.defended = (watch.spring.took # Never)
      /\ reading'.springAge = SinceReclaim
      /\ reading'.touchAge = SinceTouch
  BY DEF ComputeBar
<1>4. SinceTouch \in Int /\ SinceTouch \notin 0 .. 2
  BY RecommendationAssumption DEF SinceTouch, WatchInv
<1>5. ASSUME watch.spring.took # Never, SinceReclaim \in 0 .. 3 PROVE lag <= Reclaim + 3
  <2>1. watch.spring # NoSpring
    BY <1>5, NoSpringFields
  <2>2. /\ watch.spring.age \in Int /\ watch.spring.age >= lag
        /\ watch.spring.took \in Int /\ watch.spring.took <= Reclaim
    BY <2>1, <1>5 DEF WatchInv
  <2> QED
    BY <2>2, <1>5, <1>1, RecommendationAssumption DEF SinceReclaim
<1> QED
  BY <1>1, <1>2, <1>3, <1>4, <1>5 DEF ReadingInv

(* So of the four signals two are left. *)
LEMMA CountedSignals ==
    ASSUME ReadingInv, NEW volume \in BOOLEAN
    PROVE  /\ Counted(volume) \subseteq {"spring", "volume"}
           /\ "spring" \in Counted(volume) => lag <= Reclaim + 3
<1>1. ~Recent(reading.crossAge, 3)
  BY DEF ReadingInv, Recent, AgeRead
<1>2. ~Recent(reading.touchAge, 2)
  BY DEF ReadingInv, Recent, AgeRead
<1>3. Recent(reading.springAge, 3) => reading.springAge \in 0 .. 3
  BY DEF Recent, AgeRead
<1> QED
  BY <1>1, <1>2, <1>3 DEF Counted, ReadingInv

LEMMA TimeSignalsInv == ReadingInv /\ TimeSignals => ReadingInv' /\ TimingInv'
<1> SUFFICES ASSUME ReadingInv, TimeSignals PROVE ReadingInv' /\ TimingInv'
  OBVIOUS
<1>1. PICK volume \in BOOLEAN :
        timing' = [signals |-> Counted(volume), score |-> Score(Counted(volume))]
  BY DEF TimeSignals
<1>2. ReadingInv'
  BY DEF TimeSignals, ReadingInv, NoResult
<1>3. "stoch" \notin Counted(volume) /\ "vwap" \notin Counted(volume)
  BY CountedSignals
<1>4. Score(Counted(volume)) = Points("spring", Counted(volume)) + Points("volume", Counted(volume))
  BY <1>3 DEF Score, Points
<1> QED
  BY <1>1, <1>2, <1>4, CountedSignals DEF TimingInv, TimeSignals

(* Two signals of 25 points are Execute and no more. *)
LEMMA EvaluateReach ==
    ASSUME TimingInv, NEW bypassing \in BOOLEAN, Evaluate(bypassing).promoted
    PROVE  /\ Evaluate(bypassing).tier = "Execute"
           /\ timing.signals = {"spring", "volume"}
           /\ lag <= Reclaim + 3
<1>1. timing.score \in {0, 25, 50}
  BY DEF TimingInv, Points
<1>2. timing.score >= 50 /\ Evaluate(bypassing).tier = "Execute"
  <2>1. Evaluate(bypassing) # NotPromoted
    BY DEF NotPromoted
  <2>2. ~(quality.base # "Actionable" /\ ~bypassing)
    BY <2>1 DEF Evaluate
  <2>3. ~(timing.score >= 75 /\ quality.reward >= 20)
    BY <1>1
  <2>4. CASE timing.score >= 50 /\ quality.reward >= 15
    <3>1. Evaluate(bypassing).tier = "Execute"
      BY <2>2, <2>3, <2>4 DEF Evaluate
    <3> QED
      BY <2>4, <3>1
  <2>5. CASE ~(timing.score >= 50 /\ quality.reward >= 15)
    <3>1. ~Evaluate(bypassing).promoted
      BY <2>2, <2>3, <2>5 DEF Evaluate
    <3> QED
      BY <3>1
  <2> QED
    BY <2>4, <2>5
<1>3. "spring" \in timing.signals /\ "volume" \in timing.signals
  BY <1>2 DEF TimingInv, Points
<1> QED
  BY <1>2, <1>3 DEF TimingInv

LEMMA PromoteReach == TimingInv /\ Promote => PromotionReach'
<1> SUFFICES ASSUME TimingInv, Promote, promotion'.promoted PROVE PromotionReach'
  BY DEF PromotionReach
<1>1. PICK bypassing \in BOOLEAN : promotion' = Evaluate(bypassing)
  BY DEF Promote
<1>2. lag' = lag /\ timing' = timing
  BY DEF Promote
<1> QED
  BY <1>1, <1>2, EvaluateReach DEF PromotionReach

-----------------------------------------------------------------------------
LEMMA NextInv == FunnelInv /\ [FunnelNext]_funnelVars => FunnelInv'
<1> SUFFICES ASSUME FunnelInv, [FunnelNext]_funnelVars PROVE FunnelInv'
  OBVIOUS
<1>1. CASE WatchBar
  <2>1. WatchInv'
    BY <1>1, WatchBarInv DEF FunnelInv
  <2> QED
    BY <1>1, <2>1 DEF WatchBar, FunnelInv, ReadingInv, TimingInv, Points, Unpromoted, PromotionReach
<1>2. CASE ComputeBar
  <2>1. WatchInv' /\ ReadingInv'
    BY <1>2, ComputeBarInv DEF FunnelInv
  <2> QED
    BY <1>2, <2>1 DEF ComputeBar, FunnelInv, TimingInv, Points, Unpromoted, PromotionReach
<1>3. CASE TimeSignals
  <2>1. ReadingInv' /\ TimingInv'
    BY <1>3, TimeSignalsInv DEF FunnelInv
  <2> QED
    BY <1>3, <2>1 DEF TimeSignals, FunnelInv, WatchInv, Unpromoted, PromotionReach
<1>4. CASE Classify
  BY <1>4 DEF Classify, FunnelInv, WatchInv, ReadingInv, TimingInv, Points, Unpromoted,
     PromotionReach
<1>5. CASE Promote
  <2>1. PromotionReach'
    BY <1>5, PromoteReach DEF FunnelInv
  <2> QED
    BY <1>5, <2>1 DEF Promote, FunnelInv, WatchInv, ReadingInv, TimingInv, Points, Unpromoted
<1>6. CASE Recommend \/ CapByStructure \/ Replay
  BY <1>6 DEF Recommend, CapByStructure, Replay, FunnelInv, WatchInv, ReadingInv, TimingInv,
     Points, Unpromoted, PromotionReach
<1>7. CASE UNCHANGED funnelVars
  BY <1>7 DEF funnelVars, FunnelInv, WatchInv, ReadingInv, TimingInv, Points, Unpromoted,
     PromotionReach
<1> QED
  BY <1>1, <1>2, <1>3, <1>4, <1>5, <1>6, <1>7 DEF FunnelNext

(* Timing promotes by a defended low with volume only, never to Elite, and not at all if
   pivots are known more than three bars after the last one that may reclaim them. *)
THEOREM PromotionIsLowWithVolume == FunnelSpec => []PromotionReach
<1>1. FunnelInv => PromotionReach
  BY DEF FunnelInv
<1> QED
  BY <1>1, InitInv, NextInv, PTL DEF FunnelSpec

-----------------------------------------------------------------------------
Rungs == {"Skip", "Watch", "Developing", "Actionable", "Execute", "Elite"}
Acted == {"Actionable", "Execute", "Elite"}

LEMMA RankOf ==
    ASSUME NEW n \in 1 .. 6
    PROVE  Rank(Ladder[n]) = n
<1>1. \A m \in 1 .. 6 : Ladder[m] = Ladder[n] => m = n
  BY DEF Ladder
<1>2. \E m \in 1 .. 6 : Ladder[m] = Ladder[n]
  OBVIOUS
<1> QED
  BY <1>1, <1>2 DEF Rank

LEMMA Ranks ==
    /\ Rank("Skip") = 1 /\ Rank("Watch") = 2 /\ Rank("Developing") = 3
    /\ Rank("Actionable") = 4 /\ Rank("Execute") = 5 /\ Rank("Elite") = 6
<1>1. /\ Ladder[1] = "Skip" /\ Ladder[2] = "Watch" /\ Ladder[3] = "Developing"
      /\ Ladder[4] = "Actionable" /\ Ladder[5] = "Execute" /\ Ladder[6] = "Elite"
  BY DEF Ladder
<1>2. /\ Rank(Ladder[1]) = 1 /\ Rank(Ladder[2]) = 2 /\ Rank(Ladder[3]) = 3
      /\ Rank(Ladder[4]) = 4 /\ Rank(Ladder[5]) = 5 /\ Rank(Ladder[6]) = 6
  BY RankOf
<1> QED
  BY <1>1, <1>2

(* The ladder in two halves: from Actionable on there is something to do. *)
LEMMA ActedRanks ==
    ASSUME NEW s \in Rungs, NEW t \in Rungs
    PROVE  /\ Rank(s) >= Rank("Actionable") <=> s \in Acted
           /\ Higher(s, t) \in Rungs /\ Lower(s, t) \in Rungs
           /\ Higher(s, t) \in Acted <=> (s \in Acted \/ t \in Acted)
           /\ Lower(s, t) \in Acted <=> (s \in Acted /\ t \in Acted)
BY Ranks DEF Rungs, Acted, Higher, Lower

QualityInv ==
    /\ quality.base \in {"Skip", "Watch", "Actionable"}
    /\ quality.natural \in {"Skip", "Execute", "Elite"}
    /\ quality.led \in BOOLEAN /\ allowed \in Rungs /\ advice \in Rungs
    /\ config.bypass \in BOOLEAN

(* What the bypass of the one funnel promotes, the bypass of the other admits. *)
PromotedInv ==
    /\ quality.base # "Actionable" => (promotion.promoted <=> ReplayBypass)
    /\ promotion.promoted => promotion.tier \in {"Execute", "Elite"}

AgreementInv ==
    /\ QualityInv
    /\ stop \in {"recommend", "structure", "replay", "done"} => PromotedInv
    /\ (stop = "structure" /\ ~config.hardGate)
          => (advice \in Acted <=> Qualified \/ ReplayBypass)
    /\ (stop = "replay" /\ ~config.hardGate)
          => (advice \in Acted <=> /\ Qualified \/ ReplayBypass
                                   /\ config.smcGate => allowed \in Acted)
    /\ ReplayFollowsAdvice

LEMMA AgreementInit == FunnelInit => AgreementInv
BY RecommendationAssumption DEF FunnelInit, AgreementInv, QualityInv, NoQuality, Rungs,
   ReplayFollowsAdvice

LEMMA EvaluateTier ==
    ASSUME NEW bypassing \in BOOLEAN
    PROVE  /\ Evaluate(bypassing).promoted \in BOOLEAN
           /\ Evaluate(bypassing).promoted => Evaluate(bypassing).tier \in {"Execute", "Elite"}
<1>1. CASE quality.base # "Actionable" /\ ~bypassing
  <2>1. Evaluate(bypassing) = NotPromoted
    BY <1>1 DEF Evaluate
  <2> QED
    BY <2>1 DEF NotPromoted
<1>2. CASE ~(quality.base # "Actionable" /\ ~bypassing)
  <2>1. CASE timing.score >= 75 /\ quality.reward >= 20
    BY <1>2, <2>1 DEF Evaluate
  <2>2. CASE ~(timing.score >= 75 /\ quality.reward >= 20) /\ timing.score >= 50 /\ quality.reward >= 15
    BY <1>2, <2>2 DEF Evaluate
  <2>3. CASE ~(timing.score >= 75 /\ quality.reward >= 20) /\ ~(timing.score >= 50 /\ quality.reward >= 15)
    BY <1>2, <2>3 DEF Evaluate
  <2> QED
    BY <2>1, <2>2, <2>3
<1> QED
  BY <1>1, <1>2

(* Off Actionable only the bypass promotes. *)
LEMMA PromoteAgrees == QualityInv /\ Promote => PromotedInv'
<1> SUFFICES ASSUME QualityInv, Promote PROVE PromotedInv'
  OBVIOUS
<1>1. UNCHANGED <<quality, timing, config>>
  BY DEF Promote
<1>2. Evaluate(TRUE)' = Evaluate(TRUE)
  BY <1>1 DEF Evaluate, NotPromoted
<1>3. ReplayBypass' = ReplayBypass
  BY <1>1, <1>2 DEF ReplayBypass
<1>4. promotion' = Evaluate(TRUE) \/ promotion' = Evaluate(FALSE)
  BY DEF Promote
<1>5. promotion'.promoted => promotion'.tier \in {"Execute", "Elite"}
  BY <1>4, EvaluateTier
<1>6. ASSUME quality.base # "Actionable" PROVE promotion'.promoted <=> ReplayBypass
  <2>1. Evaluate(FALSE) = NotPromoted
    BY <1>6 DEF Evaluate
  <2>2. Evaluate(TRUE).promoted => Evaluate(TRUE).bypassed
    BY <1>6 DEF Evaluate
  <2>3. CASE BypassAllowed /\ Evaluate(TRUE).bypassed /\ Evaluate(TRUE).promoted
    <3>1. promotion' = Evaluate(TRUE)
      BY <2>3 DEF Promote
    <3> QED
      BY <2>3, <3>1 DEF BypassAllowed, ReplayBypass
  <2>4. CASE ~(BypassAllowed /\ Evaluate(TRUE).bypassed /\ Evaluate(TRUE).promoted)
    <3>1. promotion' = NotPromoted
      BY <2>1, <2>4 DEF Promote
    <3> QED
      BY <2>2, <2>4, <3>1 DEF NotPromoted, BypassAllowed, ReplayBypass
  <2> QED
    BY <2>3, <2>4
<1> QED
  BY <1>1, <1>3, <1>5, <1>6 DEF PromotedInv

(* The maximum acts if one of its parts does. *)
LEMMA RecommendAgrees ==
    ASSUME QualityInv, PromotedInv, Recommend
    PROVE  /\ advice' \in Rungs
           /\ ~config.hardGate => (advice' \in Acted <=> Qualified \/ ReplayBypass)
<1>1. PICK failure \in {"none", "hard_stop", "AVOID", "EXTENDED"} :
        advice' = Higher(Gated(failure), Higher(quality.natural, PromotedTo))
  BY DEF Recommend
<1>2. Gated(failure) \in Rungs
  BY DEF Gated, QualityInv, Rungs
<1>3. PromotedTo \in Rungs /\ (PromotedTo \in Acted <=> promotion.promoted)
  BY DEF PromotedInv, PromotedTo, Rungs, Acted
<1>4. quality.natural \in Rungs
      /\ (quality.natural \in Acted <=> quality.natural \in {"Execute", "Elite"})
  BY DEF QualityInv, Rungs, Acted
<1>5. /\ Higher(quality.natural, PromotedTo) \in Rungs
      /\ Higher(quality.natural, PromotedTo) \in Acted
           <=> (quality.natural \in Acted \/ PromotedTo \in Acted)
  BY <1>3, <1>4, ActedRanks
<1>6. /\ advice' \in Rungs
      /\ advice' \in Acted <=> \/ Gated(failure) \in Acted
                               \/ Higher(quality.natural, PromotedTo) \in Acted
  BY <1>1, <1>2, <1>5, ActedRanks
<1>7. ~config.hardGate => (Gated(failure) \in Acted <=> quality.base = "Actionable")
  BY DEF Gated, QualityInv, Acted
<1> QED
  BY <1>3, <1>4, <1>5, <1>6, <1>7 DEF Qualified, PromotedInv

LEMMA CapAgrees ==
    ASSUME QualityInv, CapByStructure
    PROVE  /\ allowed' \in Rungs /\ advice' \in Rungs
           /\ advice' \in Acted <=> advice \in Acted /\ (config.smcGate => allowed' \in Acted)
<1>1. allowed' \in Rungs
  BY DEF CapByStructure, StructureCap, Rungs
<1>2. advice \in Rungs
  BY DEF QualityInv
<1> QED
  BY <1>1, <1>2, ActedRanks DEF CapByStructure

LEMMA ReplayTiers ==
    ASSUME QualityInv, PromotedInv, Admitted
    PROVE  ReplayTier \in Acted
<1>1. CASE ~Qualified
  <2>1. Evaluate(TRUE).promoted
    BY <1>1 DEF Admitted, ReplayBypass
  <2> QED
    BY <1>1, <2>1, EvaluateTier DEF ReplayTier, Acted
<1>2. CASE Qualified
  BY <1>2 DEF Qualified, ReplayTier, Acted
<1> QED
  BY <1>1, <1>2

LEMMA ReplayAgrees == AgreementInv /\ Replay => ReplayFollowsAdvice'
<1> SUFFICES ASSUME AgreementInv, Replay, ~config.hardGate, config.smcGate = config.replayCaps
             PROVE  replay'.admitted <=> /\ replay'.fit
                                         /\ Rank(advice) >= Rank("Actionable")
                                         /\ Qualified => quality.reward >= 20
  BY DEF Replay, ReplayFollowsAdvice, Qualified
<1>1. PICK fit \in BOOLEAN :
        replay' = [fit |-> fit, admitted |-> fit /\ Admitted /\ StillActionable]
  BY DEF Replay
<1>2. QualityInv /\ PromotedInv
  BY DEF AgreementInv, Replay
<1>3. advice \in Acted <=> /\ Qualified \/ ReplayBypass
                           /\ config.smcGate => allowed \in Acted
  BY DEF AgreementInv, Replay
<1>4. Rank(advice) >= Rank("Actionable") <=> advice \in Acted
  BY <1>2, ActedRanks DEF QualityInv
<1>5. ASSUME Admitted
      PROVE  StillActionable <=> (config.replayCaps => allowed \in Acted)
  <2>1. ReplayTier \in Acted /\ ReplayTier \in Rungs
    BY <1>2, <1>5, ReplayTiers DEF Acted, Rungs
  <2>2. allowed \in Rungs
    BY <1>2 DEF QualityInv
  <2>3. /\ Lower(ReplayTier, allowed) \in Rungs
        /\ Lower(ReplayTier, allowed) \in Acted <=> allowed \in Acted
    BY <2>1, <2>2, ActedRanks
  <2>4. Rank(Lower(ReplayTier, allowed)) >= Rank("Actionable")
          <=> Lower(ReplayTier, allowed) \in Acted
    BY <2>3, ActedRanks
  <2> QED
    BY <2>3, <2>4 DEF StillActionable
<1>6. Admitted <=> /\ Qualified \/ ReplayBypass
                   /\ Qualified => quality.reward >= 20
  BY DEF Admitted
<1> QED
  BY <1>1, <1>3, <1>4, <1>5, <1>6

(* The terms of the agreement read the quality, the timing and the settings only. *)
LEMMA SameTerms ==
    ASSUME UNCHANGED <<quality, timing, config>>
    PROVE  UNCHANGED <<Qualified, ReplayBypass>>
<1>1. Evaluate(TRUE)' = Evaluate(TRUE)
  BY DEF Evaluate, NotPromoted
<1> QED
  BY <1>1 DEF Qualified, ReplayBypass

LEMMA PromotedStays ==
    ASSUME PromotedInv, UNCHANGED <<quality, timing, config, promotion>>
    PROVE  PromotedInv'
BY SameTerms DEF PromotedInv

LEMMA BaseTiers ==
    ASSUME NEW p
    PROVE  /\ BaseTier(p) \in {"Skip", "Watch", "Actionable"}
           /\ NaturalClass(p) \in {"Skip", "Execute", "Elite"}
<1>1. BaseTier(p) \in {"Skip", "Watch", "Actionable"}
  <2> DEFINE a == Passes(p, 70, 60, 60, 198)
             w == Passes(p, 50, 50, 50, 0)
  <2>1. BaseTier(p) = CASE a -> "Actionable" [] ~a /\ w -> "Watch" [] OTHER -> "Skip"
    BY DEF BaseTier
  <2> HIDE DEF a, w
  <2> QED
    BY <2>1
<1>2. NaturalClass(p) \in {"Skip", "Execute", "Elite"}
  <2> DEFINE a == Passes(p, 85, 75, 80, 246)
             w == Passes(p, 80, 70, 70, 228)
  <2>1. NaturalClass(p) = CASE a -> "Elite" [] ~a /\ w -> "Execute" [] OTHER -> "Skip"
    BY DEF NaturalClass
  <2> HIDE DEF a, w
  <2> QED
    BY <2>1
<1> QED
  BY <1>1, <1>2

LEMMA ClassifyTypes == QualityInv /\ Classify => QualityInv'
<1> SUFFICES ASSUME QualityInv, Classify PROVE QualityInv'
  OBVIOUS
<1>1. PICK p \in Pillars, reward \in Rewards :
        quality' = [base |-> BaseTier(p), natural |-> NaturalClass(p),
                    led |-> p.l >= 50, reward |-> reward]
  BY DEF Classify
<1>2. (p.l >= 50) \in BOOLEAN
  OBVIOUS
<1>3. /\ quality'.base = BaseTier(p) /\ quality'.natural = NaturalClass(p)
      /\ quality'.led \in BOOLEAN
  BY <1>1, <1>2
<1>4. UNCHANGED <<allowed, advice, config>>
  BY DEF Classify
<1> QED
  BY <1>3, <1>4, BaseTiers DEF QualityInv

LEMMA AgreementNext == AgreementInv /\ [FunnelNext]_funnelVars => AgreementInv'
<1> SUFFICES ASSUME AgreementInv, [FunnelNext]_funnelVars PROVE AgreementInv'
  OBVIOUS
<1>1. CASE WatchBar \/ ComputeBar \/ TimeSignals
  BY <1>1 DEF WatchBar, ComputeBar, TimeSignals, AgreementInv, QualityInv, ReplayFollowsAdvice
<1>2. CASE Classify
  <2>1. QualityInv' /\ stop' = "promote"
    BY <1>2, ClassifyTypes DEF AgreementInv, Classify
  <2> QED
    BY <2>1 DEF AgreementInv, ReplayFollowsAdvice
<1>3. CASE Promote
  <2>1. PromotedInv' /\ stop' = "recommend"
    BY <1>3, PromoteAgrees DEF AgreementInv, Promote
  <2>2. QualityInv'
    BY <1>3 DEF AgreementInv, QualityInv, Promote
  <2> QED
    BY <2>1, <2>2 DEF AgreementInv, ReplayFollowsAdvice
<1>4. CASE Recommend
  <2>1. UNCHANGED <<quality, timing, config, promotion, allowed>> /\ stop' = "structure"
    BY <1>4 DEF Recommend
  <2>2. QualityInv /\ PromotedInv
    BY <1>4 DEF AgreementInv, Recommend
  <2>3. /\ advice' \in Rungs
        /\ ~config.hardGate => (advice' \in Acted <=> Qualified \/ ReplayBypass)
    BY <1>4, <2>2, RecommendAgrees
  <2>4. QualityInv'
    BY <2>1, <2>2, <2>3 DEF QualityInv
  <2>5. PromotedInv' /\ UNCHANGED <<Qualified, ReplayBypass>>
    BY <2>1, <2>2, PromotedStays, SameTerms
  <2> QED
    BY <2>1, <2>3, <2>4, <2>5 DEF AgreementInv, ReplayFollowsAdvice
<1>5. CASE CapByStructure
  <2>1. UNCHANGED <<quality, timing, config, promotion>> /\ stop' = "replay"
    BY <1>5 DEF CapByStructure
  <2>2. /\ QualityInv /\ PromotedInv
        /\ ~config.hardGate => (advice \in Acted <=> Qualified \/ ReplayBypass)
    BY <1>5 DEF AgreementInv, CapByStructure
  <2>3. /\ allowed' \in Rungs /\ advice' \in Rungs
        /\ advice' \in Acted <=> advice \in Acted /\ (config.smcGate => allowed' \in Acted)
    BY <1>5, <2>2, CapAgrees
  <2>4. QualityInv'
    BY <2>1, <2>2, <2>3 DEF QualityInv
  <2>5. PromotedInv' /\ UNCHANGED <<Qualified, ReplayBypass>>
    BY <2>1, <2>2, PromotedStays, SameTerms
  <2> QED
    BY <2>1, <2>2, <2>3, <2>4, <2>5 DEF AgreementInv, ReplayFollowsAdvice
<1>6. CASE Replay
  <2>1. UNCHANGED <<quality, timing, config, promotion, allowed, advice>> /\ stop' = "done"
    BY <1>6 DEF Replay
  <2>2. QualityInv /\ PromotedInv
    BY <1>6 DEF AgreementInv, Replay
  <2>3. QualityInv' /\ PromotedInv'
    BY <2>1, <2>2, PromotedStays DEF QualityInv
  <2> QED
    BY <1>6, <2>1, <2>3, ReplayAgrees DEF AgreementInv
<1>7. CASE UNCHANGED funnelVars
  <2>1. /\ UNCHANGED <<stop, quality, timing, config, promotion, allowed, advice, replay>>
    BY <1>7 DEF funnelVars
  <2>2. UNCHANGED <<Qualified, ReplayBypass>> /\ (PromotedInv => PromotedInv')
    BY <2>1, SameTerms, PromotedStays
  <2>3. QualityInv'
    BY <2>1 DEF AgreementInv, QualityInv
  <2>4. ReplayFollowsAdvice'
    BY <2>1, <2>2 DEF AgreementInv, ReplayFollowsAdvice
  <2> QED
    BY <2>1, <2>2, <2>3, <2>4 DEF AgreementInv
<1> QED
  BY <1>1, <1>2, <1>3, <1>4, <1>5, <1>6, <1>7 DEF FunnelNext

(* For any scores, rewards, lags and settings: under the same settings and without the
   opt-in gate, the backtest admits a fit bar exactly if the scanner's advice for it is
   Actionable or better, up to the backtest's own demand on the reward. *)
THEOREM ReplayAdmitsTheAdvised == FunnelSpec => []ReplayFollowsAdvice
<1>1. AgreementInv => ReplayFollowsAdvice
  BY DEF AgreementInv
<1> QED
  BY <1>1, AgreementInit, AgreementNext, PTL DEF FunnelSpec

=============================================================================
