-------------------------- MODULE IgpPolicyLemmas --------------------------
(***************************************************************************)
(* What the policy arithmetic of IgpPolicy guarantees, for every value of  *)
(* its constants.                                                          *)
(***************************************************************************)
EXTENDS IgpPolicy, TLAPS

(* Division rounds down by less than one divisor.                          *)
LEMMA DivFact ==
  ASSUME NEW n \in Nat, NEW d \in Nat \ {0}
  PROVE  /\ n \div d \in Nat
         /\ d * (n \div d) <= n
         /\ n < d * ((n \div d) + 1)
<1>1. /\ n = d * (n \div d) + (n % d)
      /\ n % d \in 0..(d - 1)
      /\ n \div d \in Int
  OBVIOUS
<1> DEFINE q == n \div d
           r == n % d
<1>2. n = d * q + r /\ r \in 0..(d - 1) /\ q \in Int
  BY <1>1
<1> HIDE DEF q, r
<1>3. d * (q + 1) = d * q + d
  BY <1>2
<1>4. q >= 0
  <2>1. SUFFICES ASSUME q <= -1 PROVE FALSE
    BY <1>2
  <2>2. d * q <= -d
    BY <1>2, <2>1
  <2> QED
    BY <1>2, <2>2
<1>5. q \in Nat /\ d * q <= n /\ n < d * (q + 1)
  BY <1>2, <1>3, <1>4
<1> QED
  BY <1>5 DEF q

(* The product that delta_bps divides is a natural.                        *)
LEMMA ChangeNat ==
  ASSUME NEW a \in Nat, NEW b \in Nat
  PROVE  AbsDiff(a, b) * BPS \in Nat
<1>1. AbsDiff(a, b) \in Nat
  BY DEF AbsDiff
<1>2. \A m, n \in Nat : m * n \in Nat
  OBVIOUS
<1> QED
  BY <1>1, <1>2, PolicyAssumption

(* delta_bps without overflow: a quotient that does not exceed the maximum *)
(* means that the change itself does not.                                  *)
LEMMA DeltaBound ==
  ASSUME NEW from \in Nat \ {0}, NEW to \in Nat,
         AbsDiff(from, to) * BPS < U128,
         DeltaBps(from, to) <= MaxBps
  PROVE  WithinMax(from, to)
<1> DEFINE n == AbsDiff(from, to) * BPS
           q == n \div from
<1>1. n \in Nat
  BY ChangeNat
<1>2. q \in Nat /\ n < from * (q + 1)
  BY <1>1, DivFact
<1>3. n % U128 = n
  BY <1>1, PolicyAssumption
<1>4. q <= MaxBps
  BY <1>3 DEF DeltaBps
<1> HIDE DEF n, q
<1>5. from * (q + 1) <= (MaxBps + 1) * from
  BY <1>2, <1>4, PolicyAssumption
<1>6. n < (MaxBps + 1) * from
  <2>1. (MaxBps + 1) * from \in Nat /\ from * (q + 1) \in Nat
    BY <1>2, PolicyAssumption
  <2> QED
    BY <1>1, <1>2, <1>5, <2>1
<1> QED
  BY <1>6 DEF WithinMax, n

(* The change of one field is measured, not guessed: the field is zero or  *)
(* the product fits, because the build stops at an overflow.               *)
Measured(from, to) ==
  \A f \in Fields : from[f] # 0 => AbsDiff(from[f], to[f]) * BPS < U128

(* delta_bps in a build with overflow checks: when the decision does not   *)
(* panic, every product it forms fits and every change is measured.        *)
LEMMA ChecksMeasure ==
  ASSUME NEW from \in IgpConfig, NEW to \in IgpConfig,
         OverflowChecks, ~DecisionPanics(from, to)
  PROVE  Measured(from, to)
<1> SUFFICES ASSUME NEW f \in Fields, from[f] # 0
             PROVE  AbsDiff(from[f], to[f]) * BPS < U128
  BY DEF Measured
<1>1. ~Overflows(from[f], to[f])
  BY DEF DecisionPanics
<1>2. from[f] \in Nat /\ to[f] \in Nat
  BY DEF IgpConfig
<1>3. AbsDiff(from[f], to[f]) * BPS \in Nat
  BY <1>2, ChangeNat
<1> QED
  BY <1>1, <1>3, PolicyAssumption DEF Overflows

(* The gate of decide_reconciliation: a recommended update changes no      *)
(* field by more than the maximum, and starts from a configuration with a  *)
(* price and a rate.                                                       *)
LEMMA RecommendedIsBounded ==
  ASSUME NEW from \in IgpConfig, NEW to \in IgpConfig,
         Measured(from, to),
         Decide(from, to) = "update_recommended"
  PROVE  /\ BoundedChange(from, to)
         /\ ~ZeroCurrent(from, to)
<1>1. ~ZeroCurrent(from, to) /\ ~ExceedsMax(from, to)
  BY DEF Decide
<1>2. ASSUME NEW f \in Fields, from[f] # 0
      PROVE  WithinMax(from[f], to[f])
  <2>1. from[f] \in Nat \ {0} /\ to[f] \in Nat
    BY <1>2 DEF IgpConfig
  <2>2. ~(DeltaBps(from[f], to[f]) > MaxBps)
    BY <1>1 DEF ExceedsMax, AllDeltas
  <2>3. DeltaBps(from[f], to[f]) \in Int
    <3>1. AbsDiff(from[f], to[f]) * BPS \in Nat
      BY <2>1, ChangeNat
    <3>2. (AbsDiff(from[f], to[f]) * BPS) % U128 \in Nat
      BY <3>1, PolicyAssumption
    <3> QED
      BY <2>1, <3>2, DivFact DEF DeltaBps
  <2>4. DeltaBps(from[f], to[f]) <= MaxBps
    BY <2>2, <2>3, PolicyAssumption
  <2>5. AbsDiff(from[f], to[f]) * BPS < U128
    BY <1>2 DEF Measured
  <2> QED
    BY <2>1, <2>4, <2>5, DeltaBound
<1> QED
  BY <1>1, <1>2 DEF BoundedChange

(* A bounded change below the whole keeps every field that is not zero     *)
(* away from zero.                                                         *)
LEMMA BoundedKeepsPositive ==
  ASSUME NEW from \in Nat \ {0}, NEW to \in Nat,
         MaxBps < BPS, WithinMax(from, to)
  PROVE  to # 0
<1> SUFFICES ASSUME to = 0 PROVE FALSE
  OBVIOUS
<1>1. from * BPS < (MaxBps + 1) * from
  BY DEF WithinMax, AbsDiff
<1>2. (MaxBps + 1) * from <= from * BPS
  BY PolicyAssumption
<1>3. from * BPS \in Int /\ (MaxBps + 1) * from \in Int
  BY PolicyAssumption
<1> QED
  BY <1>1, <1>2, <1>3

(* The threshold of decide_reconciliation: a change that was measured and  *)
(* whose quotient, rounded down, stays below the minimum is below it       *)
(* without the rounding as well.                                           *)
LEMMA BelowMin ==
  ASSUME NEW from \in Nat \ {0}, NEW to \in Nat,
         AbsDiff(from, to) * BPS < U128,
         DeltaBps(from, to) < MinBps
  PROVE  ~ReachesMin(from, to)
<1> DEFINE n == AbsDiff(from, to) * BPS
           q == n \div from
<1>1. n \in Nat
  BY ChangeNat
<1>2. n % U128 = n
  BY <1>1, PolicyAssumption
<1>3. q < MinBps
  BY <1>2 DEF DeltaBps
<1>4. q \in Nat /\ n < from * (q + 1)
  BY <1>1, DivFact
<1> HIDE DEF n, q
<1>5. q + 1 <= MinBps
  BY <1>3, <1>4, PolicyAssumption
<1>6. from * (q + 1) <= from * MinBps
  <2>1. \A a, b, c \in Nat : b <= c => a * b <= a * c
    OBVIOUS
  <2> QED
    BY <1>4, <1>5, <2>1, PolicyAssumption
<1>7. n < MinBps * from
  <2>1. from * MinBps = MinBps * from
    BY PolicyAssumption
  <2>2. from * (q + 1) \in Int /\ from * MinBps \in Int
    BY <1>4, PolicyAssumption
  <2> QED
    BY <1>1, <1>4, <1>6, <2>1, <2>2
<1> QED
  <2>1. MinBps * from \in Nat
    BY PolicyAssumption
  <2> QED
    BY <1>1, <1>7, <2>1 DEF ReachesMin, n

(* A decision that there is nothing to do: every field that is not zero on *)
(* chain is closer to its proposal than the minimum.                       *)
LEMMA NoopIsBelowMin ==
  ASSUME NEW from \in IgpConfig, NEW to \in IgpConfig,
         Measured(from, to),
         Decide(from, to) = "noop"
  PROVE  \A f \in Fields : from[f] # 0 => ~ReachesMin(from[f], to[f])
<1> SUFFICES ASSUME NEW f \in Fields, from[f] # 0
             PROVE  ~ReachesMin(from[f], to[f])
  OBVIOUS
<1>1. ~MeetsMin(from, to)
  BY DEF Decide
<1>2. from[f] \in Nat \ {0} /\ to[f] \in Nat
  BY DEF IgpConfig
<1>3. DeltaBps(from[f], to[f]) \in Nat
  <2>1. AbsDiff(from[f], to[f]) * BPS \in Nat
    BY <1>2, ChangeNat
  <2>2. (AbsDiff(from[f], to[f]) * BPS) % U128 \in Nat
    BY <2>1, PolicyAssumption
  <2> QED
    BY <1>2, <2>2, DivFact DEF DeltaBps
<1>4. ~(DeltaBps(from[f], to[f]) >= MinBps)
  BY <1>1 DEF MeetsMin, AllDeltas
<1>5. AbsDiff(from[f], to[f]) * BPS < U128
  BY DEF Measured
<1> QED
  BY <1>2, <1>3, <1>4, <1>5, BelowMin, PolicyAssumption

(* What is proposed again unchanged is never recommended, as long as the   *)
(* threshold asks for some change: a written proposal is a fixed point.    *)
LEMMA FixedPoint ==
  ASSUME NEW cfg \in IgpConfig, MinBps > 0
  PROVE  Decide(cfg, cfg) # "update_recommended"
<1>1. ASSUME NEW f \in Fields
      PROVE  DeltaBps(cfg[f], cfg[f]) \in {NoDelta, 0}
  <2>1. cfg[f] \in Nat
    BY DEF IgpConfig
  <2>2. (AbsDiff(cfg[f], cfg[f]) * BPS) % U128 = 0
    <3>1. AbsDiff(cfg[f], cfg[f]) * BPS = 0
      BY <2>1, PolicyAssumption DEF AbsDiff
    <3>2. 0 % U128 = 0
      BY PolicyAssumption
    <3> QED
      BY <3>1, <3>2
  <2>3. CASE cfg[f] = 0
    BY <2>3 DEF DeltaBps
  <2>4. CASE cfg[f] # 0
    <3>1. 0 \div cfg[f] = 0
      BY <2>1, <2>4
    <3> QED
      BY <2>2, <2>4, <3>1 DEF DeltaBps
  <2> QED
    BY <2>3, <2>4
<1>2. ~MeetsMin(cfg, cfg)
  BY <1>1, PolicyAssumption DEF MeetsMin, AllDeltas, NoDelta
<1> QED
  BY <1>2 DEF Decide

(* A clamp with min <= max yields a value between the two.                 *)
LEMMA ClampInRange ==
  ASSUME NEW value \in Int, NEW clamp \in [min : Nat, max : Nat],
         ClampValid(clamp)
  PROVE  Clamp(value, clamp) \in clamp.min..clamp.max
BY DEF Clamp, ClampValid

(* Rounding up yields a natural.                                           *)
LEMMA CeilDivNat ==
  ASSUME NEW n \in Nat, NEW d \in Nat \ {0}
  PROVE  CeilDiv(n, d) \in Nat
<1>1. n + d - 1 \in Nat
  OBVIOUS
<1> QED
  BY <1>1, DivFact DEF CeilDiv

(* A proposal is a configuration again, whatever the market shows.         *)
LEMMA ProposalType ==
  ASSUME NEW cfg \in IgpConfig, NEW h \in Nat, NEW s \in Nat,
         NEW q \in [num : Nat \ {0}, den : Nat \ {0}],
         NEW gas \in [mode : {"sample", "preserve"}, min : Nat, max : Nat],
         NEW rate \in [min : Nat, max : Nat],
         ClampsValid(gas, rate)
  PROVE  Proposal(cfg, h, s, q, gas, rate) \in IgpConfig
<1>1. cfg["gasPrice"] \in Nat
  BY DEF IgpConfig, Fields
<1>2. ProposedRate(q, rate) \in Nat
  <2>1. q.num * SafetyBps \in Nat
    BY PolicyAssumption
  <2>2. q.den * BPS \in Nat \ {0}
    <3>1. \A m, n \in Nat \ {0} : m * n \in Nat \ {0}
      OBVIOUS
    <3> QED
      BY <3>1, PolicyAssumption
  <2>3. CeilDiv(q.num * SafetyBps, q.den * BPS) \in Nat
    BY <2>1, <2>2, CeilDivNat
  <2>4. ProposedRate(q, rate) \in rate.min..rate.max
    BY <2>3, ClampInRange DEF ProposedRate, ClampsValid
  <2> QED
    BY <2>4
<1>3. ProposedGasPrice(cfg, s, gas) \in Nat
  <2>1. CASE gas.mode = "sample"
    <3>1. s * SafetyBps \in Nat
      BY PolicyAssumption
    <3>2. ApplyBps(s) \in Nat
      BY <3>1, CeilDivNat, PolicyAssumption DEF ApplyBps
    <3>3. Clamp(ApplyBps(s), gas) \in Nat
      BY <3>2 DEF Clamp
    <3> QED
      BY <2>1, <3>3 DEF ProposedGasPrice
  <2>2. CASE gas.mode # "sample"
    BY <2>2, <1>1 DEF ProposedGasPrice
  <2> QED
    BY <2>1, <2>2
<1> QED
  BY <1>1, <1>2, <1>3 DEF Proposal, IgpConfig, Fields

----------------------------------------------------------------------------
(* Values that keep clear of the end of a u128.                            *)

\* The largest product that delta_bps can form of the value fits a u128.
FitsWord(value) == value * BPS < U128

\* Prices and rates that fit, in a configuration or in the gas data of one.
PricesFit(data) == FitsWord(data["gasPrice"]) /\ FitsWord(data["tokenExchangeRate"])

\* The clamps of a target let only values through that fit.  In "preserve"
\* mode no clamp applies to the gas price.
ClampsFit(gas, rate) == FitsWord(rate.max) /\ (gas.mode = "sample" => FitsWord(gas.max))

(* What is at most a value that fits, fits.                                *)
LEMMA SmallerFits ==
  ASSUME NEW a \in Nat, NEW b \in Nat, a <= b, FitsWord(b)
  PROVE  FitsWord(a)
<1>1. \A k, m, n \in Nat : k <= m => k * n <= m * n
  OBVIOUS
<1>2. a * BPS <= b * BPS /\ a * BPS \in Int /\ b * BPS \in Int
  BY <1>1, PolicyAssumption
<1> QED
  BY <1>2, PolicyAssumption DEF FitsWord

(* A clamped value fits when the clamp does.                               *)
LEMMA ClampedFits ==
  ASSUME NEW value \in Nat, NEW clamp \in [mode : {"sample", "preserve"}, min : Nat, max : Nat]
                                          \cup [min : Nat, max : Nat],
         ClampValid(clamp), FitsWord(clamp.max)
  PROVE  FitsWord(Clamp(value, clamp))
<1>1. Clamp(value, clamp) \in Nat /\ clamp.max \in Nat /\ Clamp(value, clamp) <= clamp.max
  BY DEF Clamp, ClampValid
<1> QED
  BY <1>1, SmallerFits

(* delta_bps in a build without overflow checks: between configurations    *)
(* whose prices fit, and with the overhead preserved, every change is      *)
(* measured all the same.                                                  *)
LEMMA FittingIsMeasured ==
  ASSUME NEW from \in IgpConfig, NEW to \in IgpConfig, PricesFit(from), PricesFit(to),
         to["gasOverhead"] = from["gasOverhead"]
  PROVE  Measured(from, to)
<1>1. ASSUME NEW a \in Nat, NEW b \in Nat, FitsWord(a), FitsWord(b)
      PROVE  AbsDiff(a, b) * BPS < U128
  <2>1. AbsDiff(a, b) \in Nat /\ (AbsDiff(a, b) <= a \/ AbsDiff(a, b) <= b)
    BY DEF AbsDiff
  <2>2. FitsWord(AbsDiff(a, b))
    BY <1>1, <2>1, SmallerFits
  <2> QED
    BY <2>2 DEF FitsWord
<1>2. ASSUME NEW f \in {"gasPrice", "tokenExchangeRate"}
      PROVE  AbsDiff(from[f], to[f]) * BPS < U128
  BY <1>1 DEF PricesFit, IgpConfig, Fields
<1>3. AbsDiff(from["gasOverhead"], to["gasOverhead"]) * BPS < U128
  <2>1. AbsDiff(from["gasOverhead"], to["gasOverhead"]) = 0
    BY DEF AbsDiff, IgpConfig, Fields
  <2> QED
    BY <2>1, PolicyAssumption
<1> QED
  BY <1>2, <1>3 DEF Measured, Fields

(* What is proposed from prices that fit, through clamps that fit, fits:   *)
(* a preserved gas price because it is the one on chain.                   *)
LEMMA ProposalFits ==
  ASSUME NEW cfg \in IgpConfig, NEW h \in Nat, NEW s \in Nat,
         NEW q \in [num : Nat \ {0}, den : Nat \ {0}],
         NEW gas \in [mode : {"sample", "preserve"}, min : Nat, max : Nat],
         NEW rate \in [min : Nat, max : Nat],
         ClampsValid(gas, rate), ClampsFit(gas, rate), PricesFit(cfg)
  PROVE  PricesFit(Proposal(cfg, h, s, q, gas, rate))
<1>1. FitsWord(ProposedRate(q, rate))
  <2>1. /\ q.num * SafetyBps \in Nat /\ q.den * BPS \in Nat \ {0}
    <3>1. \A m, n \in Nat : m * n \in Nat /\ (m # 0 /\ n # 0 => m * n # 0)
      OBVIOUS
    <3> QED
      BY <3>1, PolicyAssumption
  <2>2. CeilDiv(q.num * SafetyBps, q.den * BPS) \in Nat
    BY <2>1, CeilDivNat
  <2> QED
    BY <2>2, ClampedFits DEF ProposedRate, ClampsValid, ClampsFit
<1>2. FitsWord(ProposedGasPrice(cfg, s, gas))
  <2>1. CASE gas.mode = "sample"
    <3>1. s * SafetyBps \in Nat
      BY PolicyAssumption
    <3>2. ApplyBps(s) \in Nat
      BY <3>1, CeilDivNat, PolicyAssumption DEF ApplyBps
    <3> QED
      BY <2>1, <3>2, ClampedFits DEF ProposedGasPrice, ClampsValid, ClampsFit
  <2>2. CASE gas.mode # "sample"
    BY <2>2 DEF ProposedGasPrice, PricesFit
  <2> QED
    BY <2>1, <2>2
<1> QED
  BY <1>1, <1>2 DEF Proposal, PricesFit, Fields
=============================================================================
