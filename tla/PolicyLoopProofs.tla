-------------------------- MODULE PolicyLoopProofs --------------------------
(***************************************************************************)
(* The safety of the policy loop, for every policy, market and clamp.      *)
(***************************************************************************)
EXTENDS PolicyLoop, IgpPolicyLemmas

(* What a run proposes is a configuration again.                           *)
LEMMA ProposedType ==
  ASSUME TypeOK, ClampsValid(Gas, Rate)
  PROVE  Proposed \in IgpConfig
<1>1. current["gasOverhead"] \in Nat
  BY DEF TypeOK, IgpConfig, Fields
<1>2. sample \in Nat /\ quote \in [num : Nat \ {0}, den : Nat \ {0}]
  BY LoopAssumption DEF TypeOK
<1>3. current \in IgpConfig
  BY DEF TypeOK
<1> QED
  BY <1>1, <1>2, <1>3, ProposalType, LoopAssumption DEF Proposed

(* And its prices fit, when those of the chain and the clamps do.          *)
LEMMA ProposedFits ==
  ASSUME TypeOK, ClampsValid(Gas, Rate), ClampsFit(Gas, Rate), PricesFit(current)
  PROVE  PricesFit(Proposed)
<1>1. current \in IgpConfig /\ current["gasOverhead"] \in Nat
  BY DEF TypeOK, IgpConfig, Fields
<1>2. sample \in Nat /\ quote \in [num : Nat \ {0}, den : Nat \ {0}]
  BY LoopAssumption DEF TypeOK
<1> QED
  BY <1>1, <1>2, ProposalFits, LoopAssumption DEF Proposed

(* The initial states are of the types.                                    *)
LEMMA TypeInit == Init => TypeOK
BY LoopAssumption DEF Init, TypeOK, Decisions

(* Every step keeps the types.                                             *)
LEMMA TypeStep ==
  ASSUME TypeOK, [Next]_vars
  PROVE  TypeOK'
<1>1. CASE MarketMoves
  BY <1>1, LoopAssumption DEF MarketMoves, TypeOK, Decisions
<1>2. CASE ReconcileFails
  BY <1>2 DEF ReconcileFails, TypeOK, Decisions, Statuses
<1>3. CASE Reconcile
  <2>1. Proposed \in IgpConfig
    BY <1>3, ProposedType DEF Reconcile
  <2>2. Decide(current, Proposed) \in Statuses
    BY DEF Decide, Statuses
  <2> QED
    BY <1>3, <2>1, <2>2 DEF Reconcile, TypeOK, Decisions
<1>4. CASE UNCHANGED vars
  BY <1>4 DEF vars, TypeOK
<1> QED
  BY <1>1, <1>2, <1>3, <1>4 DEF Next

(* The variables of the loop keep their types, for every policy and every  *)
(* market, in both kinds of build.                                         *)
THEOREM TypeCorrect == Spec => []TypeOK
<1>1. TypeOK /\ [Next]_vars => TypeOK'
  BY TypeStep
<1> QED
  BY <1>1, TypeInit, PTL DEF Spec

----------------------------------------------------------------------------
(* When delta_bps measures what it is meant to measure.                    *)

\* The clamps, and the configurations the chain may start from, keep clear of
\* the end of a u128.
WordsSuffice ==
  ClampsFit(Gas, Rate) /\ \A config \in Configs : PricesFit(config)

\* The build stops at an overflow, as that of cargo build does, or there is
\* none to stop at.
NothingWraps == OverflowChecks \/ WordsSuffice

\* What this says of the configuration on chain, run after run.
LoopInv == TypeOK /\ (WordsSuffice => PricesFit(current))

(* Every run that gets to a decision has measured the changes.             *)
LEMMA RunsMeasure ==
  ASSUME NothingWraps, LoopInv, Reconcile
  PROVE  Measured(current, Proposed)
<1>1. current \in IgpConfig /\ Proposed \in IgpConfig
  BY ProposedType DEF LoopInv, TypeOK, Reconcile
<1>2. CASE OverflowChecks
  BY <1>1, <1>2, ChecksMeasure DEF Reconcile
<1>3. CASE WordsSuffice
  <2>1. PricesFit(current) /\ PricesFit(Proposed)
    BY <1>3, ProposedFits DEF LoopInv, Reconcile, WordsSuffice
  <2>2. Proposed["gasOverhead"] = current["gasOverhead"]
    BY DEF Proposed, Proposal, Fields
  <2> QED
    BY <1>1, <2>1, <2>2, FittingIsMeasured
<1> QED
  BY <1>2, <1>3 DEF NothingWraps

(* Prices that fit stay so: only a run changes them, to what it proposes.  *)
LEMMA LoopInvariant == Spec => []LoopInv
<1>1. Init => LoopInv
  BY TypeInit DEF Init, LoopInv, WordsSuffice
<1>2. LoopInv /\ [Next]_vars => LoopInv'
  <2> SUFFICES ASSUME LoopInv, [Next]_vars PROVE LoopInv'
    OBVIOUS
  <2>1. TypeOK'
    BY TypeStep DEF LoopInv
  <2>2. CASE current' = current
    BY <2>1, <2>2 DEF LoopInv
  <2>3. CASE current' # current
    <3>1. ClampsValid(Gas, Rate) /\ current' = Proposed
      BY <2>3 DEF Next, MarketMoves, ReconcileFails, Reconcile, vars
    <3>2. WordsSuffice => PricesFit(current')
      BY <3>1, ProposedFits DEF LoopInv, WordsSuffice
    <3> QED
      BY <2>1, <3>2 DEF LoopInv
  <2> QED
    BY <2>2, <2>3
<1> QED
  BY <1>1, <1>2, PTL DEF Spec

(* What one reconciliation does to the chain.                              *)
LEMMA ReconcileBounded ==
  ASSUME NothingWraps, LoopInv, Reconcile, current' # current
  PROVE  /\ BoundedChange(current, current')
         /\ ~ZeroCurrent(current, current')
         /\ current' \in IgpConfig
<1>1. current' = Proposed /\ Decide(current, Proposed) = "update_recommended"
  BY DEF Reconcile
<1>2. Proposed \in IgpConfig /\ Measured(current, Proposed)
  BY ProposedType, RunsMeasure DEF LoopInv, Reconcile
<1> QED
  BY <1>1, <1>2, RecommendedIsBounded DEF LoopInv, TypeOK

(* No run changes the chain by more than the policy allows, and none       *)
(* touches a configuration with a zero price or rate: max delta per write. *)
THEOREM StepsBounded ==
  ASSUME NothingWraps
  PROVE  Spec => StepBounded
<1>1. LoopInv /\ [Next]_vars =>
        [current' # current =>
           /\ BoundedChange(current, current')
           /\ current["gasPrice"] # 0 /\ current["tokenExchangeRate"] # 0]_vars
  <2> SUFFICES ASSUME LoopInv, [Next]_vars, current' # current
               PROVE  /\ BoundedChange(current, current')
                      /\ current["gasPrice"] # 0
                      /\ current["tokenExchangeRate"] # 0
    BY DEF vars
  <2>1. Reconcile
    BY DEF Next, MarketMoves, ReconcileFails, vars
  <2> QED
    BY <2>1, ReconcileBounded DEF ZeroCurrent
<1> QED
  BY <1>1, LoopInvariant, PTL DEF Spec, StepBounded

(* Zero-value rejection: no sequence of runs drives a price or a rate to   *)
(* zero when a change is allowed less than the whole.                      *)
THEOREM ZeroNeverReached ==
  ASSUME NothingWraps, MaxBps < BPS,
         \A cfg \in Configs : cfg["gasPrice"] # 0 /\ cfg["tokenExchangeRate"] # 0
  PROVE  Spec => []NeverZero
<1>1. Init => NeverZero
  BY DEF Init, NeverZero
<1>2. LoopInv /\ NeverZero /\ [Next]_vars => NeverZero'
  <2> SUFFICES ASSUME LoopInv, NeverZero, [Next]_vars PROVE NeverZero'
    OBVIOUS
  <2>1. CASE current' = current
    BY <2>1 DEF NeverZero
  <2>2. CASE current' # current
    <3>1. Reconcile
      BY <2>2 DEF Next, MarketMoves, ReconcileFails, vars
    <3>2. BoundedChange(current, current') /\ current' \in IgpConfig
      BY <2>2, <3>1, ReconcileBounded
    <3>3. ASSUME NEW f \in Fields, current[f] # 0
          PROVE  current'[f] # 0
      <4>1. current[f] \in Nat \ {0} /\ current'[f] \in Nat
        BY <3>2, <3>3 DEF LoopInv, TypeOK, IgpConfig
      <4>2. WithinMax(current[f], current'[f])
        BY <3>2, <3>3 DEF BoundedChange
      <4> QED
        BY <4>1, <4>2, BoundedKeepsPositive
    <3> QED
      BY <3>3 DEF NeverZero, Fields
  <2> QED
    BY <2>1, <2>2
<1> QED
  BY <1>1, <1>2, LoopInvariant, PTL DEF Spec

(* A run that says noop is right to: no field is as far from its proposal  *)
(* as the threshold asks for, now and until the market moves or the next   *)
(* run decides.                                                            *)
THEOREM NoopsAreClose ==
  ASSUME NothingWraps
  PROVE  Spec => []NoopIsClose
<1>1. Init => NoopIsClose
  BY DEF Init, NoopIsClose
<1>2. LoopInv /\ NoopIsClose /\ [Next]_vars => NoopIsClose'
  <2> SUFFICES ASSUME LoopInv, NoopIsClose, [Next]_vars, decision' = "noop"
               PROVE  \A f \in Fields :
                        current'[f] # 0 => ~ReachesMin(current'[f], Proposed'[f])
    BY DEF NoopIsClose
  <2>1. CASE Reconcile
    <3>1. /\ Decide(current, Proposed) = "noop"
          /\ current' = current /\ Proposed' = Proposed
      BY <2>1 DEF Reconcile, Proposed
    <3>2. Proposed \in IgpConfig
      BY <2>1, ProposedType DEF LoopInv, Reconcile
    <3>3. Measured(current, Proposed)
      BY <2>1, RunsMeasure
    <3> QED
      BY <3>1, <3>2, <3>3, NoopIsBelowMin DEF LoopInv, TypeOK
  <2>2. CASE UNCHANGED vars
    BY <2>2 DEF vars, NoopIsClose, Proposed
  <2> QED
    BY <2>1, <2>2 DEF Next, MarketMoves, ReconcileFails
<1> QED
  BY <1>1, <1>2, LoopInvariant, PTL DEF Spec
=============================================================================
