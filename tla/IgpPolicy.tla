----------------------------- MODULE IgpPolicy -----------------------------
(***************************************************************************)
(* The policy arithmetic of igp-oracle (crates/igp-oracle/src/policy.rs    *)
(* and the rounding helpers of data.rs): how a proposed IGP configuration  *)
(* is computed from market inputs, and how a run decides what to do about  *)
(* the difference between the proposal and the value read on chain.        *)
(*                                                                         *)
(* A configuration is a record of three naturals.  The decimal strings of  *)
(* the program are numbers here; rust_decimal's 28 digits are exact.       *)
(***************************************************************************)
EXTENDS Integers

CONSTANTS
  BPS,             \* BPS_DENOMINATOR: basis points in the whole
  U128,            \* the number of values of a u128
  OverflowChecks,  \* TRUE for a debug build: u128 overflow panics, else wraps
  MinBps,          \* defaults.minBpsChangeToWrite
  MaxBps,          \* defaults.maxBpsChangePerUpdate
  SafetyBps        \* defaults.safetyMultiplierBps

ASSUME PolicyAssumption ==
  /\ BPS \in Nat \ {0}
  /\ U128 \in Nat \ {0}
  /\ OverflowChecks \in BOOLEAN
  /\ MinBps \in Nat
  /\ MaxBps \in Nat
  /\ SafetyBps \in Nat

Fields == {"gasPrice", "tokenExchangeRate", "gasOverhead"}

IgpConfig == [Fields -> Nat]

Statuses ==
  {"noop", "update_recommended", "policy_violation", "policy_error", "other_error"}

\* The ten error statuses of the program fall in two classes, which are all
\* that exit codes and gates tell apart: policy_error and the rest.
IsError(status) == status \in {"policy_error", "other_error"}

----------------------------------------------------------------------------
(* Proposal: rounding up, the safety multiplier, the clamp.                *)

CeilDiv(n, d) == (n + d - 1) \div d

ApplyBps(value) == CeilDiv(value * SafetyBps, BPS)

ClampValid(clamp) == clamp.min <= clamp.max

Clamp(value, clamp) ==
  IF value < clamp.min THEN clamp.min
  ELSE IF value > clamp.max THEN clamp.max
  ELSE value

\* The exchange rate is still a fraction when the multiplier is applied: it
\* is rounded up once, after it.
ProposedRate(quote, clamp) ==
  Clamp(CeilDiv(quote.num * SafetyBps, quote.den * BPS), clamp)

\* A sampled gas price has been rounded up before; in "preserve" mode the
\* price on chain is proposed again as it is, and no clamp applies to it.
ProposedGasPrice(current, sample, gas) ==
  IF gas.mode = "sample" THEN Clamp(ApplyBps(sample), gas) ELSE current.gasPrice

ClampsValid(gas, rate) == ClampValid(rate) /\ (gas.mode = "sample" => ClampValid(gas))

Proposal(current, overhead, sample, quote, gas, rate) ==
  [f \in Fields |->
     CASE f = "gasPrice"          -> ProposedGasPrice(current, sample, gas)
       [] f = "tokenExchangeRate" -> ProposedRate(quote, rate)
       [] f = "gasOverhead"       -> overhead]

----------------------------------------------------------------------------
(* Decision.                                                               *)

NoDelta == -1

\* Faulty variant: a saturating subtraction, which sees no decrease.
IncreaseOnly(a, b) == IF a < b THEN b - a ELSE 0

AbsDiff(a, b) == IF a < b THEN b - a ELSE a - b

Overflows(current, proposed) ==
  current # 0 /\ AbsDiff(current, proposed) * BPS >= U128

DeltaBps(current, proposed) ==
  IF current = 0 THEN NoDelta
  ELSE ((AbsDiff(current, proposed) * BPS) % U128) \div current

\* All three deltas are computed before anything is decided, so one product
\* that overflows stops a build with overflow checks.
DecisionPanics(current, proposed) ==
  OverflowChecks /\ \E f \in Fields : Overflows(current[f], proposed[f])

ZeroCurrent(current, proposed) ==
  \/ current["gasPrice"] = 0
  \/ current["tokenExchangeRate"] = 0
  \/ current["gasOverhead"] = 0 /\ proposed["gasOverhead"] > 0

AllDeltas(current, proposed) ==
  {DeltaBps(current[f], proposed[f]) : f \in Fields}

\* Faulty variants: only the gas price is held to the maximum, or nothing is.
GasPriceExceedsMax(current, proposed) ==
  DeltaBps(current["gasPrice"], proposed["gasPrice"]) > MaxBps
NothingExceedsMax(current, proposed) == FALSE

ExceedsMax(current, proposed) ==
  \E delta \in AllDeltas(current, proposed) : delta > MaxBps

\* Faulty variants: a strict comparison, and a threshold that is ignored.
PassesMin(current, proposed) ==
  \E delta \in AllDeltas(current, proposed) : delta > MinBps
AlwaysMeetsMin(current, proposed) == TRUE

\* unwrap_or(0): with no delta at all the largest one counts as zero.
MeetsMin(current, proposed) ==
  MinBps = 0 \/ \E delta \in AllDeltas(current, proposed) : delta >= MinBps

\* Faulty variant: the code of the decision in place of its status.
DecideCode(current, proposed) ==
  IF ExceedsMax(current, proposed) THEN "large_delta_requires_manual_review" ELSE "noop"

Decide(current, proposed) ==
  CASE ZeroCurrent(current, proposed) \/ ExceedsMax(current, proposed)
         -> "policy_violation"
    [] ~ZeroCurrent(current, proposed) /\ ~ExceedsMax(current, proposed)
         /\ MeetsMin(current, proposed) -> "update_recommended"
    [] OTHER -> "noop"

----------------------------------------------------------------------------
(* What the numbers are meant to say, without division or machine words.   *)

\* The change from one value to the other is at most MaxBps basis points of
\* the first, rounded down.
WithinMax(from, to) == AbsDiff(from, to) * BPS < (MaxBps + 1) * from

\* The change reaches MinBps basis points of the first.
ReachesMin(from, to) == AbsDiff(from, to) * BPS >= MinBps * from

BoundedChange(from, to) ==
  \A f \in Fields : from[f] # 0 => WithinMax(from[f], to[f])
=============================================================================
