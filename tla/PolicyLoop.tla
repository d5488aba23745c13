----------------------------- MODULE PolicyLoop -----------------------------
(***************************************************************************)
(* One target reconciled again and again with nobody else on the chain:    *)
(* compute_proposal and decide_reconciliation close a feedback loop over   *)
(* the on-chain configuration, because each run starts from what the last  *)
(* one wrote.  A recommended update is taken to be written in the same     *)
(* step; IgpReconciler takes the steps of a run apart.                     *)
(***************************************************************************)
EXTENDS IgpPolicy

CONSTANTS
  Gas,       \* the target's gas section: [mode, min, max]
  Rate,      \* the target's exchangeRate clamp: [min, max]
  Samples,   \* remote gas prices the market may show, rounded up to integers
  Quotes,    \* exchange rates the market may show: fractions [num, den]
  Configs,   \* configurations the chain may start from
  MaxMoves   \* bound on the number of market moves

ASSUME LoopAssumption ==
  /\ Gas \in [mode : {"sample", "preserve"}, min : Nat, max : Nat]
  /\ Rate \in [min : Nat, max : Nat]
  /\ Samples \subseteq Nat
  /\ Quotes \subseteq [num : Nat \ {0}, den : Nat \ {0}]
  /\ Configs \subseteq IgpConfig
  /\ MaxMoves \in Nat

VARIABLES
  current,   \* the configuration on chain
  sample,    \* the remote gas price now
  quote,     \* the exchange rate now
  decision,  \* what the last run decided, "none" until one has seen this market
  moves      \* market moves so far

vars == <<current, sample, quote, decision, moves>>

Init ==
  /\ current \in Configs
  /\ sample \in Samples
  /\ quote \in Quotes
  /\ decision = "none"
  /\ moves = 0

MarketMoves ==
  /\ moves < MaxMoves
  /\ sample' \in Samples
  /\ quote' \in Quotes
  /\ moves' = moves + 1
  /\ decision' = "none"
  /\ UNCHANGED current

Proposed == Proposal(current, current["gasOverhead"], sample, quote, Gas, Rate)

\* The clamp is rejected, or a debug build panics on an overflow: the run
\* stops and writes nothing.
ReconcileFails ==
  /\ ~ClampsValid(Gas, Rate) \/ DecisionPanics(current, Proposed)
  /\ decision' = IF ClampsValid(Gas, Rate) THEN "panic" ELSE "policy_error"
  /\ UNCHANGED <<current, sample, quote, moves>>

Reconcile ==
  /\ ClampsValid(Gas, Rate) /\ ~DecisionPanics(current, Proposed)
  /\ decision' = Decide(current, Proposed)
  /\ current' = IF decision' = "update_recommended" THEN Proposed ELSE current
  /\ UNCHANGED <<sample, quote, moves>>

Next == MarketMoves \/ ReconcileFails \/ Reconcile

\* The operator keeps running the tool, as a cron job does.
Fairness == WF_vars(Reconcile \/ ReconcileFails)

Spec == Init /\ [][Next]_vars /\ Fairness

----------------------------------------------------------------------------
(* Properties.                                                             *)

Decisions == Statuses \cup {"none", "panic"}

\* The types of the variables.
TypeOK ==
  /\ current \in IgpConfig
  /\ sample \in Samples
  /\ quote \in Quotes
  /\ decision \in Decisions
  /\ moves \in 0..MaxMoves

\* decide_reconciliation: a run changes the configuration on chain by at most
\* maxBpsChangePerUpdate in every field, measured without division or machine
\* words, and leaves a configuration with a zero price or rate alone.
StepBounded ==
  [][current' # current =>
       /\ BoundedChange(current, current')
       /\ current["gasPrice"] # 0 /\ current["tokenExchangeRate"] # 0]_vars

\* SPEC.md "zero-value rejection": from a configuration with a price and a rate
\* no number of runs ever reaches one without, provided the largest change
\* allowed is below the whole.  A zero would be final: zero_current_field
\* refuses every later update.
NeverZero == current["gasPrice"] # 0 /\ current["tokenExchangeRate"] # 0

\* A run that says noop is right to: no field is as far from its proposal as
\* the threshold, the fields that are zero on chain aside.
NoopIsClose ==
  decision = "noop" =>
    \A f \in Fields : current[f] # 0 => ~ReachesMin(current[f], Proposed[f])

\* README.md: run again after a write, and the run reports noop.  Once the
\* market stands still the loop comes to rest, in noop or in a refusal; it
\* never goes on writing.
Settles == <>[](decision \in {"noop", "policy_violation", "policy_error", "panic"})
=============================================================================
