# A TLA+ development of hyperlane-ops

`hyperlane-ops` holds the registry, the configurations and the tools with which
the Hyperlane deployments of Celestia are operated.  The program of the
repository is `crates/igp-oracle`, a command line tool that keeps the
interchain gas paymasters (IGP) of the origin chains in line with the market:
it reads what is configured on chain, computes what should be, and, when it is
asked to, submits the difference as a transaction.  This directory specifies
that program in TLA+, checks it with TLC, and proves its central safety
properties with TLAPS.

## 1. Inventory

### igp-oracle

| component | state | operations | interacts with | properties that make it correct |
|---|---|---|---|---|
| policy (`policy.rs`, rounding in `data.rs`) | none | `compute_proposal`, `decide_reconciliation` | called once per target | a recommended change is within the maximum; a no-op is really close; repeated runs settle and never reach zero |
| reconciliation run (`reconcile.rs`, `resolver.rs`, `main.rs`, `cli.rs`, `error.rs`) | work list, expanded targets, artifacts, executable updates | validate, expand, read, evaluate, report, exit code | adapters (async calls), policy, plan, artifacts | one bad target holds back all writes; the exit code tells the truth |
| write plan (`plan.rs`) | status of the plan | `build_write_plan`, `submit_write_plan`, `mark_write_plan_failed` | reads the artifacts, hands one update to an adapter | what is submitted is what was planned; every gate is passed |
| EVM adapter (`evm/`) | none | read (3 `eth_call`s), plan (re-reads), submit (re-reads the owner, broadcasts, waits 120 s) | `InterchainGasPaymaster`, `StorageGasOracle` | only an owner's key signs; success means applied |
| Cosmos adapter (`cosmosnative/`) | none | list, read, plan, submit | `x/core` of hyperlane-cosmos, celestia-grpc | the same, and the overhead is part of the message |
| market data (`data.rs`) | cache of one CoinGecko response, with errors | prices, gas samples | CoinGecko, `eth_gasPrice`, registry | no stale price is used; one request serves all targets |
| registry (`registry.rs`) | three maps, built once | load, look up by name or domain | files | names and domains determine each other, whatever the directories claim |
| configuration (`config.rs`) | values, read once | load | files | no domain is listed twice |
| artifacts (`artifacts.rs`) | two files | write one after the other, remove an old one | file system | every attempt leaves a trace |

`verify_update` of both adapters, `cooldownSeconds` and
`gasSampleFreshnessSeconds` exist in the code and nothing uses them.

### The rest of the repository

* `solidity/contracts/HypNativeMinter.sol`: a token router that mints and burns
  the native token of an EVM chain against collateral locked on Celestia.
  State: `_locked`.  Hard: the recipient is called in the middle of
  `_transferTo`, the scale division, failures of the precompile.
* `devnet/`: start-up order of containers, a bootstrap script with a marker
  file.  Hard: restarts that lose the state of one chain and not of the other.
* `chains/`, `configs/`, `deployments/`, `faucets/`, `monitoring/`, `relayer/`,
  `docs/`: data and configuration for programs of other repositories.

### What is hard

The tool itself is sequential; what it works on is not.  Between any two of its
calls the owners of the contracts, a second operator, or a transaction of an
earlier run may change the chain.  Decisions are made from a read that is never
repeated.  A receipt is given up after a timeout while the transaction lives
on.  Many targets share one exit code and one decision to write.  A process may
die at any point.  `PROJECT.json` lists each hazard at its line.

## 2. Plan

In order of importance, with the state of the work:

1. `IgpPolicy`, `PolicyLoop`: the arithmetic and its feedback loop. *Done,
   proved.*
2. `IgpReconciler`: runs, chains, owners, interleaved and crashing; refines
   `GuardedUpdates`. *Done; every safety property and the refinement proved.*
3. `PriceCache`: the cache of `CoinGeckoPriceAdapter` with a clock: time stamp
   taken before the request, errors kept for the TTL, staleness judged at use.
   *Done, proved.*
4. `HypNativeMinter`: contract, precompile, mailbox and the collateral on the
   other chain; the recipient's code runs inside `_transferTo`.  *Done, proved.*
5. `RegistryIndex`: loading with its checks, and the look-ups. *Done, proved.*
6. `Discovery`: what a run works on, from the registry, the filters and the page
   of a listing. *Done, proved.*
7. Next: an abstract specification for the bridge, with the refinement, and one
   for what a run promises to whoever reads its exit code.

## 3. Modules

| module | what it is |
|---|---|
| `IgpPolicy` | the arithmetic as operators: `Proposal`, `Decide`, and measures without division (`WithinMax`, `ReachesMin`) to judge them by |
| `PolicyLoop` | one target and the market; a run reads, decides and writes in one step |
| `IgpReconciler` | runs of the tool, step by step, against chains that others change |
| `GuardedUpdates` | the abstract promise: the tool changes one entry of one gas oracle at a time, within the policy of values the chain has really had |
| `PriceCache` | the prices of a run: cache, requests, staleness check, and the clock |
| `RegistryIndex` | loading the chain registry, directory by directory, while it may be edited |
| `Discovery` | extends `RegistryIndex`: the origins, the listing of an IGP, the filters, and what becomes of each domain |
| `HypNativeMinter` | the native token bridge: the contract, and the collateral on the other chain |
| `IgpPolicyLemmas` | facts about the arithmetic |
| `PolicyLoopProofs`, `PriceCacheProofs`, `HypNativeMinterProofs` | theorems about the modules of these names |
| `IgpReconcilerProofs` | theorems about what the runs do to the chains |
| `RunOutcomeProofs` | extends `IgpReconcilerProofs`: theorems about what the runs leave behind and report |
| `DiscoveryProofs` | theorems about `RegistryIndex` and `Discovery` |
| `MCPolicyLoop`, `MCIgpReconciler`, `MCPriceCache`, `MCDiscovery`, `MCHypNativeMinter` | instances for TLC |

Operators whose comment says *Faulty variant* or *Mutant of* are plausible
mistakes in the code.  No action uses them; substituted for the operator they vary, they break
the property that is there to catch them.

### IgpPolicy

A configuration is a record of naturals.  Decimal strings are numbers; the
exchange rate is a fraction `[num, den]` until it is rounded up once, after the
safety multiplier.  Basis points are counted from `BPS` (10 in the instances,
10000 in the code) and u128 has `U128` values, so that overflow happens on small
numbers.  `OverflowChecks` tells a debug build, where overflow panics, from a
release build, where it wraps.  The ten error statuses of `DecisionStatus` are
two here, `policy_error` and `other_error`, because exit codes and gates tell no
more apart.

### IgpReconciler

State of a chain: `igp` (gas oracle and overhead of each remote domain),
`gasData` and `owner` of each gas oracle.  On a Cosmos chain the IGP plays the
part of its only gas oracle.  `txs` holds every transaction the tool has
broadcast, in order; `seenData` and `seenOverheads` are history variables, the
values each gas oracle and each IGP has held for a domain.

State of a run, per process: `pc` and the local variables of
`reconcile_prepared` under the code's names; `reading` and `draft` hold what a
read and a plan have learnt between two calls to a chain.  The steps:

| action | code |
|---|---|
| `Start` | `validate_mode`, `resolve_origin_work_items`, `selected_remote_domain_filter`; the work list becomes a set of reads, made in the order of the configuration |
| `ReadDomain`, `ReadOracle`, `ReadGasData`, `ReadDomainFails` | `expand_operator_domains` with the `read_igp_config` of the chain: one query on a Cosmos chain, several on an EVM chain |
| `ListConfigs`, `ListFails` | `expand_configured_domains` |
| `ReportReadError`, `ProposalFails`, `Evaluate`, `PlanUpdate`, `PlanUpdateFails`, `EvaluationPanics` | one iteration of the loop in `reconcile_prepared`, with `reconcile_target` and `plan_update` |
| `ReviewOnly`, `RefuseWrite`, `BuildWritePlan` | the branch on `--write`, `build_write_plan` |
| `SubmitRefused`, `CheckOwner`, `SubmitFails`, `Broadcast`, `ReceiveReceipt`, `GiveUp` | `submit_write_plan`, `submit_update`, `submit_calldata` |
| `WriteSummary`, `WritePlanJson`, `FileFails` | `write_artifacts`, the exit code |
| `Killed` | the process dies; whatever it has broadcast or written stays |
| `Include`, `Drop` | the chain includes a pending transaction, applied or reverted, in nonce order per account, or never |
| `OwnerSetsGasData`, `OwnerSetsIgp`, `TransferOwnership` | the owners act without the tool |

Abstractions, and why they are sound for the properties checked:

* A read of an EVM configuration is three `eth_call`s: gas oracle, overhead, and
  gas data of that oracle.  The first is a step (`ReadOracle`).  The other two
  read different contracts, and no action on an EVM chain touches both or depends
  on the one to change the other, so every change that falls between them can be moved before
  or after both: they are one step (`ReadGasData`).  A read may thus be torn, and
  the configuration it yields need never have existed; `Known` asks for no more
  than its parts.
* `plan_update` on an EVM chain reads the oracle, the overhead and the owner.
  `compute_proposal` and `decide_reconciliation` only use local data and the
  market, so they share a step with the first call (`Evaluate`); overhead and
  owner share a step for the same reason as above (`PlanUpdate`).
* The market is a free choice of a quote and a sample for each target, or a
  failure.
* Skipped domains only appear in the report and leave no state.
* A listing is read whole: the instances have fewer domains than one answer
  holds.  Pages, filters and the registry are taken apart in `Discovery`.
* Configuration, registry and signers are constants; a run whose files do not
  parse ends before the first step of the model, with code 20.
* Amounts that do not fit u128, and the panics of rust_decimal, are outside the
  model; a process that panics is `Killed`.
* Exit code 101 stands for a panic or a kill, -1 for a run that is not over.

### PriceCache

One `CoinGeckoPriceAdapter` serves all targets of a run in turn.  `prepared` are
the targets that were read, `cache` is the adapter's entry, `request` the request
under way; `step` says where `compute_proposal` is: it looks up the origin's
price, then the remote's, then obtains the gas price.

| action | code |
|---|---|
| `Begin` | the loop of `reconcile_prepared` takes its next target |
| `NoAsset`, `LookUp` | `native_token_price_usd` for a chain without an asset, or with a cached response |
| `Ask`, `Receive` | the two halves of `prices` around the `await` of `fetch_prices`, and the judgement of the response in `native_token_price_usd`; `required_price_chains` and `asset_ids` say what is asked for |
| `GasPriceAtHand`, `NoGasPrice` | a gas price that is preserved or in the registry, or that cannot be had |
| `AskGasPrice`, `ReceiveGasPrice` | `eth_gasPrice`, before and after the `await` |
| `Finish` | the rest of `compute_proposal`; an error returns to `Begin` by `Drop` |
| `Tick`, `Publish`, `Serve` | time, CoinGecko's prices, and CoinGecko's answer |

A price is reduced to its time stamp, or `NoPrice` when it is missing, not
positive, or without one.  A request may fail at any moment after it was sent.
The clock is the wall clock and is not set back; `saturating_sub` would treat
stamps from the future as new.  `Empty` and `None` carry times as well, so that
the functions on them are total.  A run may take a target again, which only adds
behaviours.  `IgpReconciler` keeps its free choice of prices: every outcome of a
lookup here is one of its outcomes.

### RegistryIndex and Discovery

`disk` is the directory `chains/`, `unread` the entries of the listing that are
left, `reading` and `metadata` a directory between its two files, and the three
maps are those of `RegistryIndex`.  `Discovery` adds the IGPs of the origins and
the local variables of `prepare_reconciliation`.

| action | code |
|---|---|
| `SkipEntry`, `ReadMetadata`, `RejectMetadata` | one iteration of `RegistryIndex::load` up to the checks for duplicates |
| `ReadAddresses`, `RejectAddresses` | the rest of it |
| `IoError`, `Loaded` | an entry that cannot be read, and the end of the listing |
| `ResolveOrigins`, `ResolveFails` | `resolve_origin_work_items` |
| `ListConfigs`, `PrepareFails` | `prepare_origin_targets` with `list_igp_destination_configs` and `expand_configured_domains`, and its errors |
| `ReadDomain`, `DomainsDone` | `expand_operator_domains`, one domain at a time |
| `Finish` | `prepare_reconciliation` returns |
| `Edit`, `Configure` | somebody edits a directory, an owner configures a domain |

A chain is its name, domain and protocol, and whether it has an IGP.  A file is
read in one step; an edit replaces what is in a directory, between its two files
as well, and happens while the registry is loaded, since it is not looked at
again.  The file system may list a directory that is created meanwhile or not.
A Cosmos IGP lists its domains in ascending order, and an answer holds
`PageSize` of them; the request has no pagination and `next_key` is ignored, so
`Page` is all the code sees.  `listed` is a history variable: what was configured
when the listing was read.  Contents of a configuration are `readable` or not;
the values are in `IgpReconciler`.

### HypNativeMinter

`chain` is the committed state of the EVM chain, `evm` the state the transaction
under way works on, `control` the recipient whose code runs inside
`Address.sendValue`, and `remote` the other chain, with the collateral its token
holds.  A transaction is one step (`evm` and `chain` change together) unless it
calls a recipient: then `TransferTo` has minted, added to `_locked` and paid,
`TransferRemote` may happen any number of times, and `RecipientReturns` commits
or `RecipientReverts` undoes everything, message included.  The other chain
moves on meanwhile and sees committed messages only.

| action | code |
|---|---|
| `TransferRemote` | `transferRemote` and `_transferFromSender`; payments for the dispatch leave the contract with it |
| `TransferTo`, `RecipientReturns`, `RecipientReverts` | the mailbox delivers a message: `_transferTo` up to the call of the recipient, and its two ends |
| `ToggleAllowed` | the allow list of the precompile (`INativeToken`) |
| `Deposit`, `Release` | the collateral token on the other chain, external |

`supply` is the net amount minted by this contract.  A call that reverts without
having called a recipient leaves no trace and has no step; a nested delivery
always does, on `nonReentrant`.  Not modelled: fees, refunds by hooks, the
administration inherited from `TokenRouter`, wei forced into the contract by
other means, and a second router for the same token.

## 4. Runs

| run | question | result |
|---|---|---|
| `PolicyLoop_sample` | types, `StepBounded`, `NeverZero`, `NoopIsClose`, `Settles` with a sampled gas price, every start from {1,4,6,8}^3, two market moves | holds, 10,588 states |
| `IgpReconciler_evm` | types, `GatedWrites`, `SubmittedIsApplied`, `HonestExit`, refinement: two operators, two runs, in turn or at once, two owner actions, two oracles | holds, 2,220,832 states |
| `IgpReconciler_cosmos` | the same for a Cosmos origin with two remote domains, plus `OnlyCleanRunsWrite`, `ExecutableMatchesPlan` | holds, 81,897 states |
| `IgpReconciler_modes` | all flag combinations and filters, an EVM and a Cosmos origin, six targets, two of them for one domain: `OnlyCleanRunsWrite`, `HonestExit` (plans that are only generated included), `RunsEnd` | holds, 20,337 states |
| `PriceCache_cache` | types, `RecentlyAsked`, `ResponseServesAll`, `OneRequestPerWindow` | holds, 627,404 states |
| `Discovery_prepare` | types, `IndexIsInverse`, `LoadIsExact`, `RightChain`, `EveryDomainAccounted` | holds, 2,711,353 states |
| `HypNativeMinter_bridge` | types, `Backed`, `LockedIsSupply`, `OnlyDust`, `Honourable`, `DustIsNotSpent`: two messages each way, two accounts | holds, 104,470 states |
| `IgpReconciler_audit` | does every finished attempt leave its files? | violated |
| `IgpReconciler_maxdelta` | is the maximum kept when a transaction lands? | violated |
| `IgpReconciler_overhead` | is the overhead kept on a Cosmos chain? | violated |
| `PriceCache_fresh` | is a price fresh when the proposal is made? | violated |
| `Discovery_sweep` | does a sweep cover all configured domains? | violated |

**Bounds.**  `MaxMoves`, `MaxRuns` and `MaxExternal` bound the market moves, the
runs and the owner actions.  With `BPS = 10` and `MaxBps = 5` a value may go
from 4 to 6 and from 6 to 9 and not from 4 to 9: two runs in a row are enough
for a change that one run may not make, which is the smallest instance where
stale decisions matter.  Two runs and one owner action already interleave at
every call; two operators at once add the nonce order and each other's receipts.  They
run the same program with the same configuration, so `IgpReconciler_evm` treats
them as symmetric; it checks no liveness.  Its owner may change the oracle, the
values and the owner but has one overhead to choose from, which an EVM write does
not touch; the other runs have two.  The
`modes` run needs `U128 = 60` so that one sample overflows and the process
panics.  `CHECK_DEADLOCK FALSE` is set for `IgpReconciler` because a bounded
behaviour ends when all its runs are over; `PolicyLoop` never stops and is
checked for deadlock.

`PriceCache` has a clock of five instants, a time to live of 1 and a staleness
limit of 2: an answer may arrive after its entry has expired, a cached price may
go stale within the time to live, and a second window fits in.  The targets of a
run are a pair of chains in both directions, two remotes that share an asset and
one of which has no gas price, or targets one of which has no asset.  The clock stops at its bound, hence
`CHECK_DEADLOCK FALSE`.

`Discovery` has three directories, one of which holds in turn everything that can
be wrong with it, four domains, `PageSize = 2` and IGPs with one, two or (after
one change) three domains, so that a page may be too small; one edit of the
registry suffices to make two directories claim one name.  The targets are a swept
and a listed Cosmos origin, an EVM origin with operator domains, one that cannot
be swept and a disabled one.  The run ends when it is prepared, hence
`CHECK_DEADLOCK FALSE`.

`HypNativeMinter` has a scale of 3, so that dust of 1 and 2 wei occurs and two
pieces of dust make more than a unit, and `MaxUint = 9 = 3 * 3`: the whole remote
supply just fits.  Two messages each way allow one to be under way while another
is delivered and a recipient sends the second from inside a delivery.  Messages
are bounded by `MaxNonce`, and a bridge nobody uses may stop, hence
`CHECK_DEADLOCK FALSE`.

**Fairness.**  `PolicyLoop` assumes that the tool is run again and again, as a
scheduled job does.  `IgpReconciler` assumes that a process that runs takes its
next step, with one exception.  For the receipt of an EVM transaction the code
guarantees it with a timeout of 120 s (`evm/submit.rs:53`), so giving up is fair
there.  On a Cosmos chain `submit_message` is awaited without a timeout of the
tool's own (`cosmosnative/adapter.rs:190`): while its transaction is not included
(`Unanswered`) the wait may end with an error, or never, and no fairness is
assumed.  For the other calls, and for a node that is asked about a transaction
which has been included, an answer or an error is an assumption about the servers: the
HTTP client (`data.rs:305`) has no timeout.  Nothing is assumed of the chains (a
transaction may stay pending for ever), of the owners or of the operators.
`RunsEnd` claims accordingly that a run ends or is left waiting in `Unanswered`;
without that second half TLC finds a Cosmos run that waits for ever.

**Exit codes.**  `HonestExit` takes the meaning of 0 and 10 from the crate's
README ("Exit Codes"), which is more precise than `SPEC.md`: with
`--generate-only`, 0 stands for a plan that was generated, so an update may still
be due.  `Generated` says what such a plan is: ready, with a transaction for every
update, none of them blocked, and nothing broadcast.

**The violated properties** are sentences of `SPEC.md` the code does not keep;
`PROJECT.json` quotes them under "findings".

* `AuditTrail`: `build_write_plan` refuses through `?` (`reconcile.rs:326`), and
  the run returns before `write_artifacts`.
* `MaxDeltaPerWrite`: a run gives up on its transaction, a second run reads the
  same configuration and plans a move in the opposite direction; both land, and
  the second one to land changes more than the maximum.  What does hold is
  `GuardedUpdates`: each value written is within the maximum of one the chain
  has had.
* `OverheadPreserved`: a Cosmos message carries the overhead read at the start.
* `FreshAtProposal`: prices are judged when they are looked up; the second lookup
  and the gas sample take time, and nothing is judged again.  What does hold is
  `RecentlyAsked`: no price comes from a request older than the time to live.
* `SweepIsComplete`: the listing of a Cosmos IGP is its first page.  What does
  hold is `EveryDomainAccounted`: no domain of that page gets lost, and the counts
  of the report add up.

## 5. Proofs

`tlapm` checks every theorem for all values of the constants, from the named
assumptions `PolicyAssumption`, `LoopAssumption`, `ReconcilerAssumption`,
`MinterAssumption`, `TotalAssumption`, `PriceCacheAssumption`,
`RegistryAssumption` and `DiscoveryAssumption`.

* `PolicyLoopProofs`: `TypeCorrect`, `StepsBounded`, `ZeroNeverReached`,
  `NoopsAreClose`.
* `IgpReconcilerProofs`: `TypesCorrect`, `WritesAreGated`, `RunsAreGuarded`.
* `RunOutcomeProofs`: `SubmittedMeansApplied`, `OnlyCleanRunsBroadcast`,
  `PlanMatchesExecutable`, `ExitCodesHonest`.
* `HypNativeMinterProofs`: `MinterTypeCorrect`, `MinterBacked`, `MinterLocked`,
  `MinterKeepsDust`, `MinterHonourable`, `MinterSavesDust`.
* `PriceCacheProofs`: `CacheTypes`, `PricesRecent`, `RequestsSpaced`,
  `RequestsCover`.
* `DiscoveryProofs`: `TypesCorrect`, `IndexInverse`, `LoadingIsExact`,
  `TargetsAreRight`, `DomainsAccounted`.

With these, every invariant and every action property of a passing run is also a
theorem.

The theorems of `PolicyLoopProofs` on changes (`StepsBounded`,
`ZeroNeverReached`, `NoopsAreClose`), `WritesAreGated` and `RunsAreGuarded`
assume `NothingWraps`: either the build stops at an overflow, as the
`cargo build` and `cargo run` of the crate's README do, or no value of the world
is so large that `delta_bps` (`policy.rs:367`) could wrap.  The world is the
clamps, the configurations the chains start from, and what owners set; that no
such value ever gets on chain is part of the invariants (`LoopInv`, `SeenFits`).
With `BPS` = 10000 the limit is 2^128 / 10000, about 3.4 * 10^34; the widest
clamp of `igp-oracle.example.yaml` is 10^27.  Without the assumption the
properties fail: with `OverflowChecks = FALSE` and `U128 = 64`, TLC finds a
wrapped product that passes a large change for a small one in `PolicyLoop`.  All
other theorems hold in every build.

`ZeroNeverReached` also assumes `MaxBps < BPS` and a start without zeros, as the
property is about no more than that.

**The arithmetic.**  `decide_reconciliation` compares a quotient that is rounded
down, the properties a product.  `DeltaBound` connects them: if
`(|a-b| * BPS) \div a <= MaxBps` and the product did not wrap, then
`|a-b| * BPS < (MaxBps + 1) * a`.  From it `RecommendedIsBounded` (the gate
bounds every field) and `BoundedKeepsPositive` (a bounded change of a positive
value is positive when `MaxBps < BPS`), which is `NeverZero`.  `NoopIsBelowMin` is the
counterpart for the threshold: a quotient below `MinBps` means a change below it.
All of them ask that the change was `Measured`; `ChecksMeasure` shows it for a
build that stops at an overflow, `FittingIsMeasured` and `ProposalFits` for
values that keep clear of one.

**The reconciler.**  `GatedWrites` speaks of transactions, long after the reads
and decisions it is about, so it is far from inductive.  `IInv` carries the
evidence along:

* `Remembered`: what is on chain now is in `seenData` and `seenOverheads`;
* `ReadsSound`: every configuration in `expanded` consists of known values, and
  its target is enabled; `HalfReadsSound`: the gas oracle that a half-done read
  has learnt belongs to the origin it reads;
* `Drafting`, `DraftsSound`: a decision in `draft` is for the first target in
  line, and if it is to update, what it leads to is `Sound`: a bounded change
  from known values, which keeps the overhead and names an oracle of the origin;
* `UpdatesSound`: every executable update is sound and is one of the updates
  counted in the plan (`Counted`);
* `GatesPassed`: while a run submits, no counted update is blocked or has a
  signer error, and there is an update to send;
* every element of `txs` is sound, and its signer was checked;
* `SeenFits`: where clamps, owners and genesis keep clear of an overflow, so does
  everything that was ever on chain;
* `HomesKept`: oracles serve their own chain, or one chain's history would
  vouch for a write to another.

What is known stays known (`KnownStays`), so what is sound stays sound under the
steps of everybody else (`OthersKeep`); the steps of the run itself are taken one
by one (`ReadsStep`, `HalfReadsStep`, `DraftsStep`, `UpdatesStep`, `GatesStep`,
`TxsStep`, `HomesStep`, `FitsStep`).  `DraftIsSound` is where the arithmetic enters.  The
refinement theorem maps `Include` of an accepted transaction to `ToolWrites`,
owner actions to `Owners`, and everything else to a stutter.

**The outcome of a run.**  The other four properties of the reconciler relate
the two lists a run makes (`exec`, `artifacts`), its plan, its transaction and
its exit code.  None is inductive: an exit code is written long after the
facts it stands for.  `OutcomeInv` adds to `IInv`, for each run,

* `Collected`: the k-th executable update is the k-th target with a planned
  transaction among those to update (`Corresponds` counts them), which makes the
  two lists one;
* `Underway`: a run that is on has no exit code, has sent nothing before it waits
  for a receipt, and is past the gates only with `--write` and a ready plan;
* `PlanClean`: a plan is made only of targets that were all evaluated and clean,
  all updates of which are executable, and a run that broadcasts has just one;
* `SentClean`: what a transaction that was sent tells of its run, also after the
  run is over or was killed;
* `OutcomeTrue`: what a run that has come to its report, or has ended with 0, 10
  or 30, has accomplished: its targets are clean, and nothing is left to write,
  or what was to be written is on chain, or a plan of it was generated; and which
  files it has left.

Other actors touch a run only through `txs`; `TxsOnlyAdvance` says that an
applied transaction stays applied and that indices stay valid, so the invariant
survives their steps.  `GateIsClean` takes the gates of `build_write_plan` apart,
`ConcludeCollects` one iteration of the loop, `ReportKeeps` the two files and the
exit code with its precedence (`PlanCodes`).

**The bridge.**  `Backed` says that the collateral is worth what is minted plus
what is in flight.  `MinterInv` asks it of two ledgers at once: the committed
state, which the other chain sees, and the state a transaction works on, which
becomes the committed one when the recipient returns (`Ledger`); that the latter
only extends the former (`Extends`), or a message released meanwhile on the other
chain might not be in it; and that no message is processed that was not sent
(`RemoteSound`).  One lemma per kind of step moves an amount from one term to
another: `TransferKeeps`, `MintKeeps`, `DepositKeeps` and their counterparts.
`Honourable` follows from the balance, because every term of a sum is at most
the sum and all collateral together fits a uint256.  Sums over the messages are a
constant operator `Total` of which `TotalAssumption` says what makes it a sum: it
is 0 of nothing, no entry exceeds it, and changing an entry changes it by the difference.
The summation is an induction, which the prover cannot instantiate; TLC
evaluates the assumption for the fold that `MCHypNativeMinter` gives.

**The cache.**  `CacheInv` ties the history to the code's state: the last
request sent is the one under way, or else the one the entry answers.  Both
timing properties are then comparisons of times.  `RequestsCover` follows from
the types: every response has exactly the assets the run asks for, and every
lookup is for one of the targets those were computed from.

**The index.**  `IndexInv` says that the maps agree (`MapsAgree`) and, while a
directory is between its two files, that its chain is still new to the maps.
The checks were made before the addresses were read, and what is on disk may be
another chain by then; the proof shows that this does not matter.

`LoadIsExact` is about a registry nobody touches.  `ExactInv` says it of the
directories dealt with so far (`Done`): they are sound, no two of them clash,
and the index holds their chains and no others; a load that was rejected was
rejected because of a directory that is not sound.  `DuplicatesClash` connects the
code's check against the maps to a clash of two directories.  Since the invariant
does not mention an order, the theorem holds for every one.

**The preparation.**  The index is settled before it is used (`StageInv`), so a
chain found in it once is the chain it stays.  `RightInv` says of each domain
dealt with, in finished items and in the one at hand, that its target is the
chain of that domain, was read for it, and passes the filters; `CountInv` that a
work item has the domains it was to be done for, each once, and that reads go
through the operator's list in order.  The lists that the program sorts are
`InOrder` of a set; `InOrderLists` shows that it contains each element of a finite
set of numbers once.

**Only model-checked.**  `Settles` and `RunsEnd` are liveness under fairness,
out of the reach of this prover.  The properties of the five runs that expect a
violation are false.  `TotalAssumption`, a sum over a finite set, is an induction
and is evaluated by TLC for the instance.

## 6. Not modelled

* The text of the artifacts, the encoding of calldata and messages, key handling,
  YAML parsing.
* The Hyperlane contracts, CoinGecko and the Celestia node appear as the tool uses
  them.
* The devnet.  Its scripts are straight lines of calls of docker compose,
  `celestia-appd`, `anvil` and the hyperlane CLI.  What can go wrong after an
  interrupted or repeated start depends on what those keep and overwrite, which
  is not in this repository; a model would state assumptions about them and check
  nothing of this code.  The hazards are listed with their lines.
* `verify_update` of the adapters and `RegistryLoader`'s look-up of single chains:
  nothing in the program calls them.

## 7. Running

    tlc -workers 2 -config IgpReconciler_evm.cfg MCIgpReconciler
    tlc -workers 2 -config Discovery_prepare.cfg MCDiscovery
    tlapm IgpReconcilerProofs.tla
