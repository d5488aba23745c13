--------------------------- MODULE IgpReconciler ---------------------------
(***************************************************************************)
(* The reconciliation runs of igp-oracle against the chains they write to. *)
(*                                                                         *)
(* A run reads the IGP configuration of every selected target, then        *)
(* evaluates the targets one after the other (proposal, decision, plan of  *)
(* a transaction), then, with --write, builds a write plan, submits one    *)
(* transaction and waits for its receipt, and ends by writing two files.   *)
(* Every call to a chain is a step, so everything that other actors do may *)
(* happen between two calls: the owners of the contracts change them, a    *)
(* second operator runs the tool, an earlier transaction lands late.       *)
(*                                                                         *)
(* A gas oracle stands for a StorageGasOracle of an EVM chain, and for the *)
(* IGP itself of a Cosmos chain, which keeps its gas data inside.          *)
(***************************************************************************)
EXTENDS IgpPolicy, Sequences, FiniteSets, SequencesExt

CONSTANTS
  Procs,       \* operators that run the tool, one run at a time each
  Origins,     \* origin chains
  Domains,     \* domain ids
  Oracles,     \* gas oracles
  Accounts,    \* addresses that own contracts or sign
  Protocol,    \* [Origins -> {"ethereum", "cosmosnative"}]
  DomainOf,    \* [Origins -> Domains]
  Home,        \* [Oracles -> Origins]: the chain an oracle lives on
  CosmosIgp,   \* [Origins -> Oracles]: the IGP of a Cosmos origin
  Registered,  \* the domains with metadata in the local registry
  Targets,     \* the targets section of the configuration, a sequence
  Signers,     \* the signers section: [profile -> [protocol, from, key]]
  Alias,       \* a signer's "from" that is a key name, not an address
  Requests,    \* command lines
  Quotes,      \* exchange rates the market may show
  Samples,     \* remote gas prices the market may show
  Overheads,   \* overheads and
  Values,      \* gas prices and rates an owner may set
  NoDomain, NoOrigin, NoOracle,
  Genesis,     \* states of the chains to start from: [igp, gasData, owner]
  MaxRuns,     \* bound on the runs started
  MaxExternal  \* bound on the changes by owners

EVM(o) == Protocol[o] = "ethereum"

GasSections == [mode : {"sample", "preserve"}, min : Nat, max : Nat]
ClampSections == [min : Nat, max : Nat]

TargetConfig ==
  [origin : Origins, enabled : BOOLEAN, domains : Seq(Domains),
   gas : GasSections, rate : ClampSections,
   writeEnabled : BOOLEAN, method : {"evm", "celestia-grpc"}, signer : STRING]

SignerConfig ==
  [protocol : {"ethereum", "cosmosnative"}, from : Accounts \cup {Alias}, key : Accounts]

ReconcileArgs ==
  [write : BOOLEAN, dryRun : BOOLEAN, generateOnly : BOOLEAN,
   origin : Origins \cup {NoOrigin}, remote : Domains \cup {NoDomain}, byName : BOOLEAN]

Entries == [oracle : Oracles \cup {NoOracle}, overhead : Nat]
GasData == [{"gasPrice", "tokenExchangeRate"} -> Nat]

ChainState ==
  [igp : [Origins -> [Domains -> Entries]], gasData : [Oracles -> [Domains -> GasData]],
   owner : [Oracles -> Accounts]]

\* An oracle serves its own chain, and a Cosmos chain has its IGP only.
HomeOnly(o, a) == a # NoOracle => Home[a] = o /\ (EVM(o) \/ a = CosmosIgp[o])

ASSUME ReconcilerAssumption ==
  /\ Protocol \in [Origins -> {"ethereum", "cosmosnative"}]
  /\ DomainOf \in [Origins -> Domains]
  /\ Home \in [Oracles -> Origins]
  /\ CosmosIgp \in [Origins -> Oracles]
  /\ \A o \in Origins : Home[CosmosIgp[o]] = o
  /\ Registered \subseteq Domains
  /\ IsFiniteSet(Domains)
  /\ Targets \in Seq(TargetConfig)
  /\ Signers \in [DOMAIN Signers -> SignerConfig]
  /\ Requests \subseteq ReconcileArgs
  /\ Quotes \subseteq [num : Nat \ {0}, den : Nat \ {0}]
  /\ Samples \subseteq Nat
  /\ Overheads \subseteq Nat
  /\ Values \subseteq Nat
  /\ NoDomain \notin Domains
  /\ NoOrigin \notin Origins
  /\ NoOracle \notin Oracles
  /\ Alias \notin Accounts
  /\ Genesis \subseteq ChainState
  /\ \A g \in Genesis, o \in Origins, d \in Domains : HomeOnly(o, g.igp[o][d].oracle)
  /\ MaxRuns \in Nat
  /\ MaxExternal \in Nat

VARIABLES
  \* The chains.
  igp,       \* [origin -> [domain -> [oracle, overhead]]]
  gasData,   \* [oracle -> [domain -> [gasPrice, tokenExchangeRate]]]
  owner,     \* [oracle -> account]
  txs,       \* every transaction broadcast by the tool, in order
  seenData,      \* history: [oracle -> [domain -> the gas data it has held]]
  seenOverheads, \* history: [origin -> [domain -> the overheads it has had]]
  externals, \* changes by owners so far
  \* The runs, by process.
  pc,        \* where the run is, "idle" when none is on
  args,      \* its command line
  todo,      \* the reads not yet made, a set
  reading,   \* the gas oracle of a read that is half done, a set
  expanded,  \* targets read and not yet evaluated
  draft,     \* the decision that a transaction is being planned for, a set
  artifacts, \* targets evaluated
  exec,      \* executable updates
  plan,      \* the write plan: its status and the number of its targets
  sent,      \* index in txs of the transaction it broadcast, 0 before
  err,       \* exit code of the error that submission ended in, 0 if none
  exit,      \* exit code of the last run
  files,     \* which of its two files the run has written
  runs       \* runs started so far

chainVars == <<igp, gasData, owner, txs, seenData, seenOverheads, externals>>
localVars ==
  <<args, todo, reading, expanded, draft, artifacts, exec, plan, sent, err, files>>
vars == <<chainVars, pc, localVars, exit, runs>>

Gone == 101    \* exit code of a process that panicked or was killed
Running == -1  \* no exit code yet

Configuration(entry, data) ==
  [f \in Fields |-> IF f = "gasOverhead" THEN entry.overhead ELSE data[f]]

\* What the chain answers about a remote domain: one configuration, or none
\* where the domain has no gas oracle.
View(o, d) ==
  IF igp[o][d].oracle = NoOracle THEN {}
  ELSE {Configuration(igp[o][d], gasData[igp[o][d].oracle][d])}

\* Every change of a chain is remembered, value by value.
Remember ==
  /\ seenData' = [a \in Oracles |-> [d \in Domains |->
                   seenData[a][d] \cup {gasData'[a][d]}]]
  /\ seenOverheads' = [o \in Origins |-> [d \in Domains |->
                   seenOverheads[o][d] \cup {igp'[o][d].overhead}]]

DataOf(config) == [f \in {"gasPrice", "tokenExchangeRate"} |-> config[f]]

\* A configuration whose parts were each on chain at some time, in a gas
\* oracle of the origin and in its IGP.
Known(o, d, config) ==
  /\ config["gasOverhead"] \in seenOverheads[o][d]
  /\ \E a \in Oracles : Home[a] = o /\ DataOf(config) \in seenData[a][d]

TxPlan == [oracle : Oracles, config : IgpConfig, owner : Accounts]

ExpandedTarget ==
  [target : DOMAIN Targets, domain : Domains, read : SUBSET IgpConfig]

Draft ==
  [oracle : Oracles \cup {NoOracle}, status : Statuses, base : IgpConfig,
   proposed : IgpConfig]

Artifact ==
  [target : DOMAIN Targets, domain : Domains, status : Statuses, tx : SUBSET TxPlan]

ExecutableUpdate ==
  [target : DOMAIN Targets, domain : Domains, base : IgpConfig, tx : TxPlan]

Tx == [target : DOMAIN Targets, domain : Domains, base : IgpConfig, plan : TxPlan,
       sender : Accounts, status : {"pending", "applied", "reverted", "dropped"}]

OriginOf(t) == Targets[t].origin

NoWritePlan == [status |-> "none", targets |-> 0]

----------------------------------------------------------------------------
(* Starting a run: the command line is validated and the work list made.   *)

InvalidMode(r) == (r.write /\ r.dryRun) \/ (r.generateOnly /\ ~r.write)

Selected(r) ==
  {t \in DOMAIN Targets : Targets[t].enabled /\ r.origin \in {NoOrigin, OriginOf(t)}}

Matches(r, d) == r.remote \in {NoDomain, d}

\* The reads of one target, each at its place in the list of domains.  Without
\* a list, the read asks the origin for what it has configured; an EVM origin
\* cannot tell, and ends the run when its turn comes without a filter.
Reads(t, r) ==
  LET domains == Targets[t].domains IN
  IF domains = <<>>
  THEN {[target |-> t, at |-> 0, domain |-> IF EVM(OriginOf(t)) THEN r.remote ELSE NoDomain]}
  ELSE {[target |-> t, at |-> k, domain |-> domains[k]] :
          k \in {k \in DOMAIN domains : Matches(r, domains[k])}}

Worklist(r) == UNION {Reads(t, r) : t \in Selected(r)}

\* validate_mode, then the registry lookups of the origins and of the filter.
StartError(r) ==
  CASE InvalidMode(r) -> 30
    [] ~InvalidMode(r) /\ \E t \in Selected(r) : DomainOf[OriginOf(t)] \notin Registered -> 20
    [] ~InvalidMode(r) /\ Selected(r) = {} -> 30
    [] ~InvalidMode(r) /\ Selected(r) # {} /\ r.byName /\ r.remote \notin Registered -> 20
    [] OTHER -> 0

Start(p, r) ==
  /\ pc[p] = "idle"
  /\ runs < MaxRuns
  /\ runs' = runs + 1
  /\ args' = [args EXCEPT ![p] = r]
  /\ LET e == StartError(r) IN
     /\ exit' = [exit EXCEPT ![p] = IF e = 0 THEN Running ELSE e]
     /\ todo' = [todo EXCEPT ![p] = IF e = 0 THEN Worklist(r) ELSE {}]
     /\ pc' = [pc EXCEPT ![p] = IF e = 0 THEN "work" ELSE "idle"]
  /\ reading' = [reading EXCEPT ![p] = {}]
  /\ expanded' = [expanded EXCEPT ![p] = <<>>]
  /\ draft' = [draft EXCEPT ![p] = {}]
  /\ artifacts' = [artifacts EXCEPT ![p] = <<>>]
  /\ exec' = [exec EXCEPT ![p] = <<>>]
  /\ plan' = [plan EXCEPT ![p] = NoWritePlan]
  /\ sent' = [sent EXCEPT ![p] = 0]
  /\ err' = [err EXCEPT ![p] = 0]
  /\ files' = [files EXCEPT ![p] = {}]
  /\ UNCHANGED chainVars

\* The run stops here without writing its files.
Stop(p, code) ==
  /\ pc' = [pc EXCEPT ![p] = "idle"]
  /\ exit' = [exit EXCEPT ![p] = code]

----------------------------------------------------------------------------
(* Preparation: reading the chains.                                        *)

Skipped(t, d, r) ==
  (r.remote = NoDomain /\ d = DomainOf[OriginOf(t)]) \/ d \notin Registered

Expansion(t, d, r, read) ==
  IF Skipped(t, d, r) THEN <<>> ELSE <<[target |-> t, domain |-> d, read |-> read]>>

Read == [target : DOMAIN Targets, at : Nat, domain : Domains \cup {NoDomain}]

Before(h, other) ==
  h.target < other.target \/ (h.target = other.target /\ h.at <= other.at)

\* Reads are made in the order of the configuration.
IsNext(p, h) == pc[p] = "work" /\ \A other \in todo[p] : Before(h, other)

\* A read is done; what it found joins the targets.
TakeRead(p, h, found) ==
  /\ expanded' = [expanded EXCEPT ![p] = @ \o found]
  /\ todo' = [todo EXCEPT ![p] = @ \ {h}]
  /\ reading' = [reading EXCEPT ![p] = {}]
  /\ UNCHANGED <<chainVars, pc, args, draft, artifacts, exec, plan, sent, err, files, exit,
                 runs>>

\* A remote domain that is skipped is not read; on a Cosmos chain one query
\* answers it all.
ReadDomain(p) ==
  \E h \in todo[p] :
    /\ IsNext(p, h)
    /\ h.domain # NoDomain
    /\ ~EVM(OriginOf(h.target)) \/ Skipped(h.target, h.domain, args[p])
    /\ TakeRead(p, h, Expansion(h.target, h.domain, args[p],
                               View(OriginOf(h.target), h.domain)))

\* On an EVM chain the gas oracle is asked for first.
ReadOracle(p) ==
  \E h \in todo[p] :
    /\ IsNext(p, h)
    /\ h.domain # NoDomain
    /\ EVM(OriginOf(h.target)) /\ ~Skipped(h.target, h.domain, args[p])
    /\ reading[p] = {}
    /\ igp[OriginOf(h.target)][h.domain].oracle # NoOracle
    /\ reading' = [reading EXCEPT ![p] = {igp[OriginOf(h.target)][h.domain].oracle}]
    /\ UNCHANGED <<chainVars, pc, args, todo, expanded, draft, artifacts, exec, plan, sent,
                   err, files, exit, runs>>

\* Then the overhead, and the gas data of that oracle, which may have been
\* replaced by now.  These two calls read from different contracts, so that
\* any change between them might as well have come before or after both.
ReadGasData(p) ==
  \E h \in todo[p], a \in reading[p] :
    /\ IsNext(p, h)
    /\ h.domain # NoDomain
    /\ TakeRead(p, h, Expansion(h.target, h.domain, args[p],
         {Configuration(igp[OriginOf(h.target)][h.domain], gasData[a][h.domain])}))

\* The read fails: the target joins the others without a configuration.
ReadDomainFails(p) ==
  \E h \in todo[p] :
    /\ IsNext(p, h)
    /\ h.domain # NoDomain
    /\ ~Skipped(h.target, h.domain, args[p])
    /\ TakeRead(p, h, Expansion(h.target, h.domain, args[p], {}))

\* A Cosmos origin lists its configured domains with their configurations.
ListedDomains(p, h) ==
  {d \in Domains : /\ View(OriginOf(h.target), d) # {}
                   /\ Matches(args[p], d)
                   /\ ~Skipped(h.target, d, args[p])}

Listed(p, h) ==
  LET order == SetToSeq(ListedDomains(p, h)) IN
  [k \in 1..Cardinality(ListedDomains(p, h)) |->
     [target |-> h.target, domain |-> order[k],
      read |-> View(OriginOf(h.target), order[k])]]

Listing(p, h) ==
  /\ IsNext(p, h)
  /\ h.domain = NoDomain
  /\ ~EVM(OriginOf(h.target))
  /\ TakeRead(p, h, Listed(p, h))

ListConfigs(p) == \E h \in todo[p] : Listing(p, h)

\* Listing fails, or the origin is an EVM chain: the whole run ends.
ListFails(p) ==
  \E h \in todo[p] :
    /\ IsNext(p, h)
    /\ h.domain = NoDomain
    /\ Stop(p, IF EVM(OriginOf(h.target)) THEN 30 ELSE 20)
    /\ UNCHANGED <<chainVars, localVars, runs>>

----------------------------------------------------------------------------
(* Evaluation: proposal, decision and transaction plan of one target.      *)

Evaluating(p) ==
  pc[p] = "work" /\ todo[p] = {} /\ expanded[p] # <<>> /\ draft[p] = {}

\* Faulty variant: updates are collected in the opposite order.
ConcludeInReverse(p, status, base, tx) ==
  LET h == Head(expanded[p]) IN
  /\ expanded' = [expanded EXCEPT ![p] = Tail(@)]
  /\ draft' = [draft EXCEPT ![p] = {}]
  /\ artifacts' = [artifacts EXCEPT ![p] = Append(@,
       [target |-> h.target, domain |-> h.domain, status |-> status, tx |-> tx])]
  /\ exec' = [exec EXCEPT ![p] =
       IF status = "update_recommended" /\ tx # {}
       THEN <<[target |-> h.target, domain |-> h.domain, base |-> base,
               tx |-> CHOOSE x \in tx : TRUE]>> \o @
       ELSE @]
  /\ UNCHANGED <<chainVars, pc, args, todo, reading, plan, sent, err, files, exit, runs>>

\* The head target is done and leaves an artifact, and an executable update
\* when one is recommended and a transaction could be planned.
Conclude(p, status, base, tx) ==
  LET h == Head(expanded[p]) IN
  /\ expanded' = [expanded EXCEPT ![p] = Tail(@)]
  /\ draft' = [draft EXCEPT ![p] = {}]
  /\ artifacts' = [artifacts EXCEPT ![p] = Append(@,
       [target |-> h.target, domain |-> h.domain, status |-> status, tx |-> tx])]
  /\ exec' = [exec EXCEPT ![p] =
       IF status = "update_recommended" /\ tx # {}
       THEN Append(@, [target |-> h.target, domain |-> h.domain, base |-> base,
                       tx |-> CHOOSE x \in tx : TRUE])
       ELSE @]
  /\ UNCHANGED <<chainVars, pc, args, todo, reading, plan, sent, err, files, exit, runs>>

ProposalFor(t, base, sample, quote) ==
  Proposal(base, base["gasOverhead"], sample, quote, Targets[t].gas, Targets[t].rate)

\* A target that could not be read is reported as an error.
ReportReadError(p) ==
  /\ Evaluating(p)
  /\ Head(expanded[p]).read = {}
  /\ Conclude(p, "other_error", <<>>, {})

\* A price or a gas sample is missing, or the clamps contradict each other.
ProposalFails(p) ==
  /\ Evaluating(p)
  /\ Head(expanded[p]).read # {}
  /\ LET t == Targets[Head(expanded[p]).target] IN
     \/ Conclude(p, "other_error", <<>>, {})
     \/ ~ClampsValid(t.gas, t.rate) /\ Conclude(p, "policy_error", <<>>, {})

\* The gas oracle to write to: on an EVM chain plan_update asks for it again.
OracleToWrite(o, d) == IF EVM(o) THEN igp[o][d].oracle ELSE CosmosIgp[o]

\* The market shows its prices and the policy decides.  Unless there is
\* nothing to do, a transaction is planned.
Evaluate(p) ==
  /\ Evaluating(p)
  /\ LET h == Head(expanded[p]) IN
     /\ ClampsValid(Targets[h.target].gas, Targets[h.target].rate)
     /\ \E base \in h.read, sample \in Samples, quote \in Quotes :
          LET proposed == ProposalFor(h.target, base, sample, quote)
              status == Decide(base, proposed)
          IN  /\ ~DecisionPanics(base, proposed)
              /\ \/ status = "noop" /\ Conclude(p, status, base, {})
                 \/ /\ status # "noop"
                    /\ draft' = [draft EXCEPT ![p] =
                         {[oracle |-> OracleToWrite(OriginOf(h.target), h.domain),
                           status |-> status, base |-> base, proposed |-> proposed]}]
                    /\ UNCHANGED <<chainVars, pc, args, todo, reading, expanded, artifacts,
                                   exec, plan, sent, err, files, exit, runs>>

\* plan_update, the rest: EVM reads the overhead and refuses one that is not
\* proposed; both read the owner.
PlanUpdate(p) ==
  \E x \in draft[p] :
    LET h == Head(expanded[p])
        o == OriginOf(h.target)
    IN  /\ pc[p] = "work"
        /\ x.oracle # NoOracle
        /\ EVM(o) => x.proposed["gasOverhead"] = igp[o][h.domain].overhead
        /\ Conclude(p, x.status, x.base,
             {[oracle |-> x.oracle, config |-> x.proposed, owner |-> owner[x.oracle]]})

\* A call fails, or the overhead is another: the decision stands without a
\* transaction.
PlanUpdateFails(p) ==
  \E x \in draft[p] : pc[p] = "work" /\ Conclude(p, x.status, x.base, {})

\* A u128 product overflows in a build that checks: the process panics.
EvaluationPanics(p) ==
  /\ Evaluating(p)
  /\ LET h == Head(expanded[p]) IN
     /\ ClampsValid(Targets[h.target].gas, Targets[h.target].rate)
     /\ \E base \in h.read, sample \in Samples, quote \in Quotes :
          DecisionPanics(base, ProposalFor(h.target, base, sample, quote))
  /\ Stop(p, Gone)
  /\ UNCHANGED <<chainVars, localVars, runs>>

----------------------------------------------------------------------------
(* The write plan: every gate between an evaluation and a transaction.     *)

Evaluated(p) == pc[p] = "work" /\ todo[p] = {} /\ expanded[p] = <<>>

\* The targets for which an update is recommended, by their place in the plan.
Updates(p) == {k \in DOMAIN artifacts[p] : artifacts[p][k].status = "update_recommended"}

\* Faulty variant: the configured address is not compared with the owner.
SignerErrorSansOwner(t, tx) ==
  LET profile == Targets[t].signer IN
  IF profile \notin DOMAIN Signers THEN 20
  ELSE IF Signers[profile].protocol # Protocol[OriginOf(t)] THEN 20
  ELSE 0

\* The signer of one planned transaction: 0, or the exit code of the error.
SignerError(t, tx) ==
  LET profile == Targets[t].signer IN
  IF profile \notin DOMAIN Signers THEN 20
  ELSE IF Signers[profile].protocol # Protocol[OriginOf(t)] THEN 20
  ELSE IF EVM(OriginOf(t)) /\ Signers[profile].from = Alias THEN 20
  ELSE IF Signers[profile].from \notin {tx.owner, Alias} THEN 30
  ELSE 0

SignerErrorAt(p, k) ==
  SignerError(artifacts[p][k].target, CHOOSE x \in artifacts[p][k].tx : TRUE)

FirstSignerError(p) ==
  LET bad == {k \in Updates(p) : SignerErrorAt(p, k) # 0} IN
  IF bad = {} THEN 0
  ELSE SignerErrorAt(p, CHOOSE k \in bad : \A j \in bad : k <= j)

\* An update that cannot be written: no transaction, or writes disabled.
Blocked(p, k) ==
  artifacts[p][k].tx = {} \/ ~Targets[artifacts[p][k].target].writeEnabled

UpdateOrigins(p) == {OriginOf(artifacts[p][k].target) : k \in Updates(p)}

\* One origin, and one transaction if that origin is an EVM chain.
OneBatch(p) ==
  /\ Cardinality(UpdateOrigins(p)) = 1
  /\ (\E o \in UpdateOrigins(p) : EVM(o)) => Cardinality(Updates(p)) = 1

\* Faulty variant: targets that failed do not hold the others back.
WritePlanErrorDespiteFailures(p) ==
  IF \E k \in DOMAIN artifacts[p] : artifacts[p][k].status = "policy_violation" THEN 30
  ELSE IF Updates(p) = {} THEN 0
  ELSE IF ~OneBatch(p) \/ \E k \in Updates(p) : Blocked(p, k) THEN 30
  ELSE FirstSignerError(p)

\* build_write_plan: 0, or the exit code of the error.
WritePlanError(p) ==
  IF \E k \in DOMAIN artifacts[p] :
       IsError(artifacts[p][k].status) \/ artifacts[p][k].status = "policy_violation"
  THEN 30
  ELSE IF Updates(p) = {} THEN 0
  ELSE IF ~OneBatch(p) \/ \E k \in Updates(p) : Blocked(p, k) THEN 30
  ELSE FirstSignerError(p)

\* A dry run goes straight to its files.
ReviewOnly(p) ==
  /\ Evaluated(p)
  /\ ~args[p].write
  /\ pc' = [pc EXCEPT ![p] = "summary"]
  /\ UNCHANGED <<chainVars, localVars, exit, runs>>

\* A gate refuses: the run ends with the error and writes no file.
RefuseWrite(p) ==
  /\ Evaluated(p)
  /\ args[p].write
  /\ WritePlanError(p) # 0
  /\ Stop(p, WritePlanError(p))
  /\ UNCHANGED <<chainVars, localVars, runs>>

\* Faulty variant: a plan that was only to be generated is submitted.
BuildAndSubmit(p) ==
  /\ Evaluated(p)
  /\ args[p].write
  /\ WritePlanError(p) = 0
  /\ plan' = [plan EXCEPT ![p] = [status |-> "ready", targets |-> Cardinality(Updates(p))]]
  /\ pc' = [pc EXCEPT ![p] = IF Updates(p) = {} THEN "summary" ELSE "submit"]
  /\ UNCHANGED <<chainVars, args, todo, reading, expanded, draft, artifacts, exec, sent,
                 err, files, exit, runs>>

BuildWritePlan(p) ==
  /\ Evaluated(p)
  /\ args[p].write
  /\ WritePlanError(p) = 0
  /\ plan' = [plan EXCEPT ![p] =
       IF Updates(p) = {} THEN [status |-> "no_update_required", targets |-> 0]
       ELSE [status |-> "ready", targets |-> Cardinality(Updates(p))]]
  /\ pc' = [pc EXCEPT ![p] =
       IF Updates(p) = {} \/ args[p].generateOnly THEN "summary" ELSE "submit"]
  /\ UNCHANGED <<chainVars, args, todo, reading, expanded, draft, artifacts, exec, sent,
                 err, files, exit, runs>>

----------------------------------------------------------------------------
(* Submission.                                                             *)

\* submit_write_plan failed: the plan is marked and the files still follow.
Fail(p, code) ==
  /\ plan' = [plan EXCEPT ![p].status = "failed"]
  /\ err' = [err EXCEPT ![p] = code]
  /\ pc' = [pc EXCEPT ![p] = "summary"]
  /\ UNCHANGED <<args, todo, reading, expanded, draft, artifacts, exec, files, exit, runs>>

TheUpdate(p) == Head(exec[p])

Key(p) == Signers[Targets[TheUpdate(p).target].signer].key

\* The checks that need no chain, in order: 0, or the exit code.
SubmitError(p) ==
  LET t == Targets[TheUpdate(p).target] IN
  IF Len(exec[p]) # plan[p].targets \/ Len(exec[p]) # 1 THEN 30
  ELSE IF t.method # (IF EVM(t.origin) THEN "evm" ELSE "celestia-grpc") THEN 20
  ELSE 0

SubmitRefused(p) ==
  /\ pc[p] = "submit"
  /\ SubmitError(p) # 0
  /\ Fail(p, SubmitError(p))
  /\ UNCHANGED <<chainVars, sent>>

\* EVM reads the owner of the planned gas oracle once more and compares it
\* with the address of the key that will sign.
CheckOwner(p) ==
  /\ pc[p] = "submit"
  /\ SubmitError(p) = 0
  /\ IF EVM(OriginOf(TheUpdate(p).target)) /\ owner[TheUpdate(p).tx.oracle] # Key(p)
     THEN Fail(p, 30) /\ UNCHANGED <<chainVars, sent>>
     ELSE /\ pc' = [pc EXCEPT ![p] = "broadcast"]
          /\ UNCHANGED <<chainVars, localVars, exit, runs>>

\* The owner cannot be read, the key cannot be loaded, or the node refuses
\* the transaction.
SubmitFails(p) ==
  /\ \/ pc[p] = "submit" /\ SubmitError(p) = 0
     \/ pc[p] = "broadcast"
  /\ Fail(p, 20)
  /\ UNCHANGED <<chainVars, sent>>

Broadcast(p) ==
  /\ pc[p] = "broadcast"
  /\ LET u == TheUpdate(p) IN
     txs' = Append(txs, [target |-> u.target, domain |-> u.domain, base |-> u.base,
                         plan |-> u.tx, sender |-> Key(p), status |-> "pending"])
  /\ sent' = [sent EXCEPT ![p] = Len(txs')]
  /\ pc' = [pc EXCEPT ![p] = "await"]
  /\ UNCHANGED <<igp, gasData, owner, seenData, seenOverheads, externals, args, todo,
                 reading, expanded, draft, artifacts, exec, plan, err, files, exit, runs>>

\* Faulty variant: any transaction that landed is taken for the one that was
\* sent.
ReceiveOthersReceipt(p) ==
  /\ pc[p] = "await"
  /\ \E i \in DOMAIN txs : txs[i].status = "applied"
  /\ plan' = [plan EXCEPT ![p].status = "submitted"]
  /\ pc' = [pc EXCEPT ![p] = "summary"]
  /\ UNCHANGED <<chainVars, args, todo, reading, expanded, draft, artifacts, exec, sent,
                 err, files, exit, runs>>

\* A receipt of success arrives.
ReceiveReceipt(p) ==
  /\ pc[p] = "await"
  /\ txs[sent[p]].status = "applied"
  /\ plan' = [plan EXCEPT ![p].status = "submitted"]
  /\ pc' = [pc EXCEPT ![p] = "summary"]
  /\ UNCHANGED <<chainVars, args, todo, reading, expanded, draft, artifacts, exec, sent,
                 err, files, exit, runs>>

\* Faulty variants: the wait has no timeout, and giving up has a code of its own.
GiveUpOnRevert(p) ==
  /\ pc[p] = "await"
  /\ txs[sent[p]].status = "reverted"
  /\ Fail(p, 20)
  /\ UNCHANGED <<chainVars, sent>>
GiveUpWithOwnCode(p) ==
  /\ pc[p] = "await"
  /\ Fail(p, 50)
  /\ UNCHANGED <<chainVars, sent>>

\* The receipt says that the transaction was reverted, or no receipt arrives
\* in time, whatever has become of the transaction and may still become of it.
GiveUp(p) ==
  /\ pc[p] = "await"
  /\ Fail(p, 20)
  /\ UNCHANGED <<chainVars, sent>>

----------------------------------------------------------------------------
(* The end of a run: its files and its exit code.                          *)

\* Faulty variant: an update that is due outranks an error.
UpdateFirstExitCode(p) ==
  LET statuses == {artifacts[p][k].status : k \in DOMAIN artifacts[p]} IN
  IF "update_recommended" \in statuses THEN 10
  ELSE IF \E s \in statuses : IsError(s) THEN 20
  ELSE 0

\* exit_code_for_plan
PlanExitCode(p) ==
  LET statuses == {artifacts[p][k].status : k \in DOMAIN artifacts[p]} IN
  IF statuses \cap {"policy_violation", "policy_error"} # {} THEN 30
  ELSE IF \E s \in statuses : IsError(s) THEN 20
  ELSE IF "update_recommended" \in statuses THEN 10
  ELSE 0

WriteSummary(p) ==
  /\ pc[p] = "summary"
  /\ files' = [files EXCEPT ![p] = @ \cup {"summary"}]
  /\ pc' = [pc EXCEPT ![p] = "json"]
  /\ UNCHANGED <<chainVars, args, todo, reading, expanded, draft, artifacts, exec, plan,
                 sent, err, exit, runs>>

\* Faulty variant: the error of a failed submission is not returned.
WritePlanJsonAndForget(p) ==
  /\ pc[p] = "json"
  /\ files' = [files EXCEPT ![p] = @ \cup {"plan"}]
  /\ Stop(p, IF args[p].write THEN 0 ELSE PlanExitCode(p))
  /\ UNCHANGED <<chainVars, args, todo, reading, expanded, draft, artifacts, exec, plan,
                 sent, err, runs>>

\* igp-plan.json is written and a tx-plan.json of an older version removed.
WritePlanJson(p) ==
  /\ pc[p] = "json"
  /\ files' = [files EXCEPT ![p] = @ \cup {"plan"}]
  /\ Stop(p, IF err[p] # 0 THEN err[p] ELSE IF args[p].write THEN 0 ELSE PlanExitCode(p))
  /\ UNCHANGED <<chainVars, args, todo, reading, expanded, draft, artifacts, exec, plan,
                 sent, err, runs>>

\* A file operation fails: before the file is written, or while the older
\* one is removed.
FileFails(p) ==
  /\ pc[p] \in {"summary", "json"}
  /\ \E more \in IF pc[p] = "json" THEN {{}, {"plan"}} ELSE {{}} :
       files' = [files EXCEPT ![p] = @ \cup more]
  /\ Stop(p, 20)
  /\ UNCHANGED <<chainVars, args, todo, reading, expanded, draft, artifacts, exec, plan,
                 sent, err, runs>>

\* The process is killed; what it has broadcast or written stays.
Killed(p) ==
  /\ pc[p] # "idle"
  /\ Stop(p, Gone)
  /\ UNCHANGED <<chainVars, localVars, runs>>

----------------------------------------------------------------------------
(* The chains.                                                             *)

\* Transactions of one account on one chain are included in nonce order.
Includable(i) ==
  /\ txs[i].status = "pending"
  /\ \A j \in 1..(i - 1) :
       txs[j].status = "pending" =>
         \/ txs[j].sender # txs[i].sender
         \/ OriginOf(txs[j].target) # OriginOf(txs[i].target)

\* Only the owner may change a gas oracle; a Cosmos message names its owner
\* too, and is refused when the signer or the IGP disagrees.
Accepted(tx) ==
  LET o == OriginOf(tx.target) IN
  /\ owner[tx.plan.oracle] = tx.sender
  /\ EVM(o) \/ tx.plan.owner = tx.sender

Include(i) ==
  LET tx == txs[i]
      o == OriginOf(tx.target)
      config == tx.plan.config
  IN
  /\ Includable(i)
  /\ txs' = [txs EXCEPT ![i].status = IF Accepted(tx) THEN "applied" ELSE "reverted"]
  /\ gasData' = IF Accepted(tx)
                THEN [gasData EXCEPT ![tx.plan.oracle][tx.domain] = DataOf(config)] ELSE gasData
  /\ igp' = IF Accepted(tx) /\ ~EVM(o)
            THEN [igp EXCEPT ![o][tx.domain] =
                    [oracle |-> tx.plan.oracle, overhead |-> config["gasOverhead"]]]
            ELSE igp
  /\ Remember
  /\ UNCHANGED <<owner, externals, pc, localVars, exit, runs>>

\* A pending transaction is evicted or replaced and never lands.
Drop(i) ==
  /\ txs[i].status = "pending"
  /\ txs' = [txs EXCEPT ![i].status = "dropped"]
  /\ UNCHANGED <<igp, gasData, owner, seenData, seenOverheads, externals, pc, localVars,
                 exit, runs>>

\* The owners act without the tool: a new price or rate, a new overhead, a
\* new gas oracle on an EVM chain, a new owner.
OwnerActs ==
  /\ externals < MaxExternal
  /\ externals' = externals + 1
  /\ UNCHANGED <<txs, pc, localVars, exit, runs>>

OwnerSetsGasData(a, d) ==
  /\ OwnerActs
  /\ \E price \in Values, rate \in Values :
       gasData' = [gasData EXCEPT ![a][d] =
         [f \in {"gasPrice", "tokenExchangeRate"} |-> IF f = "gasPrice" THEN price ELSE rate]]
  /\ UNCHANGED <<igp, owner>>
  /\ Remember

OwnerSetsIgp(o, d) ==
  /\ OwnerActs
  /\ \E a \in Oracles \cup {NoOracle}, h \in Overheads :
       /\ HomeOnly(o, a)
       /\ EVM(o) \/ a # NoOracle
       /\ igp' = [igp EXCEPT ![o][d] = [oracle |-> a, overhead |-> h]]
  /\ UNCHANGED <<gasData, owner>>
  /\ Remember

TransferOwnership(a) ==
  /\ OwnerActs
  /\ \E account \in Accounts \ {owner[a]} : owner' = [owner EXCEPT ![a] = account]
  /\ UNCHANGED <<igp, gasData>>
  /\ Remember

----------------------------------------------------------------------------
Init ==
  /\ \E g \in Genesis : igp = g.igp /\ gasData = g.gasData /\ owner = g.owner
  /\ txs = <<>>
  /\ seenData = [a \in Oracles |-> [d \in Domains |-> {gasData[a][d]}]]
  /\ seenOverheads = [o \in Origins |-> [d \in Domains |-> {igp[o][d].overhead}]]
  /\ externals = 0
  /\ pc = [p \in Procs |-> "idle"]
  /\ args \in [Procs -> Requests]
  /\ todo = [p \in Procs |-> {}]
  /\ reading = [p \in Procs |-> {}]
  /\ expanded = [p \in Procs |-> <<>>]
  /\ draft = [p \in Procs |-> {}]
  /\ artifacts = [p \in Procs |-> <<>>]
  /\ exec = [p \in Procs |-> <<>>]
  /\ plan = [p \in Procs |-> NoWritePlan]
  /\ sent = [p \in Procs |-> 0]
  /\ err = [p \in Procs |-> 0]
  /\ exit = [p \in Procs |-> Running]
  /\ files = [p \in Procs |-> {}]
  /\ runs = 0

Prepare(p) ==
  ReadDomain(p) \/ ReadOracle(p) \/ ReadGasData(p) \/ ReadDomainFails(p)
    \/ ListConfigs(p) \/ ListFails(p)

Assess(p) ==
  ReportReadError(p) \/ ProposalFails(p) \/ Evaluate(p) \/ PlanUpdate(p)
    \/ PlanUpdateFails(p) \/ EvaluationPanics(p)

Gate(p) == ReviewOnly(p) \/ RefuseWrite(p) \/ BuildWritePlan(p)

Submit(p) ==
  SubmitRefused(p) \/ CheckOwner(p) \/ SubmitFails(p) \/ Broadcast(p)
    \/ ReceiveReceipt(p) \/ GiveUp(p)

Report(p) == WriteSummary(p) \/ WritePlanJson(p) \/ FileFails(p)

Step(p) == Prepare(p) \/ Assess(p) \/ Gate(p) \/ Submit(p) \/ Report(p)

ChainStep == \E i \in DOMAIN txs : Include(i) \/ Drop(i)

OwnerStep ==
  \/ \E a \in Oracles, d \in Domains : OwnerSetsGasData(a, d)
  \/ \E o \in Origins, d \in Domains : OwnerSetsIgp(o, d)
  \/ \E a \in Oracles : TransferOwnership(a)

Next ==
  \/ \E p \in Procs, r \in Requests : Start(p, r)
  \/ \E p \in Procs : Step(p) \/ Killed(p)
  \/ ChainStep
  \/ OwnerStep

\* The run waits for a Cosmos node to answer a transaction that no block has
\* included.  submit_message is awaited without a timeout of the tool's own.
Unanswered(p) ==
  /\ pc[p] = "await"
  /\ ~EVM(OriginOf(TheUpdate(p).target))
  /\ txs[sent[p]].status \in {"pending", "dropped"}

\* A process that runs takes its next step: it gives up on the receipt of an
\* EVM transaction after a timeout of its own (submit.rs), and a call that the
\* server can answer is assumed to return or to fail.  Nothing is promised of
\* the wait for a Cosmos transaction that is not included, which may end with
\* an error or never, nor of the chains, of the owners or of the operators.
Fairness == \A p \in Procs : WF_vars(Step(p) /\ ~Unanswered(p))

Spec == Init /\ [][Next]_vars /\ Fairness

----------------------------------------------------------------------------
(* Properties.                                                             *)

ExitCodes == {0, 10, 20, 30, Gone, Running}

\* The types of the variables.
TypeOK ==
  /\ igp \in [Origins -> [Domains -> Entries]]
  /\ gasData \in [Oracles -> [Domains -> GasData]]
  /\ owner \in [Oracles -> Accounts]
  /\ txs \in Seq(Tx)
  /\ seenData \in [Oracles -> [Domains -> SUBSET GasData]]
  /\ seenOverheads \in [Origins -> [Domains -> SUBSET Nat]]
  /\ externals \in 0..MaxExternal
  /\ pc \in [Procs -> {"idle", "work", "submit", "broadcast", "await", "summary", "json"}]
  /\ args \in [Procs -> Requests]
  /\ todo \in [Procs -> SUBSET Read]
  /\ reading \in [Procs -> SUBSET Oracles]
  /\ expanded \in [Procs -> Seq(ExpandedTarget)]
  /\ draft \in [Procs -> SUBSET Draft]
  /\ artifacts \in [Procs -> Seq(Artifact)]
  /\ exec \in [Procs -> Seq(ExecutableUpdate)]
  /\ plan \in [Procs -> [status : {"none", "no_update_required", "ready", "submitted",
                                   "failed"}, targets : Nat]]
  /\ sent \in [Procs -> Nat]
  /\ err \in [Procs -> {0, 20, 30}]
  /\ exit \in [Procs -> ExitCodes]
  /\ files \in [Procs -> SUBSET {"summary", "plan"}]
  /\ runs \in 0..MaxRuns

\* The transaction of a run that got so far.
SentTx(p) == txs[sent[p]]

\* Every transaction the tool has ever broadcast makes a change that the
\* policy allows, measured from values that really were on chain; it keeps
\* the overhead among them, and belongs to a target whose writes are enabled
\* and whose signer passed the check.  Reads, decisions, plans and gates sit in
\* four modules of the program.
GatedWrites ==
  \A i \in DOMAIN txs :
    LET tx == txs[i]
        t == Targets[tx.target]
    IN  /\ Known(t.origin, tx.domain, tx.base)
        /\ BoundedChange(tx.base, tx.plan.config)
        /\ ~ZeroCurrent(tx.base, tx.plan.config)
        /\ tx.plan.config["gasOverhead"] = tx.base["gasOverhead"]
        /\ t.enabled /\ t.writeEnabled
        /\ Signers[t.signer].from \in {tx.plan.owner, Alias}

\* A run broadcasts only if it was asked to write, every target it selected
\* could be evaluated, none violates the policy, and exactly one needs an
\* update: one bad target holds all the others back.
OnlyCleanRunsWrite ==
  \A p \in Procs : sent[p] # 0 =>
    /\ args[p].write /\ ~args[p].dryRun /\ ~args[p].generateOnly
    /\ \A k \in DOMAIN artifacts[p] :
         artifacts[p][k].status \in {"noop", "update_recommended"}
    /\ Cardinality(Updates(p)) = 1

\* reconcile.rs collects executable updates and plan.rs counts recommended
\* targets on its own; the two agree, target by target, whenever a plan is
\* ready, so the mismatch that submit_write_plan guards against cannot occur.
ExecutableMatchesPlan ==
  \A p \in Procs : plan[p].status = "ready" =>
    /\ Len(exec[p]) = plan[p].targets
    /\ \A k \in DOMAIN exec[p] : \E j \in Updates(p) :
         /\ Cardinality({i \in Updates(p) : i <= j}) = k
         /\ exec[p][k].target = artifacts[p][j].target
         /\ exec[p][k].domain = artifacts[p][j].domain
         /\ artifacts[p][j].tx = {exec[p][k].tx}

\* A plan that says submitted names a transaction that changed the chain.
SubmittedIsApplied ==
  \A p \in Procs : plan[p].status = "submitted" =>
    sent[p] # 0 /\ SentTx(p).status = "applied"

\* A plan that was generated and not submitted: every update that is due is in
\* it, has its transaction, and may be written.
Generated(p) ==
  /\ args[p].generateOnly
  /\ plan[p].status = "ready" /\ plan[p].targets = Cardinality(Updates(p))
  /\ \A k \in Updates(p) : ~Blocked(p, k)
  /\ sent[p] = 0

\* What the exit code tells the caller is so, and after 0 and 10 the files that
\* say it are there.  0: every target was evaluated, and no update is due, or
\* the update is on chain, or, with --generate-only, the plan for the updates
\* is ready and nothing was broadcast (the crate's README, "Exit Codes").
\* 10: a run that was not to write found an update due and nothing wrong.
\* 30: nothing was broadcast.
HonestExit ==
  \A p \in Procs :
    /\ exit[p] \in {0, 10} =>
         /\ files[p] = {"summary", "plan"}
         /\ \A k \in DOMAIN artifacts[p] :
              artifacts[p][k].status \in {"noop", "update_recommended"}
    /\ exit[p] = 0 =>
         \/ Updates(p) = {}
         \/ sent[p] # 0 /\ SentTx(p).status = "applied"
         \/ Generated(p)
    /\ exit[p] = 10 => ~args[p].write /\ Updates(p) # {}
    /\ exit[p] = 30 => sent[p] = 0

\* A run that was started ends, unless the transaction it has sent is a Cosmos
\* one that is never included: the wait for an EVM receipt has a timeout, and
\* nothing else in a run waits for a chain to move.
RunsEnd == \A p \in Procs : pc[p] # "idle" ~> (pc[p] = "idle" \/ Unanswered(p))

----------------------------------------------------------------------------
(* What the documents say and the code does not do.                        *)

Lands(i) == txs[i].status = "pending" /\ txs'[i].status = "applied"

\* SPEC.md, Safety Controls: "max delta per write".  A transaction changes
\* what is on chain when it lands by no more than the maximum.
MaxDeltaPerWrite ==
  [][\A i \in DOMAIN txs : Lands(i) =>
       \A before \in View(OriginOf(txs[i].target), txs[i].domain),
          after \in View(OriginOf(txs[i].target), txs[i].domain)' :
         BoundedChange(before, after)]_vars

\* SPEC.md: gasOverhead is "preserved".  A transaction of the tool leaves the
\* overhead on chain as it is when the transaction lands.
OverheadPreserved ==
  [][\A i \in DOMAIN txs : Lands(i) =>
       \A before \in View(OriginOf(txs[i].target), txs[i].domain),
          after \in View(OriginOf(txs[i].target), txs[i].domain)' :
         before["gasOverhead"] = after["gasOverhead"]]_vars

\* SPEC.md: "clear audit artifacts for every dry-run and write attempt".  A
\* run whose targets were all evaluated and that ended by itself with a verdict
\* of the policy or of a gate has left both files.
AuditTrail ==
  \A p \in Procs :
    (exit[p] \in {0, 10, 30} /\ ~InvalidMode(args[p]) /\ artifacts[p] # <<>>
       /\ expanded[p] = <<>> /\ todo[p] = {}) =>
      files[p] = {"summary", "plan"}

----------------------------------------------------------------------------
(* The promise the tool keeps: see GuardedUpdates.                         *)

Guarded ==
  INSTANCE GuardedUpdates WITH
    data <- gasData,
    overhead <- [o \in Origins |-> [d \in Domains |-> igp[o][d].overhead]],
    pastData <- seenData,
    pastOverheads <- seenOverheads,
    done <- {i \in DOMAIN txs : txs[i].status = "applied"}

\* Every behaviour is one of GuardedUpdates.
ImplementsGuarded == Guarded!Spec
=============================================================================
