------------------------ MODULE IgpReconcilerProofs ------------------------
(***************************************************************************)
(* The safety of the reconciliation runs, for every set of origins, targets*)
(* and operators, every market and every number of runs.                   *)
(***************************************************************************)
EXTENDS IgpReconciler, IgpPolicyLemmas, FiniteSetTheorems, SequenceTheorems,
        WellFoundedInduction

----------------------------------------------------------------------------
(* The operators of the model.                                             *)

(* What a chain answers is a configuration.                                *)
LEMMA ConfigurationType ==
  ASSUME NEW entry \in Entries, NEW data \in GasData
  PROVE  Configuration(entry, data) \in IgpConfig
BY DEF Configuration, Entries, GasData, IgpConfig, Fields

(* A finite set can be put in order, each element once.                    *)
LEMMA SetToSeqType ==
  ASSUME NEW S, IsFiniteSet(S)
  PROVE  SetToSeq(S) \in [1..Cardinality(S) -> S]
<1>1. ExistsBijection(1..Cardinality(S), S)
  BY FS_CardinalityType
<1>2. \E f \in [1..Cardinality(S) -> S] : IsInjective(f)
  BY <1>1 DEF ExistsBijection, Bijection, Injection, IsInjective
<1> QED
  BY <1>2 DEF SetToSeq

(* A set of naturals that is not empty has a least element.                *)
LEMMA LeastExists ==
  ASSUME NEW T \in SUBSET Nat, T # {}
  PROVE  \E k \in T : \A j \in T : k <= j
<1>1. \E x \in T : \A y \in T : ~ (<<y, x>> \in OpToRel(<, Nat))
  BY WFMin, NatLessThanWellFounded
<1>2. PICK x \in T : \A y \in T : ~ (<<y, x>> \in OpToRel(<, Nat))
  BY <1>1
<1>3. \A y \in T : ~(y < x)
  BY <1>2 DEF OpToRel
<1> QED
  BY <1>3

(* Every element of the targets section is a target.                       *)
LEMMA TargetTypes == \A t \in DOMAIN Targets : Targets[t] \in TargetConfig
<1>1. Targets \in Seq(TargetConfig)
  BY ReconcilerAssumption
<1>2. Targets \in [1..Len(Targets) -> TargetConfig]
  BY <1>1, LenProperties
<1> QED
  BY <1>2

(* The checks on a signer end in one of three codes.                       *)
LEMMA WriteCodes ==
  ASSUME NEW p \in Procs
  PROVE  WritePlanError(p) \in {0, 20, 30}
<1>1. \A k : SignerErrorAt(p, k) \in {0, 20, 30}
  BY DEF SignerErrorAt, SignerError
<1>2. FirstSignerError(p) \in {0, 20, 30}
  BY <1>1 DEF FirstSignerError
<1> QED
  BY <1>2 DEF WritePlanError

(* The updates of a plan can be counted.                                   *)
LEMMA UpdatesCounted ==
  ASSUME TypeOK, NEW p \in Procs
  PROVE  /\ Updates(p) \subseteq 1..Len(artifacts[p])
         /\ Cardinality(Updates(p)) \in Nat
<1>1. artifacts[p] \in Seq(Artifact)
  BY DEF TypeOK
<1>2. Len(artifacts[p]) \in Nat /\ DOMAIN artifacts[p] = 1..Len(artifacts[p])
  BY <1>1, LenProperties
<1>3. IsFiniteSet(1..Len(artifacts[p])) /\ Updates(p) \in SUBSET (1..Len(artifacts[p]))
  BY <1>2, FS_Interval DEF Updates
<1>4. IsFiniteSet(Updates(p))
  BY <1>3, FS_Subset
<1> QED
  BY <1>3, <1>4, FS_CardinalityType

----------------------------------------------------------------------------
(* Types.                                                                  *)

(* A run about to broadcast has an update, and a signer for it.            *)
Keyed ==
  \A p \in Procs : pc[p] = "broadcast" =>
    exec[p] # <<>> /\ Targets[TheUpdate(p).target].signer \in DOMAIN Signers

(* A transaction is planned for the target that is first in line, when     *)
(* every read has been made.                                               *)
Drafting == \A p \in Procs : draft[p] # {} => todo[p] = {} /\ expanded[p] # <<>>

(* Starting a run.                                                         *)
LEMMA StartTypes ==
  ASSUME TypeOK, NEW p \in Procs, NEW r \in Requests, Start(p, r)
  PROVE  TypeOK'
<1>1. Worklist(r) \subseteq Read
  <2>1. \A t \in DOMAIN Targets : Targets[t].domains \in Seq(Domains)
    BY TargetTypes DEF TargetConfig
  <2>2. r.remote \in Domains \cup {NoDomain}
    BY ReconcilerAssumption DEF ReconcileArgs
  <2>3. \A t \in DOMAIN Targets : Reads(t, r) \subseteq Read
    BY <2>1, <2>2, LenProperties DEF Reads, Read
  <2> QED
    BY <2>3 DEF Worklist, Selected
<1>2. StartError(r) \in {0, 20, 30}
  BY DEF StartError
<1>3. runs' \in 0..MaxRuns
  BY ReconcilerAssumption DEF Start, TypeOK
<1> QED
  BY <1>1, <1>2, <1>3 DEF Start, TypeOK, chainVars, NoWritePlan, ExitCodes, Running

(* Reading.                                                                *)
LEMMA TakeReadTypes ==
  ASSUME TypeOK, NEW p \in Procs, NEW h \in Read, NEW found \in Seq(ExpandedTarget),
         TakeRead(p, h, found)
  PROVE  TypeOK'
<1>1. expanded[p] \o found \in Seq(ExpandedTarget)
  BY ConcatProperties DEF TypeOK
<1> QED
  BY <1>1 DEF TakeRead, TypeOK, chainVars

(* What a chain answers about a domain is a set of configurations.         *)
LEMMA ViewType ==
  ASSUME TypeOK, NEW o \in Origins, NEW d \in Domains
  PROVE  View(o, d) \in SUBSET IgpConfig
<1>1. CASE igp[o][d].oracle = NoOracle
  BY <1>1 DEF View
<1>2. CASE igp[o][d].oracle # NoOracle
  <2>1. igp[o][d] \in Entries /\ igp[o][d].oracle \in Oracles
    BY <1>2 DEF TypeOK, Entries
  <2>2. gasData[igp[o][d].oracle][d] \in GasData
    BY <2>1 DEF TypeOK
  <2> QED
    BY <1>2, <2>1, <2>2, ConfigurationType DEF View
<1> QED
  BY <1>1, <1>2

(* A read adds one target, or none where the domain is skipped.            *)
LEMMA ExpansionType ==
  ASSUME NEW t \in DOMAIN Targets, NEW d \in Domains, NEW r, NEW read \in SUBSET IgpConfig
  PROVE  Expansion(t, d, r, read) \in Seq(ExpandedTarget)
<1>1. [target |-> t, domain |-> d, read |-> read] \in ExpandedTarget
  BY DEF ExpandedTarget
<1> QED
  BY <1>1 DEF Expansion

(* Origins of targets are origins.                                         *)
LEMMA OriginType == \A t \in DOMAIN Targets : OriginOf(t) \in Origins
BY TargetTypes DEF OriginOf, TargetConfig

(* Every step of the preparation.                                          *)
LEMMA PrepareTypes ==
  ASSUME TypeOK, NEW p \in Procs, Prepare(p)
  PROVE  TypeOK'
<1>0. todo[p] \subseteq Read
  BY DEF TypeOK
<1>1. CASE ReadDomain(p)
  <2>1. PICK h \in todo[p] :
          /\ h.domain # NoDomain
          /\ TakeRead(p, h, Expansion(h.target, h.domain, args[p],
                                      View(OriginOf(h.target), h.domain)))
    BY <1>1 DEF ReadDomain
  <2>2. h.target \in DOMAIN Targets /\ h.domain \in Domains
    BY <1>0, <2>1 DEF Read
  <2>3. View(OriginOf(h.target), h.domain) \in SUBSET IgpConfig
    BY <2>2, OriginType, ViewType
  <2> QED
    BY <1>0, <2>1, <2>2, <2>3, ExpansionType, TakeReadTypes
<1>2. CASE ReadDomainFails(p)
  <2>1. PICK h \in todo[p] :
          /\ h.domain # NoDomain
          /\ TakeRead(p, h, Expansion(h.target, h.domain, args[p], {}))
    BY <1>2 DEF ReadDomainFails
  <2>2. h.target \in DOMAIN Targets /\ h.domain \in Domains
    BY <1>0, <2>1 DEF Read
  <2> QED
    BY <1>0, <2>1, <2>2, ExpansionType, TakeReadTypes
<1>3. CASE ListConfigs(p)
  <2>1. PICK h \in todo[p] : Listing(p, h)
    BY <1>3 DEF ListConfigs
  <2>2. h \in Read /\ h.target \in DOMAIN Targets
    BY <1>0, <2>1 DEF Read
  <2>3. Listed(p, h) \in Seq(ExpandedTarget)
    <3>1. IsFiniteSet(ListedDomains(p, h)) /\ ListedDomains(p, h) \subseteq Domains
      BY ReconcilerAssumption, FS_Subset DEF ListedDomains
    <3>2. SetToSeq(ListedDomains(p, h)) \in
            [1..Cardinality(ListedDomains(p, h)) -> ListedDomains(p, h)]
      BY <3>1, SetToSeqType
    <3>3. Cardinality(ListedDomains(p, h)) \in Nat
      BY <3>1, FS_CardinalityType
    <3> DEFINE order == SetToSeq(ListedDomains(p, h))
    <3>4. \A k \in 1..Cardinality(ListedDomains(p, h)) :
            [target |-> h.target, domain |-> order[k],
             read |-> View(OriginOf(h.target), order[k])] \in ExpandedTarget
      BY <2>2, <3>1, <3>2, OriginType, ViewType DEF ExpandedTarget
    <3> QED
      BY <3>3, <3>4 DEF Listed
  <2> QED
    BY <2>1, <2>2, <2>3, TakeReadTypes DEF Listing
<1>4. CASE ListFails(p)
  BY <1>4 DEF ListFails, Stop, TypeOK, chainVars, localVars, ExitCodes
<1>5. CASE ReadOracle(p)
  <2>1. PICK h \in todo[p] :
          /\ h.domain # NoDomain
          /\ igp[OriginOf(h.target)][h.domain].oracle # NoOracle
          /\ reading' = [reading EXCEPT ![p] = {igp[OriginOf(h.target)][h.domain].oracle}]
    BY <1>5 DEF ReadOracle
  <2>2. OriginOf(h.target) \in Origins /\ h.domain \in Domains
    BY <1>0, <2>1, OriginType DEF Read
  <2>3. igp[OriginOf(h.target)][h.domain].oracle \in Oracles
    BY <2>1, <2>2 DEF TypeOK, Entries
  <2>4. reading' \in [Procs -> SUBSET Oracles]
    BY <2>1, <2>3 DEF TypeOK
  <2>5. UNCHANGED <<chainVars, pc, args, todo, expanded, draft, artifacts, exec, plan, sent,
                    err, files, exit, runs>>
    BY <1>5 DEF ReadOracle
  <2> QED
    BY <2>4, <2>5 DEF TypeOK, chainVars
<1>6. CASE ReadGasData(p)
  <2>1. PICK h \in todo[p], a \in reading[p] :
          /\ h.domain # NoDomain
          /\ TakeRead(p, h, Expansion(h.target, h.domain, args[p],
               {Configuration(igp[OriginOf(h.target)][h.domain], gasData[a][h.domain])}))
    BY <1>6 DEF ReadGasData
  <2>2. /\ h.target \in DOMAIN Targets /\ h.domain \in Domains
        /\ OriginOf(h.target) \in Origins /\ a \in Oracles
    BY <1>0, <2>1, OriginType DEF Read, TypeOK
  <2>3. Configuration(igp[OriginOf(h.target)][h.domain], gasData[a][h.domain]) \in IgpConfig
    BY <2>2, ConfigurationType DEF TypeOK
  <2> QED
    BY <1>0, <2>1, <2>2, <2>3, ExpansionType, TakeReadTypes
<1> QED
  BY <1>1, <1>2, <1>3, <1>4, <1>5, <1>6 DEF Prepare

(* Concluding a target.                                                    *)
LEMMA ConcludeTypes ==
  ASSUME TypeOK, NEW p \in Procs, expanded[p] # <<>>, NEW status \in Statuses,
         NEW base, NEW tx \in SUBSET TxPlan,
         tx # {} => base \in IgpConfig,
         Conclude(p, status, base, tx)
  PROVE  TypeOK'
<1> DEFINE h == Head(expanded[p])
           artifact == [target |-> h.target, domain |-> h.domain, status |-> status, tx |-> tx]
           update == [target |-> h.target, domain |-> h.domain, base |-> base,
                      tx |-> CHOOSE x \in tx : TRUE]
<1>1. h \in ExpandedTarget /\ Tail(expanded[p]) \in Seq(ExpandedTarget)
  BY HeadTailProperties DEF TypeOK
<1>2. artifact \in Artifact
  BY <1>1 DEF Artifact, ExpandedTarget
<1>3. Append(artifacts[p], artifact) \in Seq(Artifact)
  BY <1>2, AppendProperties DEF TypeOK
<1>4. tx # {} => Append(exec[p], update) \in Seq(ExecutableUpdate)
  <2>1. tx # {} => update \in ExecutableUpdate
    BY <1>1 DEF ExecutableUpdate, ExpandedTarget
  <2> QED
    BY <2>1, AppendProperties DEF TypeOK
<1> HIDE DEF h, artifact, update
<1>5. /\ expanded' = [expanded EXCEPT ![p] = Tail(@)]
      /\ artifacts' = [artifacts EXCEPT ![p] = Append(@, artifact)]
      /\ exec' = [exec EXCEPT ![p] =
                    IF status = "update_recommended" /\ tx # {} THEN Append(@, update) ELSE @]
      /\ draft' = [draft EXCEPT ![p] = {}]
      /\ UNCHANGED <<chainVars, pc, args, todo, reading, plan, sent, err, files, exit, runs>>
  BY DEF Conclude, h, artifact, update
<1> QED
  BY <1>1, <1>3, <1>4, <1>5 DEF TypeOK, chainVars

(* What is proposed for a target that was read is a configuration.         *)
LEMMA TargetProposalType ==
  ASSUME NEW t \in DOMAIN Targets, NEW base \in IgpConfig,
         NEW sample \in Samples, NEW quote \in Quotes,
         ClampsValid(Targets[t].gas, Targets[t].rate)
  PROVE  ProposalFor(t, base, sample, quote) \in IgpConfig
<1>1. /\ Targets[t].gas \in [mode : {"sample", "preserve"}, min : Nat, max : Nat]
      /\ Targets[t].rate \in [min : Nat, max : Nat]
  BY TargetTypes DEF TargetConfig, GasSections, ClampSections
<1>2. base["gasOverhead"] \in Nat
  BY DEF IgpConfig, Fields
<1>3. sample \in Nat /\ quote \in [num : Nat \ {0}, den : Nat \ {0}]
  BY ReconcilerAssumption
<1> QED
  BY <1>1, <1>2, <1>3, ProposalType DEF ProposalFor

(* What the evaluation of a target decides, and from what: the facts that  *)
(* every later proof about an executable update rests on.                  *)
Drafted(p, x) ==
  LET h == Head(expanded[p]) IN
  /\ x.base \in h.read
  /\ \E sample \in Samples, quote \in Quotes :
       x.proposed = ProposalFor(h.target, x.base, sample, quote)
  /\ x.oracle = OracleToWrite(OriginOf(h.target), h.domain)
  /\ ClampsValid(Targets[h.target].gas, Targets[h.target].rate)
  /\ ~DecisionPanics(x.base, x.proposed)
  /\ x.status = Decide(x.base, x.proposed)

Drafts(p) ==
  \E x \in Draft :
    /\ Drafted(p, x)
    /\ expanded[p] # <<>> /\ todo[p] = {}
    /\ draft' = [draft EXCEPT ![p] = {x}]
    /\ UNCHANGED <<chainVars, pc, args, todo, reading, expanded, artifacts, exec, plan, sent,
                   err, files, exit, runs>>

\* The transaction planned for a decision.
Planned(x) == [oracle |-> x.oracle, config |-> x.proposed, owner |-> owner[x.oracle]]

(* A planned transaction names an oracle and its owner.                    *)
LEMMA PlannedType ==
  ASSUME TypeOK, NEW x \in Draft, x.oracle # NoOracle
  PROVE  Planned(x) \in TxPlan
BY DEF Planned, Draft, TxPlan, TypeOK

(* An evaluation has nothing to do for the target, or drafts a decision.   *)
LEMMA EvaluateDrafts ==
  ASSUME TypeOK, NEW p \in Procs, Evaluate(p)
  PROVE  (\E base : Conclude(p, "noop", base, {})) \/ Drafts(p)
<1> DEFINE h == Head(expanded[p])
<1>1. PICK base \in h.read, sample \in Samples, quote \in Quotes :
        LET proposed == ProposalFor(h.target, base, sample, quote)
            status == Decide(base, proposed)
        IN  /\ ~DecisionPanics(base, proposed)
            /\ \/ status = "noop" /\ Conclude(p, status, base, {})
               \/ /\ status # "noop"
                  /\ draft' = [draft EXCEPT ![p] =
                       {[oracle |-> OracleToWrite(OriginOf(h.target), h.domain),
                         status |-> status, base |-> base, proposed |-> proposed]}]
                  /\ UNCHANGED <<chainVars, pc, args, todo, reading, expanded, artifacts,
                                 exec, plan, sent, err, files, exit, runs>>
  BY DEF Evaluate
<1> DEFINE proposed == ProposalFor(h.target, base, sample, quote)
           oracle == OracleToWrite(OriginOf(h.target), h.domain)
           x == [oracle |-> oracle, status |-> Decide(base, proposed), base |-> base,
                 proposed |-> proposed]
<1>2. /\ expanded[p] # <<>> /\ todo[p] = {}
      /\ ClampsValid(Targets[h.target].gas, Targets[h.target].rate)
  BY DEF Evaluate, Evaluating
<1>3. h \in ExpandedTarget
  BY <1>2, HeadTailProperties DEF TypeOK
<1>4. /\ h.target \in DOMAIN Targets /\ h.domain \in Domains /\ base \in IgpConfig
      /\ OriginOf(h.target) \in Origins
  BY <1>3, OriginType DEF ExpandedTarget
<1>5. proposed \in IgpConfig
  BY <1>2, <1>4, TargetProposalType
<1>6. oracle \in Oracles \cup {NoOracle}
  BY <1>4, ReconcilerAssumption DEF OracleToWrite, TypeOK, Entries
<1>7. Decide(base, proposed) \in Statuses
  BY DEF Decide, Statuses
<1>8. CASE draft' = [draft EXCEPT ![p] = {x}]
           /\ UNCHANGED <<chainVars, pc, args, todo, reading, expanded, artifacts,
                          exec, plan, sent, err, files, exit, runs>>
  <2>1. ~DecisionPanics(base, proposed)
    BY <1>1
  <2> HIDE DEF proposed, oracle, h
  <2>2. x \in Draft
    BY <1>4, <1>5, <1>6, <1>7 DEF Draft
  <2>3. Drafted(p, x)
    BY <1>2, <2>1 DEF Drafted, proposed, oracle, h
  <2> QED
    BY <1>2, <1>8, <2>2, <2>3 DEF Drafts
<1>9. CASE Decide(base, proposed) = "noop"
           /\ Conclude(p, Decide(base, proposed), base, {})
  BY <1>9
<1> QED
  BY <1>1, <1>8, <1>9

(* An evaluation step ends the run, drafts a decision, or concludes one    *)
(* target, with a transaction only where one was drafted.                  *)
LEMMA AssessConcludes ==
  ASSUME TypeOK, Drafting, NEW p \in Procs, Assess(p)
  PROVE  /\ pc[p] = "work"
         /\ \/ /\ EvaluationPanics(p)
               /\ UNCHANGED <<todo, reading, expanded, draft, artifacts, exec>>
            \/ Drafts(p)
            \/ /\ expanded[p] # <<>>
               /\ \/ \E status \in Statuses : \E base : Conclude(p, status, base, {})
                  \/ \E x \in draft[p] : /\ x.oracle # NoOracle
                                        /\ Conclude(p, x.status, x.base, {Planned(x)})
<1>0. pc[p] = "work"
  BY DEF Assess, ReportReadError, ProposalFails, Evaluate, EvaluationPanics, Evaluating,
         PlanUpdate, PlanUpdateFails
<1>1. CASE ReportReadError(p)
  BY <1>0, <1>1 DEF ReportReadError, Evaluating, Statuses
<1>2. CASE ProposalFails(p)
  BY <1>0, <1>2 DEF ProposalFails, Evaluating, Statuses
<1>3. CASE Evaluate(p)
  <2>1. expanded[p] # <<>> /\ "noop" \in Statuses
    BY <1>3 DEF Evaluate, Evaluating, Statuses
  <2> QED
    BY <1>0, <1>3, <2>1, EvaluateDrafts
<1>4. CASE EvaluationPanics(p)
  BY <1>0, <1>4 DEF EvaluationPanics, localVars
<1>5. CASE PlanUpdate(p)
  BY <1>0, <1>5 DEF PlanUpdate, Planned, Drafting
<1>6. CASE PlanUpdateFails(p)
  <2>1. PICK x \in draft[p] : Conclude(p, x.status, x.base, {})
    BY <1>6 DEF PlanUpdateFails
  <2>2. x.status \in Statuses
    BY DEF TypeOK, Draft
  <2> QED
    BY <1>0, <2>1, <2>2 DEF Drafting
<1> QED
  BY <1>1, <1>2, <1>3, <1>4, <1>5, <1>6 DEF Assess

(* Every step of the evaluation.                                           *)
LEMMA AssessTypes ==
  ASSUME TypeOK, Drafting, NEW p \in Procs, Assess(p)
  PROVE  TypeOK'
<1>1. CASE EvaluationPanics(p)
  BY <1>1 DEF EvaluationPanics, Stop, TypeOK, chainVars, localVars, ExitCodes
<1>2. CASE Drafts(p)
  BY <1>2 DEF Drafts, TypeOK, chainVars
<1>3. CASE expanded[p] # <<>> /\ \E status \in Statuses : \E base :
           Conclude(p, status, base, {})
  BY <1>3, ConcludeTypes
<1>4. CASE expanded[p] # <<>> /\ \E x \in draft[p] :
             x.oracle # NoOracle /\ Conclude(p, x.status, x.base, {Planned(x)})
  <2>1. PICK x \in draft[p] : x.oracle # NoOracle /\ Conclude(p, x.status, x.base, {Planned(x)})
    BY <1>4
  <2>2. x \in Draft
    BY DEF TypeOK
  <2>3. x.status \in Statuses /\ x.base \in IgpConfig /\ Planned(x) \in TxPlan
    BY <2>1, <2>2, PlannedType DEF Draft
  <2> QED
    BY <1>4, <2>1, <2>3, ConcludeTypes
<1> QED
  BY <1>1, <1>2, <1>3, <1>4, AssessConcludes

(* Passing the gates, or being refused by them.                            *)
LEMMA GateTypes ==
  ASSUME TypeOK, NEW p \in Procs, Gate(p)
  PROVE  TypeOK'
<1>1. CASE ReviewOnly(p)
  BY <1>1 DEF ReviewOnly, TypeOK, chainVars, localVars
<1>2. CASE RefuseWrite(p)
  BY <1>2, WriteCodes DEF RefuseWrite, Stop, TypeOK, chainVars, localVars, ExitCodes
<1>3. CASE BuildWritePlan(p)
  BY <1>3, UpdatesCounted DEF BuildWritePlan, TypeOK, chainVars
<1> QED
  BY <1>1, <1>2, <1>3 DEF Gate

(* A failed submission.                                                    *)
LEMMA FailTypes ==
  ASSUME TypeOK, NEW p \in Procs, NEW code \in {20, 30}, Fail(p, code),
         UNCHANGED <<chainVars, sent>>
  PROVE  TypeOK'
BY DEF Fail, TypeOK, chainVars

(* Every step of a submission.                                             *)
LEMMA SubmitTypes ==
  ASSUME TypeOK, Keyed, NEW p \in Procs, Submit(p)
  PROVE  TypeOK'
<1>1. CASE SubmitRefused(p)
  <2>1. SubmitError(p) \in {20, 30}
    BY <1>1 DEF SubmitRefused, SubmitError
  <2> QED
    BY <1>1, <2>1, FailTypes DEF SubmitRefused
<1>2. CASE CheckOwner(p)
  <2>1. CASE pc' = [pc EXCEPT ![p] = "broadcast"] /\ UNCHANGED <<chainVars, localVars, exit, runs>>
    BY <2>1 DEF TypeOK, chainVars, localVars
  <2>2. CASE Fail(p, 30) /\ UNCHANGED <<chainVars, sent>>
    BY <2>2, FailTypes
  <2> QED
    BY <1>2, <2>1, <2>2 DEF CheckOwner
<1>3. CASE SubmitFails(p)
  BY <1>3, FailTypes DEF SubmitFails
<1>4. CASE Broadcast(p)
  <2> DEFINE u == TheUpdate(p)
             tx == [target |-> u.target, domain |-> u.domain, base |-> u.base,
                    plan |-> u.tx, sender |-> Key(p), status |-> "pending"]
  <2>1. exec[p] # <<>> /\ Targets[u.target].signer \in DOMAIN Signers
    BY <1>4 DEF Keyed, Broadcast
  <2>2. u \in ExecutableUpdate
    BY <2>1, HeadTailProperties DEF TheUpdate, TypeOK
  <2>3. Key(p) \in Accounts
    BY <2>1, ReconcilerAssumption DEF Key, SignerConfig
  <2>4. tx \in Tx
    BY <2>2, <2>3 DEF ExecutableUpdate, Tx
  <2>5. Append(txs, tx) \in Seq(Tx) /\ Len(Append(txs, tx)) \in Nat
    BY <2>4, AppendProperties, LenProperties DEF TypeOK
  <2>6. txs' = Append(txs, tx)
    BY <1>4 DEF Broadcast
  <2> HIDE DEF u, tx
  <2> QED
    BY <1>4, <2>5, <2>6 DEF Broadcast, TypeOK
<1>5. CASE ReceiveReceipt(p)
  BY <1>5 DEF ReceiveReceipt, TypeOK, chainVars
<1>6. CASE GiveUp(p)
  BY <1>6, FailTypes DEF GiveUp
<1> QED
  BY <1>1, <1>2, <1>3, <1>4, <1>5, <1>6 DEF Submit

(* Every step of the report, and the end of a killed run.                  *)
LEMMA ReportTypes ==
  ASSUME TypeOK, NEW p \in Procs, Report(p) \/ Killed(p)
  PROVE  TypeOK'
<1>1. CASE WriteSummary(p)
  BY <1>1 DEF WriteSummary, TypeOK, chainVars
<1>2. CASE WritePlanJson(p)
  <2>1. PlanExitCode(p) \in {0, 10, 20, 30} /\ err[p] \in {0, 20, 30}
    BY DEF PlanExitCode, TypeOK
  <2> QED
    BY <1>2, <2>1 DEF WritePlanJson, Stop, TypeOK, chainVars, ExitCodes
<1>3. CASE FileFails(p)
  <2>1. files' \in [Procs -> SUBSET {"summary", "plan"}]
    BY <1>3 DEF FileFails, TypeOK
  <2> QED
    BY <1>3, <2>1 DEF FileFails, Stop, TypeOK, chainVars, ExitCodes
<1>4. CASE Killed(p)
  BY <1>4 DEF Killed, Stop, TypeOK, chainVars, localVars, ExitCodes
<1> QED
  BY <1>1, <1>2, <1>3, <1>4 DEF Report

(* What the chains have held keeps its type.                               *)
LEMMA RememberTypes ==
  ASSUME TypeOK, Remember,
         igp' \in [Origins -> [Domains -> Entries]],
         gasData' \in [Oracles -> [Domains -> GasData]]
  PROVE  /\ seenData' \in [Oracles -> [Domains -> SUBSET GasData]]
         /\ seenOverheads' \in [Origins -> [Domains -> SUBSET Nat]]
<1>1. \A o \in Origins, d \in Domains : igp'[o][d].overhead \in Nat
  BY DEF Entries
<1> QED
  BY <1>1 DEF Remember, TypeOK

(* Including or dropping a transaction.                                    *)
LEMMA ChainTypes ==
  ASSUME TypeOK, ChainStep
  PROVE  TypeOK'
<1>1. PICK i \in DOMAIN txs : Include(i) \/ Drop(i)
  BY DEF ChainStep
<1>2. i \in 1..Len(txs) /\ txs[i] \in Tx
  BY ElementOfSeq, LenProperties DEF TypeOK
<1>3. \A s \in {"applied", "reverted", "dropped"} : [txs EXCEPT ![i].status = s] \in Seq(Tx)
  <2>1. \A s \in {"applied", "reverted", "dropped"} : [txs[i] EXCEPT !.status = s] \in Tx
    BY <1>2 DEF Tx
  <2> QED
    BY <1>2, <2>1, ExceptSeq DEF TypeOK
<1>4. CASE Include(i)
  <2> DEFINE tx == txs[i]
             o == OriginOf(tx.target)
             config == tx.plan.config
  <2>1. /\ o \in Origins /\ tx.domain \in Domains
        /\ tx.plan.oracle \in Oracles /\ config \in IgpConfig
    BY <1>2, OriginType DEF Tx, TxPlan
  <2>2. DataOf(config) \in GasData /\ config["gasOverhead"] \in Nat
    BY <2>1 DEF DataOf, GasData, IgpConfig, Fields
  <2>3. gasData' \in [Oracles -> [Domains -> GasData]]
    BY <1>4, <2>1, <2>2 DEF Include, TypeOK
  <2>4. [oracle |-> tx.plan.oracle, overhead |-> config["gasOverhead"]] \in Entries
    BY <2>1, <2>2 DEF Entries
  <2>5. igp' \in [Origins -> [Domains -> Entries]]
    BY <1>4, <2>1, <2>4 DEF Include, TypeOK
  <2>6. txs' \in Seq(Tx)
    BY <1>3, <1>4 DEF Include
  <2>7. /\ seenData' \in [Oracles -> [Domains -> SUBSET GasData]]
        /\ seenOverheads' \in [Origins -> [Domains -> SUBSET Nat]]
    BY <1>4, <2>3, <2>5, RememberTypes DEF Include
  <2> QED
    BY <1>4, <2>3, <2>5, <2>6, <2>7 DEF Include, TypeOK, localVars
<1>5. CASE Drop(i)
  BY <1>3, <1>5 DEF Drop, TypeOK, localVars
<1> QED
  BY <1>1, <1>4, <1>5

(* The steps of the owners.                                                *)
LEMMA OwnerTypes ==
  ASSUME TypeOK, OwnerStep
  PROVE  TypeOK'
<1>1. externals' \in 0..MaxExternal
  BY ReconcilerAssumption
  DEF OwnerStep, OwnerSetsGasData, OwnerSetsIgp, TransferOwnership, OwnerActs, TypeOK
<1>2. ASSUME NEW a \in Oracles, NEW d \in Domains, OwnerSetsGasData(a, d)
      PROVE  TypeOK'
  <2>1. gasData' \in [Oracles -> [Domains -> GasData]]
    <3>1. \A price \in Values, rate \in Values :
            [f \in {"gasPrice", "tokenExchangeRate"} |-> IF f = "gasPrice" THEN price ELSE rate]
              \in GasData
      BY ReconcilerAssumption DEF GasData
    <3> QED
      BY <1>2, <3>1 DEF OwnerSetsGasData, TypeOK
  <2>2. /\ seenData' \in [Oracles -> [Domains -> SUBSET GasData]]
        /\ seenOverheads' \in [Origins -> [Domains -> SUBSET Nat]]
    BY <1>2, <2>1, RememberTypes DEF OwnerSetsGasData, TypeOK
  <2> QED
    BY <1>1, <1>2, <2>1, <2>2 DEF OwnerSetsGasData, OwnerActs, TypeOK, localVars
<1>3. ASSUME NEW o \in Origins, NEW d \in Domains, OwnerSetsIgp(o, d)
      PROVE  TypeOK'
  <2>1. igp' \in [Origins -> [Domains -> Entries]]
    <3>1. \A a \in Oracles \cup {NoOracle}, h \in Overheads :
            [oracle |-> a, overhead |-> h] \in Entries
      BY ReconcilerAssumption DEF Entries
    <3> QED
      BY <1>3, <3>1 DEF OwnerSetsIgp, TypeOK
  <2>2. /\ seenData' \in [Oracles -> [Domains -> SUBSET GasData]]
        /\ seenOverheads' \in [Origins -> [Domains -> SUBSET Nat]]
    BY <1>3, <2>1, RememberTypes DEF OwnerSetsIgp, TypeOK
  <2> QED
    BY <1>1, <1>3, <2>1, <2>2 DEF OwnerSetsIgp, OwnerActs, TypeOK, localVars
<1>4. ASSUME NEW a \in Oracles, TransferOwnership(a)
      PROVE  TypeOK'
  <2>1. /\ seenData' \in [Oracles -> [Domains -> SUBSET GasData]]
        /\ seenOverheads' \in [Origins -> [Domains -> SUBSET Nat]]
    BY <1>4, RememberTypes DEF TransferOwnership, TypeOK
  <2> QED
    BY <1>1, <1>4, <2>1 DEF TransferOwnership, OwnerActs, TypeOK, localVars
<1> QED
  BY <1>2, <1>3, <1>4 DEF OwnerStep

(* Types are kept by every step, given the signer of a broadcast.          *)
LEMMA TypeStep ==
  ASSUME TypeOK, Keyed, Drafting, [Next]_vars
  PROVE  TypeOK'
<1>1. ASSUME NEW p \in Procs, Step(p) \/ Killed(p)
      PROVE  TypeOK'
  BY <1>1, PrepareTypes, AssessTypes, GateTypes, SubmitTypes, ReportTypes DEF Step
<1>2. CASE UNCHANGED vars
  BY <1>2 DEF TypeOK, vars, chainVars, localVars
<1> QED
  BY <1>1, <1>2, StartTypes, ChainTypes, OwnerTypes DEF Next

----------------------------------------------------------------------------
(* The inductive invariant: where everything a run holds comes from.       *)

\* Gas data whose prices fit: delta_bps of any two of them does not wrap.
FittingData == {data \in GasData : PricesFit(data)}

\* The clamps, what the owners set and what the chains start from all keep
\* clear of the end of a u128.
WordsSuffice ==
  /\ \A t \in DOMAIN Targets : ClampsFit(Targets[t].gas, Targets[t].rate)
  /\ \A value \in Values : FitsWord(value)
  /\ \A g \in Genesis, a \in Oracles, d \in Domains : g.gasData[a][d] \in FittingData

\* The build stops at an overflow, as that of cargo build does, or there is
\* none to stop at.
NothingWraps == OverflowChecks \/ WordsSuffice

(* The change a transaction makes, against the configuration it was        *)
(* measured from.  The bound needs products that do not wrap.              *)
Sound(t, d, base, tx) ==
  LET o == OriginOf(t) IN
  /\ Targets[t].enabled
  /\ Known(o, d, base)
  /\ NothingWraps => BoundedChange(base, tx.config)
  /\ WordsSuffice => DataOf(tx.config) \in FittingData
  /\ ~ZeroCurrent(base, tx.config)
  /\ tx.config["gasOverhead"] = base["gasOverhead"]
  /\ Home[tx.oracle] = o
  /\ EVM(o) \/ tx.oracle = CosmosIgp[o]

SoundReads ==
  {x \in ExpandedTarget :
     /\ Targets[x.target].enabled
     /\ \A base \in x.read : Known(OriginOf(x.target), x.domain, base)}

\* An executable update is one of the updates counted in the plan.
Counted(p, u) ==
  \E j \in Updates(p) :
    /\ artifacts[p][j].target = u.target
    /\ u.tx = CHOOSE x \in artifacts[p][j].tx : TRUE

SoundUpdates(p) ==
  {u \in ExecutableUpdate : Sound(u.target, u.domain, u.base, u.tx) /\ Counted(p, u)}

SoundTxs ==
  {x \in Tx :
     /\ Sound(x.target, x.domain, x.base, x.plan)
     /\ Targets[x.target].writeEnabled
     /\ Targets[x.target].signer \in DOMAIN Signers
     /\ Signers[Targets[x.target].signer].from \in {x.plan.owner, Alias}}

Remembered ==
  /\ \A a \in Oracles, d \in Domains : gasData[a][d] \in seenData[a][d]
  /\ \A o \in Origins, d \in Domains : igp[o][d].overhead \in seenOverheads[o][d]

\* Where no value of the world is too large, none ever gets on chain.
SeenFits ==
  WordsSuffice => \A a \in Oracles, d \in Domains : seenData[a][d] \subseteq FittingData

HomesKept == \A o \in Origins, d \in Domains : HomeOnly(o, igp[o][d].oracle)

ReadsSound ==
  \A p \in Procs :
    /\ \A h \in todo[p] : Targets[h.target].enabled
    /\ expanded[p] \in Seq(SoundReads)

\* A read that is half done has asked the chain of its origin.
HalfReadsSound ==
  \A p \in Procs : \A a \in reading[p], h \in todo[p] :
    (\A other \in todo[p] : Before(h, other)) => Home[a] = OriginOf(h.target)

\* A decision to update leads to a sound change, once it is planned.
SoundDraft(h, x) ==
  x.status = "update_recommended" /\ x.oracle # NoOracle =>
    Sound(h.target, h.domain, x.base, [oracle |-> x.oracle, config |-> x.proposed])

DraftsSound == \A p \in Procs : \A x \in draft[p] : SoundDraft(Head(expanded[p]), x)

UpdatesSound == \A p \in Procs : exec[p] \in Seq(SoundUpdates(p))

GatesPassed ==
  \A p \in Procs :
    /\ pc[p] \in {"submit", "broadcast"} =>
         \A j \in Updates(p) : ~Blocked(p, j) /\ SignerErrorAt(p, j) = 0
    /\ pc[p] = "broadcast" => exec[p] # <<>>

IInv ==
  /\ TypeOK
  /\ Remembered
  /\ SeenFits
  /\ HomesKept
  /\ ReadsSound
  /\ HalfReadsSound
  /\ Drafting
  /\ DraftsSound
  /\ UpdatesSound
  /\ GatesPassed
  /\ txs \in Seq(SoundTxs)

(* A gate that was passed has looked at every update.                      *)
LEMMA GateLooksAtAll ==
  ASSUME TypeOK, NEW p \in Procs, WritePlanError(p) = 0
  PROVE  \A j \in Updates(p) : ~Blocked(p, j) /\ SignerErrorAt(p, j) = 0
<1> SUFFICES ASSUME Updates(p) # {}
             PROVE  \A j \in Updates(p) : ~Blocked(p, j) /\ SignerErrorAt(p, j) = 0
  OBVIOUS
<1>1. (\A j \in Updates(p) : ~Blocked(p, j)) /\ FirstSignerError(p) = 0
  BY DEF WritePlanError
<1> DEFINE bad == {k \in Updates(p) : SignerErrorAt(p, k) # 0}
<1>2. SUFFICES ASSUME bad # {} PROVE FALSE
  BY <1>1
<1>3. bad \in SUBSET Nat
  <2>1. Updates(p) \subseteq 1..Len(artifacts[p]) /\ Len(artifacts[p]) \in Nat
    BY UpdatesCounted, LenProperties DEF TypeOK
  <2> QED
    BY <2>1
<1>4. \E k \in bad : \A j \in bad : k <= j
  BY <1>2, <1>3, LeastExists
<1>5. (CHOOSE k \in bad : \A j \in bad : k <= j) \in bad
  BY <1>4
<1>6. FirstSignerError(p) # 0
  BY <1>2, <1>5 DEF FirstSignerError
<1> QED
  BY <1>1, <1>6

(* The update that is about to be broadcast, and its gate.                 *)
LEMMA BroadcastGated ==
  ASSUME IInv, NEW p \in Procs, pc[p] = "broadcast"
  PROVE  /\ exec[p] # <<>>
         /\ TheUpdate(p) \in SoundUpdates(p)
         /\ Targets[TheUpdate(p).target].writeEnabled
         /\ Targets[TheUpdate(p).target].signer \in DOMAIN Signers
         /\ Signers[Targets[TheUpdate(p).target].signer].from
              \in {TheUpdate(p).tx.owner, Alias}
<1> DEFINE u == TheUpdate(p)
<1>1. exec[p] # <<>> /\ exec[p] \in Seq(SoundUpdates(p))
  BY DEF IInv, GatesPassed, UpdatesSound
<1>2. u \in SoundUpdates(p)
  BY <1>1, HeadTailProperties DEF TheUpdate
<1>3. PICK j \in Updates(p) :
        /\ artifacts[p][j].target = u.target
        /\ u.tx = CHOOSE x \in artifacts[p][j].tx : TRUE
  BY <1>2 DEF SoundUpdates, Counted
<1>4. ~Blocked(p, j) /\ SignerErrorAt(p, j) = 0
  BY <1>3 DEF IInv, GatesPassed
<1>5. SignerError(u.target, u.tx) = 0
  BY <1>3, <1>4 DEF SignerErrorAt
<1> HIDE DEF u
<1>6. /\ Targets[u.target].signer \in DOMAIN Signers
      /\ Signers[Targets[u.target].signer].from \in {u.tx.owner, Alias}
  BY <1>5 DEF SignerError
<1> QED
  BY <1>1, <1>2, <1>3, <1>4, <1>6 DEF Blocked, u

(* So the signer's key can be looked up.                                   *)
LEMMA InvKeyed == IInv => Keyed
BY BroadcastGated DEF Keyed

----------------------------------------------------------------------------
(* The steps of the runs.                                                  *)

\* What a run never touches.
ChainsAlone == UNCHANGED <<igp, gasData, owner, seenData, seenOverheads, externals>>

(* No step of a run changes a chain: only the inclusion of a transaction   *)
(* does.                                                                   *)
LEMMA RunsLeaveChains ==
  ASSUME NEW p \in Procs,
         Step(p) \/ Killed(p) \/ \E r \in Requests : Start(p, r)
  PROVE  ChainsAlone
<1>1. CASE \E r \in Requests : Start(p, r)
  BY <1>1 DEF Start, ChainsAlone, chainVars
<1>2. CASE Prepare(p)
  BY <1>2 DEF Prepare, ReadDomain, ReadOracle, ReadGasData, ReadDomainFails, ListConfigs,
              Listing, ListFails,
              TakeRead, ChainsAlone, chainVars
<1>3. CASE Assess(p)
  BY <1>3 DEF Assess, ReportReadError, ProposalFails, Evaluate, PlanUpdate, PlanUpdateFails,
              EvaluationPanics, Conclude, ChainsAlone, chainVars
<1>4. CASE Gate(p)
  BY <1>4 DEF Gate, ReviewOnly, RefuseWrite, BuildWritePlan, ChainsAlone, chainVars
<1>5. CASE Submit(p)
  BY <1>5 DEF Submit, SubmitRefused, CheckOwner, SubmitFails, Broadcast, ReceiveReceipt,
              GiveUp, ChainsAlone, chainVars
<1>6. CASE Report(p) \/ Killed(p)
  BY <1>6 DEF Report, WriteSummary, WritePlanJson, FileFails, Killed, ChainsAlone, chainVars
<1> QED
  BY <1>1, <1>2, <1>3, <1>4, <1>5, <1>6 DEF Step

(* The chains remember: either they stay as they are, or the step records  *)
(* what they show afterwards.                                              *)
LEMMA ChainsRemember ==
  ASSUME [Next]_vars
  PROVE  Remember \/ UNCHANGED <<igp, gasData, seenData, seenOverheads>>
<1>1. ASSUME NEW p \in Procs, Step(p) \/ Killed(p) \/ \E r \in Requests : Start(p, r)
      PROVE  UNCHANGED <<igp, gasData, seenData, seenOverheads>>
  BY <1>1, RunsLeaveChains DEF ChainsAlone
<1>2. CASE ChainStep
  BY <1>2 DEF ChainStep, Include, Drop
<1>3. CASE OwnerStep
  BY <1>3 DEF OwnerStep, OwnerSetsGasData, OwnerSetsIgp, TransferOwnership
<1>4. CASE UNCHANGED vars
  BY <1>4 DEF vars, chainVars
<1> QED
  BY <1>1, <1>2, <1>3, <1>4 DEF Next

(* What has been seen stays seen, and what is on chain is seen.            *)
LEMMA SeenGrows ==
  ASSUME TypeOK, Remembered, [Next]_vars
  PROVE  /\ \A a \in Oracles, d \in Domains : seenData[a][d] \subseteq seenData'[a][d]
         /\ \A o \in Origins, d \in Domains : seenOverheads[o][d] \subseteq seenOverheads'[o][d]
         /\ Remembered'
<1>1. CASE Remember
  BY <1>1 DEF Remember, Remembered
<1>2. CASE UNCHANGED <<igp, gasData, seenData, seenOverheads>>
  BY <1>2 DEF Remembered
<1> QED
  BY <1>1, <1>2, ChainsRemember

(* What is known stays known.                                              *)
LEMMA KnownStays ==
  ASSUME IInv, [Next]_vars, NEW o \in Origins, NEW d \in Domains, NEW base,
         Known(o, d, base)
  PROVE  Known(o, d, base)'
BY SeenGrows DEF IInv, Known

(* What is on chain now is known, in whichever gas oracle of the chain.    *)
LEMMA ViewKnown ==
  ASSUME IInv, NEW o \in Origins, NEW d \in Domains, NEW a \in Oracles, Home[a] = o
  PROVE  Known(o, d, Configuration(igp[o][d], gasData[a][d]))
<1> DEFINE config == Configuration(igp[o][d], gasData[a][d])
<1>1. config["gasOverhead"] = igp[o][d].overhead
  BY DEF Configuration, Fields
<1>2. /\ config["gasPrice"] = gasData[a][d]["gasPrice"]
      /\ config["tokenExchangeRate"] = gasData[a][d]["tokenExchangeRate"]
  BY DEF Configuration, Fields
<1>3. gasData[a][d] \in GasData
  BY DEF IInv, TypeOK
<1> HIDE DEF config
<1>4. DataOf(config) = gasData[a][d]
  BY <1>2, <1>3 DEF DataOf, GasData
<1>5. Known(o, d, config)
  BY <1>1, <1>4 DEF Known, IInv, Remembered
<1> QED
  BY <1>5 DEF config

(* So is everything that a chain answers about a domain.                   *)
LEMMA ViewsKnown ==
  ASSUME IInv, NEW o \in Origins, NEW d \in Domains
  PROVE  \A base \in View(o, d) : Known(o, d, base)
<1>1. CASE igp[o][d].oracle = NoOracle
  BY <1>1 DEF View
<1>2. CASE igp[o][d].oracle # NoOracle
  <2>1. igp[o][d].oracle \in Oracles /\ Home[igp[o][d].oracle] = o
    BY <1>2 DEF IInv, TypeOK, Entries, HomesKept, HomeOnly
  <2> QED
    BY <1>2, <2>1, ViewKnown DEF View
<1> QED
  BY <1>1, <1>2

(* Soundness outlives every step.                                          *)
LEMMA SoundStays ==
  ASSUME IInv, [Next]_vars,
         NEW t \in DOMAIN Targets, NEW d \in Domains, NEW base, NEW tx,
         Sound(t, d, base, tx)
  PROVE  Sound(t, d, base, tx)'
<1>1. OriginOf(t) \in Origins
  BY OriginType
<1>2. Known(OriginOf(t), d, base) /\ Known(OriginOf(t), d, base)'
  BY <1>1, KnownStays DEF Sound
<1> QED
  BY <1>2 DEF Sound, OriginOf, EVM

(* Sound reads and transactions stay sound.                                *)
LEMMA SoundSetsGrow ==
  ASSUME IInv, [Next]_vars
  PROVE  SoundReads \subseteq SoundReads' /\ SoundTxs \subseteq SoundTxs'
<1>1. ASSUME NEW x \in SoundReads
      PROVE  x \in SoundReads'
  <2>1. x \in ExpandedTarget /\ OriginOf(x.target) \in Origins /\ x.domain \in Domains
    BY OriginType DEF SoundReads, ExpandedTarget
  <2>2. \A base \in x.read : Known(OriginOf(x.target), x.domain, base)'
    BY <2>1, KnownStays DEF SoundReads
  <2> QED
    BY <2>1, <2>2 DEF SoundReads, OriginOf
<1>2. ASSUME NEW x \in SoundTxs
      PROVE  x \in SoundTxs'
  <2>1. /\ x \in Tx /\ Sound(x.target, x.domain, x.base, x.plan)
        /\ x.target \in DOMAIN Targets /\ x.domain \in Domains
    BY DEF SoundTxs, Tx
  <2>2. Sound(x.target, x.domain, x.base, x.plan)'
    BY <2>1, SoundStays
  <2> QED
    BY <2>1, <2>2 DEF SoundTxs
<1> QED
  BY <1>1, <1>2

(* Sound updates of a run stay sound while its artifacts stay in place.    *)
LEMMA SoundUpdatesGrow ==
  ASSUME IInv, [Next]_vars, NEW p \in Procs,
         \A j \in Updates(p) : j \in Updates(p)' /\ artifacts'[p][j] = artifacts[p][j]
  PROVE  SoundUpdates(p) \subseteq SoundUpdates(p)'
<1> SUFFICES ASSUME NEW u \in SoundUpdates(p)
             PROVE  u \in SoundUpdates(p)'
  OBVIOUS
<1>1. /\ u \in ExecutableUpdate /\ Sound(u.target, u.domain, u.base, u.tx)
      /\ u.target \in DOMAIN Targets /\ u.domain \in Domains
  BY DEF SoundUpdates, ExecutableUpdate
<1>2. Sound(u.target, u.domain, u.base, u.tx)'
  BY <1>1, SoundStays
<1>3. Counted(p, u)'
  BY DEF SoundUpdates, Counted
<1> QED
  BY <1>1, <1>2, <1>3 DEF SoundUpdates

(* After the evaluation nothing that was read or concluded changes.        *)
LEMMA LaterStepsKeep ==
  ASSUME NEW p \in Procs, Gate(p) \/ Submit(p) \/ Report(p) \/ Killed(p)
  PROVE  UNCHANGED <<todo, reading, expanded, draft, artifacts, exec>>
<1>1. CASE Gate(p)
  BY <1>1 DEF Gate, ReviewOnly, RefuseWrite, BuildWritePlan, localVars
<1>2. CASE Submit(p)
  BY <1>2 DEF Submit, SubmitRefused, CheckOwner, SubmitFails, Broadcast, ReceiveReceipt,
              GiveUp, Fail, localVars
<1>3. CASE Report(p) \/ Killed(p)
  BY <1>3 DEF Report, WriteSummary, WritePlanJson, FileFails, Killed, localVars
<1> QED
  BY <1>1, <1>2, <1>3

(* Nor do the chains and the owners reach into a run.                      *)
LEMMA OthersKeep ==
  ASSUME ChainStep \/ OwnerStep \/ UNCHANGED vars
  PROVE  UNCHANGED <<pc, todo, reading, expanded, draft, artifacts, exec>>
<1>1. CASE ChainStep
  BY <1>1 DEF ChainStep, Include, Drop, localVars
<1>2. CASE OwnerStep
  BY <1>2 DEF OwnerStep, OwnerSetsGasData, OwnerSetsIgp, TransferOwnership, OwnerActs, localVars
<1>3. CASE UNCHANGED vars
  BY <1>3 DEF vars, localVars
<1> QED
  BY <1>1, <1>2, <1>3

(* Every domain of the work list belongs to an enabled target, and what    *)
(* is read about it has been on chain.                                     *)
LEMMA ReadsStep ==
  ASSUME IInv, [Next]_vars
  PROVE  ReadsSound'
<1> SUFFICES ASSUME NEW q \in Procs
             PROVE  /\ \A h \in todo'[q] : Targets[h.target].enabled
                    /\ expanded'[q] \in Seq(SoundReads')
  BY DEF ReadsSound
<1>0. /\ \A h \in todo[q] : Targets[h.target].enabled
      /\ expanded[q] \in Seq(SoundReads')
  <2>1. expanded[q] \in Seq(SoundReads)
    BY DEF IInv, ReadsSound
  <2> QED
    BY <2>1, SoundSetsGrow, SeqMonotonic DEF IInv, ReadsSound
<1>1. ASSUME NEW p \in Procs, NEW r \in Requests, Start(p, r)
      PROVE  /\ \A h \in todo'[q] : Targets[h.target].enabled
             /\ expanded'[q] \in Seq(SoundReads')
  <2>1. \A h \in Worklist(r) : Targets[h.target].enabled
    BY DEF Worklist, Selected, Reads
  <2> QED
    BY <1>0, <1>1, <2>1 DEF Start, IInv, TypeOK
<1>2. ASSUME NEW p \in Procs, Prepare(p)
      PROVE  /\ \A h \in todo'[q] : Targets[h.target].enabled
             /\ expanded'[q] \in Seq(SoundReads')
  <2>1. ASSUME NEW h \in todo[p], NEW found \in Seq(SoundReads'), TakeRead(p, h, found)
        PROVE  /\ \A k \in todo'[q] : Targets[k.target].enabled
               /\ expanded'[q] \in Seq(SoundReads')
    <3>1. expanded[p] \in Seq(SoundReads')
      <4>1. expanded[p] \in Seq(SoundReads)
        BY DEF IInv, ReadsSound
      <4> QED
        BY <4>1, SoundSetsGrow, SeqMonotonic
    <3>2. expanded[p] \o found \in Seq(SoundReads')
      BY <3>1, <2>1, ConcatProperties
    <3> QED
      BY <1>0, <2>1, <3>2 DEF TakeRead, IInv, TypeOK
  <2>2. ASSUME NEW h \in todo[p], NEW d \in Domains, NEW read \in SUBSET IgpConfig,
               \A base \in read : Known(OriginOf(h.target), d, base)
        PROVE  [target |-> h.target, domain |-> d, read |-> read] \in SoundReads'
    <3>1. h.target \in DOMAIN Targets /\ Targets[h.target].enabled
      BY DEF IInv, ReadsSound, TypeOK, Read
    <3>2. [target |-> h.target, domain |-> d, read |-> read] \in SoundReads
      BY <2>2, <3>1 DEF SoundReads, ExpandedTarget
    <3> QED
      BY <3>2, SoundSetsGrow
  <2>3. ASSUME NEW h \in todo[p], h.domain # NoDomain, NEW read \in SUBSET IgpConfig,
               \A base \in read : Known(OriginOf(h.target), h.domain, base)
        PROVE  Expansion(h.target, h.domain, args[p], read) \in Seq(SoundReads')
    <3>1. h.domain \in Domains
      BY <2>3 DEF IInv, TypeOK, Read
    <3>2. [target |-> h.target, domain |-> h.domain, read |-> read] \in SoundReads'
      BY <2>2, <2>3, <3>1
    <3> QED
      BY <3>2 DEF Expansion
  <2>4. CASE ReadDomain(p)
    <3>1. PICK h \in todo[p] :
            /\ h.domain # NoDomain
            /\ TakeRead(p, h, Expansion(h.target, h.domain, args[p],
                                        View(OriginOf(h.target), h.domain)))
      BY <2>4 DEF ReadDomain
    <3>2. OriginOf(h.target) \in Origins /\ h.domain \in Domains
      BY <3>1, OriginType DEF IInv, TypeOK, Read
    <3>3. /\ View(OriginOf(h.target), h.domain) \in SUBSET IgpConfig
          /\ \A base \in View(OriginOf(h.target), h.domain) :
               Known(OriginOf(h.target), h.domain, base)
      BY <3>2, ViewType, ViewsKnown DEF IInv
    <3> QED
      BY <2>1, <2>3, <3>1, <3>3
  <2>5. CASE ReadDomainFails(p)
    BY <2>1, <2>3, <2>5 DEF ReadDomainFails
  <2>8. CASE ReadOracle(p)
    BY <1>0, <2>8 DEF ReadOracle
  <2>9. CASE ReadGasData(p)
    <3>1. PICK h \in todo[p], a \in reading[p] :
            /\ \A other \in todo[p] : Before(h, other)
            /\ h.domain # NoDomain
            /\ TakeRead(p, h, Expansion(h.target, h.domain, args[p],
                 {Configuration(igp[OriginOf(h.target)][h.domain], gasData[a][h.domain])}))
      BY <2>9 DEF ReadGasData, IsNext
    <3>3. /\ OriginOf(h.target) \in Origins /\ h.domain \in Domains
          /\ a \in Oracles /\ Home[a] = OriginOf(h.target)
      BY <3>1, OriginType DEF IInv, TypeOK, Read, HalfReadsSound
    <3> DEFINE base == Configuration(igp[OriginOf(h.target)][h.domain], gasData[a][h.domain])
    <3>4. base \in IgpConfig /\ Known(OriginOf(h.target), h.domain, base)
      BY <3>3, ConfigurationType, ViewKnown DEF IInv, TypeOK
    <3> HIDE DEF base
    <3>5. Expansion(h.target, h.domain, args[p], {base}) \in Seq(SoundReads')
      BY <2>3, <3>1, <3>4
    <3> QED
      BY <2>1, <3>1, <3>5 DEF base
  <2>6. CASE ListConfigs(p)
    <3>1. PICK h \in todo[p] : Listing(p, h)
      BY <2>6 DEF ListConfigs
    <3>2. IsFiniteSet(ListedDomains(p, h)) /\ ListedDomains(p, h) \subseteq Domains
      BY ReconcilerAssumption, FS_Subset DEF ListedDomains
    <3>3. SetToSeq(ListedDomains(p, h)) \in
            [1..Cardinality(ListedDomains(p, h)) -> ListedDomains(p, h)]
      BY <3>2, SetToSeqType
    <3>4. Cardinality(ListedDomains(p, h)) \in Nat
      BY <3>2, FS_CardinalityType
    <3> DEFINE order == SetToSeq(ListedDomains(p, h))
    <3>5. \A k \in 1..Cardinality(ListedDomains(p, h)) :
            [target |-> h.target, domain |-> order[k],
             read |-> View(OriginOf(h.target), order[k])] \in SoundReads'
      <4>1. h.target \in DOMAIN Targets /\ OriginOf(h.target) \in Origins
        BY OriginType DEF IInv, TypeOK, Read
      <4>2. \A d \in Domains : /\ View(OriginOf(h.target), d) \in SUBSET IgpConfig
                               /\ \A base \in View(OriginOf(h.target), d) :
                                    Known(OriginOf(h.target), d, base)
        BY <4>1, ViewType, ViewsKnown DEF IInv
      <4> QED
        BY <2>2, <3>1, <3>2, <3>3, <4>2
    <3>6. Listed(p, h) \in Seq(SoundReads')
      BY <3>4, <3>5 DEF Listed
    <3> QED
      BY <2>1, <3>1, <3>6 DEF Listing
  <2>7. CASE ListFails(p)
    BY <1>0, <2>7 DEF ListFails, localVars
  <2> QED
    BY <1>2, <2>4, <2>5, <2>6, <2>7, <2>8, <2>9 DEF Prepare
<1>3. ASSUME NEW p \in Procs, Assess(p)
      PROVE  /\ \A h \in todo'[q] : Targets[h.target].enabled
             /\ expanded'[q] \in Seq(SoundReads')
  <2>1. CASE UNCHANGED <<todo, expanded>>
    BY <1>0, <2>1
  <2>2. CASE expanded[p] # <<>> /\ \E status, base, tx : Conclude(p, status, base, tx)
    <3>1. todo' = todo /\ expanded' = [expanded EXCEPT ![p] = Tail(@)]
      BY <2>2 DEF Conclude
    <3>2. expanded[p] \in Seq(SoundReads)
      BY DEF IInv, ReadsSound
    <3>3. Tail(expanded[p]) \in Seq(SoundReads')
      BY <2>2, <3>2, SoundSetsGrow, SeqMonotonic, HeadTailProperties
    <3> QED
      BY <1>0, <3>1, <3>3 DEF IInv, TypeOK
  <2> QED
    BY <1>3, <2>1, <2>2, AssessConcludes DEF IInv, Drafts
<1>4. ASSUME NEW p \in Procs, Gate(p) \/ Submit(p) \/ Report(p) \/ Killed(p)
      PROVE  /\ \A h \in todo'[q] : Targets[h.target].enabled
             /\ expanded'[q] \in Seq(SoundReads')
  BY <1>0, <1>4, LaterStepsKeep
<1>5. CASE ChainStep \/ OwnerStep \/ UNCHANGED vars
  BY <1>0, <1>5, OthersKeep
<1> QED
  BY <1>1, <1>2, <1>3, <1>4, <1>5 DEF Next, Step

(* The gas oracle of a read that is half done is one of the origin read.   *)
LEMMA HalfReadsStep ==
  ASSUME IInv, [Next]_vars
  PROVE  HalfReadsSound'
<1> SUFFICES ASSUME NEW q \in Procs, NEW a \in reading'[q], NEW h \in todo'[q],
                    \A other \in todo'[q] : Before(h, other)
             PROVE  Home[a] = OriginOf(h.target)
  BY DEF HalfReadsSound, Before, OriginOf
<1>1. CASE reading'[q] = reading[q] /\ todo'[q] = todo[q]
  BY <1>1 DEF IInv, HalfReadsSound
<1>2. ASSUME NEW p \in Procs,
             reading' = [reading EXCEPT ![p] = {}] /\ \E S : todo' = [todo EXCEPT ![p] = S]
      PROVE  FALSE \/ (reading'[q] = reading[q] /\ todo'[q] = todo[q])
  BY <1>2 DEF IInv, TypeOK
<1>3. ASSUME NEW p \in Procs, NEW r \in Requests, Start(p, r)
      PROVE  Home[a] = OriginOf(h.target)
  BY <1>1, <1>2, <1>3 DEF Start
<1>4. ASSUME NEW p \in Procs, NEW k, NEW found, TakeRead(p, k, found)
      PROVE  Home[a] = OriginOf(h.target)
  BY <1>1, <1>2, <1>4 DEF TakeRead
<1>5. ASSUME NEW p \in Procs, ReadOracle(p)
      PROVE  Home[a] = OriginOf(h.target)
  <2>1. PICK k \in todo[p] :
          /\ \A other \in todo[p] : Before(k, other)
          /\ k.domain # NoDomain
          /\ igp[OriginOf(k.target)][k.domain].oracle # NoOracle
          /\ reading' = [reading EXCEPT ![p] = {igp[OriginOf(k.target)][k.domain].oracle}]
          /\ todo' = todo
    BY <1>5 DEF ReadOracle, IsNext
  <2>2. CASE q # p
    BY <1>1, <2>1, <2>2 DEF IInv, TypeOK
  <2>3. CASE q = p
    <3>1. /\ OriginOf(k.target) \in Origins /\ k.domain \in Domains
          /\ k.target \in DOMAIN Targets /\ h.target \in DOMAIN Targets
      BY <2>1, <2>3, OriginType DEF IInv, TypeOK, Read
    <3>2. a = igp[OriginOf(k.target)][k.domain].oracle
      BY <2>1, <2>3 DEF IInv, TypeOK
    <3>3. Home[a] = OriginOf(k.target)
      BY <2>1, <3>1, <3>2 DEF IInv, HomesKept, HomeOnly
    <3>4. Before(h, k) /\ Before(k, h)
      BY <2>1, <2>3
    <3>5. DOMAIN Targets \subseteq Nat
      BY ReconcilerAssumption, LenProperties
    <3>6. h.target = k.target
      BY <3>1, <3>4, <3>5 DEF Before
    <3> QED
      BY <3>3, <3>6
  <2> QED
    BY <2>2, <2>3
<1>6. ASSUME NEW p \in Procs, Prepare(p)
      PROVE  Home[a] = OriginOf(h.target)
  <2>1. CASE ReadDomain(p) \/ ReadGasData(p) \/ ReadDomainFails(p) \/ ListConfigs(p)
    BY <1>4, <2>1 DEF ReadDomain, ReadGasData, ReadDomainFails, ListConfigs, Listing
  <2>2. CASE ListFails(p)
    BY <1>1, <2>2 DEF ListFails, localVars
  <2> QED
    BY <1>5, <1>6, <2>1, <2>2 DEF Prepare
<1>7. ASSUME NEW p \in Procs, Assess(p)
      PROVE  UNCHANGED <<todo, reading>>
  BY <1>7, AssessConcludes DEF IInv, Drafts, Conclude
<1> QED
  BY <1>1, <1>3, <1>6, <1>7, LaterStepsKeep, OthersKeep DEF Next, Step

(* Concluding a target leaves the updates counted before where they are,   *)
(* and counts its own.                                                     *)
LEMMA ArtifactsGrow ==
  ASSUME TypeOK, NEW p \in Procs, expanded[p] # <<>>, NEW status \in Statuses, NEW base,
         NEW tx \in SUBSET TxPlan, Conclude(p, status, base, tx)
  PROVE  /\ \A q \in Procs : \A j \in Updates(q) :
              j \in Updates(q)' /\ artifacts'[q][j] = artifacts[q][j]
         /\ status = "update_recommended" =>
              \E j \in Updates(p)' :
                /\ artifacts'[p][j].target = Head(expanded[p]).target
                /\ artifacts'[p][j].tx = tx
<1> DEFINE h == Head(expanded[p])
           a == [target |-> h.target, domain |-> h.domain, status |-> status, tx |-> tx]
<1>1. artifacts[p] \in Seq(Artifact)
  BY DEF TypeOK
<1>2. h \in ExpandedTarget
  BY HeadTailProperties DEF TypeOK
<1>3. a \in Artifact
  BY <1>2 DEF Artifact, ExpandedTarget
<1>4. artifacts' = [artifacts EXCEPT ![p] = Append(@, a)]
  BY DEF Conclude
<1>5. a.status = status /\ a.target = h.target /\ a.tx = tx
  OBVIOUS
<1> HIDE DEF a, h
<1>6. artifacts'[p] = Append(artifacts[p], a)
  BY <1>4 DEF TypeOK
<1>7. /\ Append(artifacts[p], a) \in Seq(Artifact)
      /\ Len(Append(artifacts[p], a)) = Len(artifacts[p]) + 1
      /\ \A i \in 1..Len(artifacts[p]) : Append(artifacts[p], a)[i] = artifacts[p][i]
      /\ Append(artifacts[p], a)[Len(artifacts[p]) + 1] = a
  BY <1>1, <1>3, AppendProperties
<1>8. /\ DOMAIN artifacts[p] = 1..Len(artifacts[p]) /\ Len(artifacts[p]) \in Nat
      /\ DOMAIN artifacts'[p] = 1..(Len(artifacts[p]) + 1)
  BY <1>1, <1>6, <1>7, LenProperties
<1>9. \A j \in Updates(p) : j \in Updates(p)' /\ artifacts'[p][j] = artifacts[p][j]
  BY <1>6, <1>7, <1>8 DEF Updates
<1>10. \A q \in Procs : q # p => artifacts'[q] = artifacts[q]
  BY <1>4 DEF TypeOK
<1>11. \A q \in Procs : \A j \in Updates(q) :
              j \in Updates(q)' /\ artifacts'[q][j] = artifacts[q][j]
  BY <1>9, <1>10 DEF Updates
<1>12. status = "update_recommended" =>
        /\ Len(artifacts[p]) + 1 \in Updates(p)'
        /\ artifacts'[p][Len(artifacts[p]) + 1] = a
  BY <1>5, <1>6, <1>7, <1>8 DEF Updates
<1> QED
  BY <1>5, <1>11, <1>12 DEF h

(* What is decided was measured, and what would be written fits where all  *)
(* that can be on chain does.                                              *)
LEMMA DraftIsMeasured ==
  ASSUME IInv, NEW p \in Procs, NEW x \in Draft, Drafted(p, x),
         Head(expanded[p]) \in SoundReads
  PROVE  /\ NothingWraps => Measured(x.base, x.proposed)
         /\ WordsSuffice => DataOf(x.proposed) \in FittingData
<1> DEFINE h == Head(expanded[p])
<1>1. x.base \in IgpConfig /\ x.proposed \in IgpConfig
  BY DEF Draft
<1>2. /\ h.target \in DOMAIN Targets /\ h.domain \in Domains
      /\ Known(OriginOf(h.target), h.domain, x.base)
  BY DEF SoundReads, ExpandedTarget, Drafted
<1>3. /\ ClampsValid(Targets[h.target].gas, Targets[h.target].rate)
      /\ \E sample \in Samples, quote \in Quotes :
           x.proposed = ProposalFor(h.target, x.base, sample, quote)
  BY DEF Drafted
<1> HIDE DEF h
<1>4. \A c : DataOf(c)["gasPrice"] = c["gasPrice"]
             /\ DataOf(c)["tokenExchangeRate"] = c["tokenExchangeRate"]
  BY DEF DataOf
<1>5. \A c : PricesFit(DataOf(c)) <=> PricesFit(c)
  BY <1>4 DEF PricesFit
<1>6. ASSUME WordsSuffice
      PROVE  PricesFit(x.base) /\ PricesFit(x.proposed)
  <2>1. PricesFit(x.base)
    <3>1. DataOf(x.base) \in FittingData
      BY <1>2, <1>6 DEF Known, IInv, SeenFits
    <3> QED
      BY <1>5, <3>1 DEF FittingData
  <2>2. PICK sample \in Samples, quote \in Quotes :
          x.proposed = ProposalFor(h.target, x.base, sample, quote)
    BY <1>3
  <2>3. /\ sample \in Nat /\ quote \in [num : Nat \ {0}, den : Nat \ {0}]
        /\ Targets[h.target].gas \in [mode : {"sample", "preserve"}, min : Nat, max : Nat]
        /\ Targets[h.target].rate \in [min : Nat, max : Nat]
        /\ x.base["gasOverhead"] \in Nat
        /\ ClampsFit(Targets[h.target].gas, Targets[h.target].rate)
    <3>1. sample \in Nat /\ quote \in [num : Nat \ {0}, den : Nat \ {0}]
      BY ReconcilerAssumption
    <3>2. Targets[h.target] \in TargetConfig
      BY <1>2, TargetTypes
    <3>3. ClampsFit(Targets[h.target].gas, Targets[h.target].rate)
      BY <1>2, <1>6 DEF WordsSuffice
    <3>4. x.base["gasOverhead"] \in Nat
      BY <1>1 DEF IgpConfig, Fields
    <3> QED
      BY <3>1, <3>2, <3>3, <3>4 DEF TargetConfig, GasSections, ClampSections
  <2>4. PricesFit(ProposalFor(h.target, x.base, sample, quote))
    BY <1>1, <1>3, <2>1, <2>3, ProposalFits DEF ProposalFor
  <2> QED
    BY <2>1, <2>2, <2>4
<1>7. WordsSuffice => DataOf(x.proposed) \in FittingData
  <2>1. DataOf(x.proposed) \in GasData
    BY <1>1 DEF DataOf, GasData, IgpConfig, Fields
  <2> QED
    BY <1>5, <1>6, <2>1 DEF FittingData
<1>8. OverflowChecks => Measured(x.base, x.proposed)
  BY <1>1, ChecksMeasure DEF Drafted
<1>9. x.proposed["gasOverhead"] = x.base["gasOverhead"]
  BY <1>3 DEF ProposalFor, Proposal, Fields
<1>10. WordsSuffice => Measured(x.base, x.proposed)
  BY <1>1, <1>6, <1>9, FittingIsMeasured
<1> QED
  BY <1>7, <1>8, <1>10 DEF NothingWraps

(* The heart of the matter: a decision to update is a decision for a sound *)
(* change.                                                                 *)
LEMMA DraftIsSound ==
  ASSUME IInv, NEW p \in Procs, expanded[p] # <<>>, NEW x \in Draft, Drafted(p, x)
  PROVE  /\ Head(expanded[p]) \in ExpandedTarget
         /\ SoundDraft(Head(expanded[p]), x)
<1> DEFINE h == Head(expanded[p])
           o == OriginOf(h.target)
           tx == [oracle |-> x.oracle, config |-> x.proposed]
<1>1. h \in SoundReads
  BY HeadTailProperties DEF IInv, ReadsSound
<1>2. x.base \in IgpConfig /\ x.proposed \in IgpConfig
  BY DEF Draft
<1>3. /\ h.target \in DOMAIN Targets /\ h.domain \in Domains /\ o \in Origins
      /\ h \in ExpandedTarget
      /\ Targets[h.target].enabled
      /\ Known(o, h.domain, x.base)
  BY <1>1, OriginType DEF SoundReads, ExpandedTarget, Drafted
<1>4. /\ NothingWraps => Measured(x.base, x.proposed)
      /\ WordsSuffice => DataOf(x.proposed) \in FittingData
  BY <1>1, DraftIsMeasured DEF h
<1>5. x.proposed["gasOverhead"] = x.base["gasOverhead"]
  BY DEF Drafted, ProposalFor, Proposal, Fields
<1>6. x.oracle = OracleToWrite(o, h.domain) /\ x.status = Decide(x.base, x.proposed)
  BY DEF Drafted
<1> HIDE DEF h, o
<1>7. SUFFICES ASSUME x.status = "update_recommended", x.oracle # NoOracle
               PROVE  Sound(h.target, h.domain, x.base, tx)
  BY <1>3 DEF SoundDraft, h
<1>8. ~ZeroCurrent(x.base, x.proposed) /\ (NothingWraps => BoundedChange(x.base, x.proposed))
  BY <1>2, <1>4, <1>6, <1>7, RecommendedIsBounded DEF Decide
<1>9. Home[x.oracle] = o /\ (EVM(o) \/ x.oracle = CosmosIgp[o])
  BY <1>3, <1>6, <1>7, ReconcilerAssumption DEF OracleToWrite, IInv, HomesKept, HomeOnly
<1> QED
  BY <1>3, <1>4, <1>5, <1>8, <1>9 DEF Sound, o

(* A decision stays sound while its transaction is planned.                *)
LEMMA SoundDraftStays ==
  ASSUME IInv, [Next]_vars, NEW h \in ExpandedTarget, NEW x, SoundDraft(h, x)
  PROVE  SoundDraft(h, x)'
<1>1. h.target \in DOMAIN Targets /\ h.domain \in Domains
  BY DEF ExpandedTarget
<1> DEFINE tx == [oracle |-> x.oracle, config |-> x.proposed]
<1>2. Sound(h.target, h.domain, x.base, tx) => Sound(h.target, h.domain, x.base, tx)'
  BY <1>1, SoundStays
<1> QED
  BY <1>2 DEF SoundDraft

(* A decision is for the target that is first in line, and it is sound.    *)
LEMMA DraftsStep ==
  ASSUME IInv, [Next]_vars
  PROVE  Drafting' /\ DraftsSound'
<1> DEFINE Kept(q) ==
      /\ draft[q] # {} => todo[q] = {} /\ expanded[q] # <<>>
      /\ \A x \in draft[q] : SoundDraft(Head(expanded[q]), x)
<1> SUFFICES ASSUME NEW q \in Procs PROVE Kept(q)'
  BY DEF Drafting, DraftsSound
<1>0. Kept(q)
  BY DEF IInv, Drafting, DraftsSound
<1>1. ASSUME draft'[q] = draft[q], todo'[q] = todo[q], expanded'[q] = expanded[q]
      PROVE  Kept(q)'
  <2>1. ASSUME NEW x \in draft[q]
        PROVE  SoundDraft(Head(expanded[q]), x)'
    <3>1. expanded[q] # <<>> /\ SoundDraft(Head(expanded[q]), x)
      BY <1>0
    <3>2. PICK h \in ExpandedTarget : h = Head(expanded[q])
      BY <3>1, HeadTailProperties DEF IInv, TypeOK
    <3>3. SoundDraft(h, x)'
      BY <3>1, <3>2, SoundDraftStays
    <3>4. h = Head(expanded'[q])
      BY <1>1, <3>2
    <3> QED
      BY <3>3, <3>4
  <2> QED
    BY <1>0, <1>1, <2>1
<1>2. ASSUME draft'[q] = {}
      PROVE  Kept(q)'
  BY <1>2
<1> HIDE DEF Kept
<1>3. ASSUME NEW p \in Procs, NEW r \in Requests, Start(p, r)
      PROVE  Kept(q)'
  BY <1>1, <1>2, <1>3 DEF Start, IInv, TypeOK
<1>4. ASSUME NEW p \in Procs, Prepare(p)
      PROVE  Kept(q)'
  <2>1. /\ draft' = draft /\ todo[p] # {}
        /\ q # p => todo'[q] = todo[q] /\ expanded'[q] = expanded[q]
    BY <1>4 DEF Prepare, ReadDomain, ReadOracle, ReadGasData, ReadDomainFails, ListConfigs,
                Listing, ListFails, TakeRead, localVars, IInv, TypeOK
  <2>2. draft[p] = {}
    BY <2>1 DEF IInv, Drafting
  <2> QED
    BY <1>1, <1>2, <2>1, <2>2
<1>5. ASSUME NEW p \in Procs, Drafts(p)
      PROVE  Kept(q)'
  <2>1. PICK x \in Draft :
          /\ Drafted(p, x) /\ expanded[p] # <<>> /\ todo[p] = {}
          /\ draft' = [draft EXCEPT ![p] = {x}] /\ UNCHANGED <<todo, expanded>>
    BY <1>5 DEF Drafts
  <2>2. CASE q # p
    BY <1>1, <2>1, <2>2 DEF IInv, TypeOK
  <2>3. CASE q = p
    <3>1. PICK h \in ExpandedTarget : h = Head(expanded[p]) /\ SoundDraft(h, x)
      BY <2>1, DraftIsSound
    <3>2. SoundDraft(h, x)'
      BY <3>1, SoundDraftStays
    <3>3. h = Head(expanded'[q]) /\ draft'[q] = {x}
      BY <2>1, <2>3, <3>1 DEF IInv, TypeOK
    <3>4. \A y \in draft'[q] : SoundDraft(Head(expanded[q]), y)'
      BY <3>2, <3>3
    <3> QED
      BY <2>1, <2>3, <3>4 DEF Kept
  <2> QED
    BY <2>2, <2>3
<1>6. ASSUME NEW p \in Procs, NEW status, NEW base, NEW tx, Conclude(p, status, base, tx)
      PROVE  Kept(q)'
  BY <1>1, <1>2, <1>6 DEF Conclude, IInv, TypeOK
<1>7. ASSUME NEW p \in Procs, Assess(p)
      PROVE  Kept(q)'
  BY <1>1, <1>5, <1>6, <1>7, AssessConcludes DEF IInv
<1> QED
  BY <1>1, <1>3, <1>4, <1>7, LaterStepsKeep, OthersKeep DEF Next, Step

(* Every executable update is sound and counted.                           *)
LEMMA UpdatesStep ==
  ASSUME IInv, [Next]_vars
  PROVE  UpdatesSound'
<1> SUFFICES ASSUME NEW q \in Procs
             PROVE  exec'[q] \in Seq(SoundUpdates(q)')
  BY DEF UpdatesSound
<1>0. exec[q] \in Seq(SoundUpdates(q))
  BY DEF IInv, UpdatesSound
<1>1. CASE UNCHANGED <<artifacts, exec>>
  <2>1. SoundUpdates(q) \subseteq SoundUpdates(q)'
    BY <1>1, SoundUpdatesGrow DEF Updates
  <2> QED
    BY <1>0, <1>1, <2>1, SeqMonotonic
<1>2. ASSUME NEW p \in Procs, NEW r \in Requests, Start(p, r)
      PROVE  exec'[q] \in Seq(SoundUpdates(q)')
  <2>1. CASE q = p
    <3>1. exec'[q] = <<>>
      BY <1>2, <2>1 DEF Start, IInv, TypeOK
    <3> QED
      BY <3>1, EmptySeq
  <2>2. CASE q # p
    <3>1. exec'[q] = exec[q] /\ artifacts'[q] = artifacts[q]
      BY <1>2, <2>2 DEF Start, IInv, TypeOK
    <3>2. SoundUpdates(q) \subseteq SoundUpdates(q)'
      BY <3>1, SoundUpdatesGrow DEF Updates
    <3> QED
      BY <1>0, <3>1, <3>2, SeqMonotonic
  <2> QED
    BY <2>1, <2>2
<1>3. ASSUME NEW p \in Procs, Prepare(p)
      PROVE  UNCHANGED <<artifacts, exec>>
  BY <1>3 DEF Prepare, ReadDomain, ReadOracle, ReadGasData, ReadDomainFails, ListConfigs,
              Listing, ListFails,
              TakeRead, localVars
<1>4. ASSUME NEW p \in Procs, expanded[p] # <<>>, NEW status, NEW base, NEW tx,
             Conclude(p, status, base, tx), status \in Statuses, tx \in SUBSET TxPlan,
             status # "update_recommended" \/ tx = {}
      PROVE  exec'[q] \in Seq(SoundUpdates(q)')
  <2>1. exec' = exec
    BY <1>4 DEF Conclude, IInv, TypeOK
  <2>2. SoundUpdates(q) \subseteq SoundUpdates(q)'
    BY <1>4, ArtifactsGrow, SoundUpdatesGrow DEF IInv
  <2> QED
    BY <1>0, <2>1, <2>2, SeqMonotonic
<1>5. ASSUME NEW p \in Procs, expanded[p] # <<>>, NEW w \in draft[p],
             w.oracle # NoOracle, w.status = "update_recommended",
             Conclude(p, w.status, w.base, {Planned(w)})
      PROVE  exec'[q] \in Seq(SoundUpdates(q)')
  <2> DEFINE base == w.base
  <2>1. w \in Draft
    BY DEF IInv, TypeOK
  <2>2. {Planned(w)} \in SUBSET TxPlan /\ w.status \in Statuses /\ base \in IgpConfig
    BY <1>5, <2>1, PlannedType DEF IInv, Draft
  <2>3. SoundUpdates(q) \subseteq SoundUpdates(q)'
    BY <1>5, <2>2, ArtifactsGrow, SoundUpdatesGrow DEF IInv
  <2>4. exec[q] \in Seq(SoundUpdates(q)')
    BY <1>0, <2>3, SeqMonotonic
  <2>5. PICK t \in DOMAIN Targets, d \in Domains, x \in TxPlan :
          /\ t = Head(expanded[p]).target /\ d = Head(expanded[p]).domain
          /\ x = Planned(w)
          /\ Sound(t, d, base, x)
    <3>1. Head(expanded[p]) \in ExpandedTarget
      BY <1>5, HeadTailProperties DEF IInv, TypeOK
    <3>2. SoundDraft(Head(expanded[p]), w)
      BY DEF IInv, DraftsSound
    <3>3. Sound(Head(expanded[p]).target, Head(expanded[p]).domain, base, Planned(w))
      BY <1>5, <3>2 DEF SoundDraft, Sound, Planned
    <3> QED
      BY <2>2, <3>1, <3>3 DEF ExpandedTarget
  <2>6. Sound(t, d, base, x)'
    BY <2>5, SoundStays
  <2> DEFINE u == [target |-> t, domain |-> d, base |-> base, tx |-> x]
  <2>7. u \in ExecutableUpdate
    BY <2>2, <2>5 DEF ExecutableUpdate
  <2>8. PICK j \in Updates(p)' : artifacts'[p][j].target = t /\ artifacts'[p][j].tx = {x}
    BY <1>5, <2>2, <2>5, ArtifactsGrow DEF IInv
  <2>9. u \in SoundUpdates(p)'
    <3>1. Counted(p, u)'
      BY <2>5, <2>8 DEF Counted
    <3> QED
      BY <2>6, <2>7, <3>1 DEF SoundUpdates
  <2>10. exec' = [exec EXCEPT ![p] = Append(@, u)]
    BY <1>5, <2>5 DEF Conclude
  <2> HIDE DEF u
  <2>11. CASE q = p
    <3>1. exec'[q] = Append(exec[q], u)
      BY <2>10, <2>11 DEF IInv, TypeOK
    <3> QED
      BY <2>4, <2>9, <2>11, <3>1, AppendProperties
  <2>12. CASE q # p
    <3>1. exec'[q] = exec[q]
      BY <2>10, <2>12 DEF IInv, TypeOK
    <3> QED
      BY <2>4, <3>1
  <2> QED
    BY <2>11, <2>12
<1>6. ASSUME NEW p \in Procs, Assess(p)
      PROVE  exec'[q] \in Seq(SoundUpdates(q)')
  <2>1. CASE UNCHANGED <<artifacts, exec>>
    BY <1>1, <2>1
  <2>2. CASE expanded[p] # <<>> /\ \E status \in Statuses : \E base :
               Conclude(p, status, base, {})
    BY <1>4, <2>2
  <2>3. CASE expanded[p] # <<>> /\ \E x \in draft[p] :
               x.oracle # NoOracle /\ Conclude(p, x.status, x.base, {Planned(x)})
    <3>1. PICK x \in draft[p] : x.oracle # NoOracle /\ Conclude(p, x.status, x.base, {Planned(x)})
      BY <2>3
    <3>2. x \in Draft
      BY DEF IInv, TypeOK
    <3>3. x.status \in Statuses /\ {Planned(x)} \in SUBSET TxPlan
      BY <3>1, <3>2, PlannedType DEF IInv, Draft
    <3> QED
      BY <1>4, <1>5, <2>3, <3>1, <3>3
  <2> QED
    BY <1>6, <2>1, <2>2, <2>3, AssessConcludes DEF IInv, Drafts
<1>7. ASSUME NEW p \in Procs, Gate(p) \/ Submit(p) \/ Report(p) \/ Killed(p)
      PROVE  UNCHANGED <<artifacts, exec>>
  BY <1>7, LaterStepsKeep
<1>8. CASE ChainStep \/ OwnerStep \/ UNCHANGED vars
  BY <1>1, <1>8, OthersKeep
<1> QED
  BY <1>1, <1>2, <1>3, <1>6, <1>7, <1>8 DEF Next, Step

(* A run that is about to submit has passed every gate, and keeps to what  *)
(* the gates have seen.                                                    *)
LEMMA GatesStep ==
  ASSUME IInv, [Next]_vars
  PROVE  GatesPassed'
<1> DEFINE Open(q) ==
      /\ pc[q] \in {"submit", "broadcast"} =>
           \A j \in Updates(q) : ~Blocked(q, j) /\ SignerErrorAt(q, j) = 0
      /\ pc[q] = "broadcast" => exec[q] # <<>>
<1> SUFFICES ASSUME NEW q \in Procs
             PROVE  Open(q)'
  BY DEF GatesPassed
<1>0. Open(q)
  BY DEF IInv, GatesPassed
<1>1. ASSUME artifacts'[q] = artifacts[q], exec'[q] = exec[q],
             pc'[q] = pc[q] \/ pc'[q] \notin {"submit", "broadcast"}
      PROVE  Open(q)'
  BY <1>0, <1>1 DEF Updates, Blocked, SignerErrorAt
<1>2. ASSUME pc'[q] \notin {"submit", "broadcast"}
      PROVE  Open(q)'
  BY <1>2
<1> HIDE DEF Open
<1>3. ASSUME NEW p \in Procs, NEW r \in Requests, Start(p, r)
      PROVE  Open(q)'
  <2>1. CASE q = p
    <3>1. pc'[q] \in {"work", "idle"}
      BY <1>3, <2>1 DEF Start, IInv, TypeOK
    <3> QED
      BY <1>2, <3>1
  <2>2. CASE q # p
    BY <1>1, <1>3, <2>2 DEF Start, IInv, TypeOK
  <2> QED
    BY <2>1, <2>2
<1>4. ASSUME NEW p \in Procs, Prepare(p)
      PROVE  Open(q)'
  <2>1. /\ UNCHANGED <<artifacts, exec>>
        /\ pc' = pc \/ pc' = [pc EXCEPT ![p] = "idle"]
    BY <1>4 DEF Prepare, ReadDomain, ReadOracle, ReadGasData, ReadDomainFails, ListConfigs,
              Listing, ListFails,
                TakeRead, Stop, localVars
  <2> QED
    BY <1>1, <2>1 DEF IInv, TypeOK
<1>5. ASSUME NEW p \in Procs, Assess(p)
      PROVE  Open(q)'
  <2>1. CASE EvaluationPanics(p)
    <3>1. UNCHANGED <<artifacts, exec>> /\ pc' = [pc EXCEPT ![p] = "idle"]
      BY <2>1 DEF EvaluationPanics, Stop, localVars
    <3> QED
      BY <1>1, <3>1 DEF IInv, TypeOK
  <2>2. CASE \E status, base, tx : Conclude(p, status, base, tx)
    <3>1. pc[p] = "work"
      BY <1>5, AssessConcludes DEF IInv
    <3>2. pc' = pc /\ (q # p => artifacts'[q] = artifacts[q] /\ exec'[q] = exec[q])
      BY <2>2 DEF Conclude, IInv, TypeOK
    <3> QED
      BY <1>1, <1>2, <3>1, <3>2
  <2>3. CASE UNCHANGED <<pc, artifacts, exec>>
    BY <1>1, <2>3
  <2> QED
    BY <1>5, <2>1, <2>2, <2>3, AssessConcludes DEF IInv, Drafts
<1>6. ASSUME NEW p \in Procs, Gate(p)
      PROVE  Open(q)'
  <2>1. UNCHANGED <<artifacts, exec>>
    BY <1>6, LaterStepsKeep
  <2>2. CASE ReviewOnly(p) \/ RefuseWrite(p)
    <3>1. pc' = [pc EXCEPT ![p] = "summary"] \/ pc' = [pc EXCEPT ![p] = "idle"]
      BY <2>2 DEF ReviewOnly, RefuseWrite, Stop
    <3> QED
      BY <1>1, <2>1, <3>1 DEF IInv, TypeOK
  <2>3. CASE BuildWritePlan(p)
    <3>1. CASE q = p
      <4>1. \A j \in Updates(p) : ~Blocked(p, j) /\ SignerErrorAt(p, j) = 0
        BY <2>3, GateLooksAtAll DEF BuildWritePlan, IInv
      <4>2. \A j \in Updates(q)' : ~Blocked(q, j)' /\ (SignerErrorAt(q, j) = 0)'
        BY <2>1, <3>1, <4>1 DEF Updates, Blocked, SignerErrorAt
      <4>3. pc'[q] # "broadcast"
        BY <2>3, <3>1 DEF BuildWritePlan, IInv, TypeOK
      <4> QED
        BY <4>2, <4>3 DEF Open
    <3>2. CASE q # p
      BY <1>1, <2>1, <2>3, <3>2 DEF BuildWritePlan, IInv, TypeOK
    <3> QED
      BY <3>1, <3>2
  <2> QED
    BY <1>6, <2>2, <2>3 DEF Gate
<1>7. ASSUME NEW p \in Procs, Submit(p)
      PROVE  Open(q)'
  <2>1. UNCHANGED <<artifacts, exec>>
    BY <1>7, LaterStepsKeep
  <2>2. CASE CheckOwner(p) /\ pc' = [pc EXCEPT ![p] = "broadcast"]
    <3>1. CASE q = p
      <4>1. Len(exec[p]) = 1
        BY <2>2 DEF CheckOwner, SubmitError
      <4>2. exec'[q] # <<>>
        BY <2>1, <3>1, <4>1, EmptySeq
      <4>3. \A j \in Updates(p) : ~Blocked(p, j) /\ SignerErrorAt(p, j) = 0
        BY <2>2 DEF CheckOwner, IInv, GatesPassed
      <4>4. \A j \in Updates(q)' : ~Blocked(q, j)' /\ (SignerErrorAt(q, j) = 0)'
        BY <2>1, <3>1, <4>3 DEF Updates, Blocked, SignerErrorAt
      <4> QED
        BY <4>2, <4>4 DEF Open
    <3>2. CASE q # p
      BY <1>1, <2>1, <2>2, <3>2 DEF IInv, TypeOK
    <3> QED
      BY <3>1, <3>2
  <2>3. CASE pc' = [pc EXCEPT ![p] = "summary"] \/ pc' = [pc EXCEPT ![p] = "await"]
    BY <1>1, <2>1, <2>3 DEF IInv, TypeOK
  <2> QED
    BY <1>7, <2>2, <2>3
    DEF Submit, SubmitRefused, CheckOwner, SubmitFails, Broadcast, ReceiveReceipt, GiveUp, Fail
<1>8. ASSUME NEW p \in Procs, Report(p) \/ Killed(p)
      PROVE  Open(q)'
  <2>1. UNCHANGED <<artifacts, exec>>
    BY <1>8, LaterStepsKeep
  <2>2. pc' = [pc EXCEPT ![p] = "json"] \/ pc' = [pc EXCEPT ![p] = "idle"]
    BY <1>8 DEF Report, WriteSummary, WritePlanJson, FileFails, Killed, Stop
  <2> QED
    BY <1>1, <2>1, <2>2 DEF IInv, TypeOK
<1>9. CASE ChainStep \/ OwnerStep \/ UNCHANGED vars
  BY <1>1, <1>9, OthersKeep
<1> QED
  BY <1>3, <1>4, <1>5, <1>6, <1>7, <1>8, <1>9 DEF Next, Step

(* Only a broadcast sends.                                                 *)
LEMMA OnlyBroadcastSends ==
  ASSUME NEW p \in Procs, Step(p) \/ Killed(p) \/ \E r \in Requests : Start(p, r)
  PROVE  Broadcast(p) \/ txs' = txs
<1>1. CASE \E r \in Requests : Start(p, r)
  BY <1>1 DEF Start, chainVars
<1>2. CASE Prepare(p)
  BY <1>2 DEF Prepare, ReadDomain, ReadOracle, ReadGasData, ReadDomainFails, ListConfigs,
              Listing, ListFails,
              TakeRead, chainVars
<1>3. CASE Assess(p)
  BY <1>3 DEF Assess, ReportReadError, ProposalFails, Evaluate, PlanUpdate, PlanUpdateFails,
              EvaluationPanics, Conclude, chainVars
<1>4. CASE Gate(p)
  BY <1>4 DEF Gate, ReviewOnly, RefuseWrite, BuildWritePlan, chainVars
<1>5. CASE Submit(p) /\ ~Broadcast(p)
  BY <1>5 DEF Submit, SubmitRefused, CheckOwner, SubmitFails, ReceiveReceipt, GiveUp,
              chainVars
<1>6. CASE Report(p) \/ Killed(p)
  BY <1>6 DEF Report, WriteSummary, WritePlanJson, FileFails, Killed, chainVars
<1> QED
  BY <1>1, <1>2, <1>3, <1>4, <1>5, <1>6 DEF Step, Submit, Gate, Report, Prepare, Assess

(* Only a broadcast adds a transaction, and it adds a sound one.           *)
LEMMA TxsStep ==
  ASSUME IInv, [Next]_vars
  PROVE  txs' \in Seq(SoundTxs')
<1>0. txs \in Seq(SoundTxs')
  BY SoundSetsGrow, SeqMonotonic DEF IInv
<1>1. ASSUME NEW p \in Procs, Broadcast(p)
      PROVE  txs' \in Seq(SoundTxs')
  <2> DEFINE u == TheUpdate(p)
             x == [target |-> u.target, domain |-> u.domain, base |-> u.base,
                   plan |-> u.tx, sender |-> Key(p), status |-> "pending"]
  <2>1. /\ u \in SoundUpdates(p)
        /\ Targets[u.target].writeEnabled
        /\ Targets[u.target].signer \in DOMAIN Signers
        /\ Signers[Targets[u.target].signer].from \in {u.tx.owner, Alias}
    BY <1>1, BroadcastGated DEF Broadcast
  <2>2. u \in ExecutableUpdate /\ Sound(u.target, u.domain, u.base, u.tx)
    BY <2>1 DEF SoundUpdates
  <2>3. Key(p) \in Accounts
    BY <2>1, ReconcilerAssumption DEF Key, SignerConfig
  <2> HIDE DEF u
  <2>4. x \in SoundTxs
    BY <2>1, <2>2, <2>3 DEF SoundTxs, Tx, ExecutableUpdate
  <2>5. x \in SoundTxs'
    BY <2>4, SoundSetsGrow
  <2>6. txs' = Append(txs, x)
    BY <1>1 DEF Broadcast, u
  <2> HIDE DEF x
  <2> QED
    BY <1>0, <2>5, <2>6, AppendProperties
<1>2. ASSUME NEW i \in DOMAIN txs, NEW s \in {"applied", "reverted", "dropped"},
             txs' = [txs EXCEPT ![i].status = s]
      PROVE  txs' \in Seq(SoundTxs')
  <2>1. i \in 1..Len(txs) /\ txs[i] \in SoundTxs'
    BY <1>0, ElementOfSeq, LenProperties
  <2>2. [txs[i] EXCEPT !.status = s] \in SoundTxs'
    BY <2>1 DEF SoundTxs, Tx, Sound
  <2> QED
    BY <1>0, <1>2, <2>1, <2>2, ExceptSeq
<1>3. CASE ChainStep
  BY <1>2, <1>3 DEF ChainStep, Include, Drop
<1>4. ASSUME NEW p \in Procs, Step(p) \/ Killed(p) \/ \E r \in Requests : Start(p, r)
      PROVE  txs' \in Seq(SoundTxs')
  BY <1>0, <1>1, <1>4, OnlyBroadcastSends
<1>5. CASE OwnerStep \/ UNCHANGED vars
  BY <1>0, <1>5 DEF OwnerStep, OwnerSetsGasData, OwnerSetsIgp, TransferOwnership, OwnerActs,
                    vars, chainVars
<1> QED
  BY <1>0, <1>1, <1>3, <1>4, <1>5 DEF Next

(* A domain is served by an oracle of its own chain.                       *)
LEMMA HomesStep ==
  ASSUME IInv, [Next]_vars
  PROVE  HomesKept'
<1>0. \A o \in Origins, d \in Domains : HomeOnly(o, igp[o][d].oracle)
  BY DEF IInv, HomesKept
<1> SUFFICES ASSUME NEW o \in Origins, NEW d \in Domains, igp'[o][d].oracle # igp[o][d].oracle
             PROVE  HomeOnly(o, igp'[o][d].oracle)
  BY <1>0 DEF HomesKept, HomeOnly, EVM
<1>1. ASSUME NEW i \in DOMAIN txs, Include(i)
      PROVE  HomeOnly(o, igp'[o][d].oracle)
  <2>1. txs[i] \in SoundTxs
    BY ElementOfSeq, LenProperties DEF IInv
  <2>2. /\ OriginOf(txs[i].target) \in Origins /\ txs[i].domain \in Domains
        /\ Home[txs[i].plan.oracle] = OriginOf(txs[i].target)
        /\ \/ EVM(OriginOf(txs[i].target))
           \/ txs[i].plan.oracle = CosmosIgp[OriginOf(txs[i].target)]
    BY <2>1, OriginType DEF SoundTxs, Sound, Tx
  <2>3. o = OriginOf(txs[i].target) /\ igp'[o][d].oracle = txs[i].plan.oracle
    BY <1>1, <2>2 DEF Include, IInv, TypeOK
  <2> QED
    BY <2>2, <2>3 DEF HomeOnly
<1>2. ASSUME NEW a \in Origins, NEW b \in Domains, OwnerSetsIgp(a, b)
      PROVE  HomeOnly(o, igp'[o][d].oracle)
  <2>1. PICK c \in Oracles \cup {NoOracle}, h \in Overheads :
          /\ HomeOnly(a, c)
          /\ igp' = [igp EXCEPT ![a][b] = [oracle |-> c, overhead |-> h]]
    BY <1>2 DEF OwnerSetsIgp
  <2>2. o = a /\ igp'[o][d].oracle = c
    BY <2>1 DEF IInv, TypeOK
  <2> QED
    BY <2>1, <2>2
<1>3. CASE ChainStep
  BY <1>1, <1>3 DEF ChainStep, Drop
<1>4. CASE OwnerStep
  BY <1>2, <1>4 DEF OwnerStep, OwnerSetsGasData, TransferOwnership
<1>5. CASE \/ UNCHANGED vars
           \/ \E p \in Procs : Step(p) \/ Killed(p) \/ \E r \in Requests : Start(p, r)
  BY <1>5, RunsLeaveChains DEF ChainsAlone, vars, chainVars
<1> QED
  BY <1>3, <1>4, <1>5 DEF Next

(* What gets on chain fits, from whoever it comes.                         *)
LEMMA FitsStep ==
  ASSUME IInv, [Next]_vars
  PROVE  SeenFits'
<1> SUFFICES ASSUME WordsSuffice, NEW a \in Oracles, NEW d \in Domains
             PROVE  seenData'[a][d] \subseteq FittingData
  BY DEF SeenFits
<1>1. seenData[a][d] \subseteq FittingData /\ gasData[a][d] \in FittingData
  BY DEF IInv, SeenFits, Remembered
<1>2. SUFFICES gasData'[a][d] \in FittingData
  BY <1>1, ChainsRemember DEF Remember
<1>3. ASSUME NEW i \in DOMAIN txs, Include(i)
      PROVE  gasData'[a][d] \in FittingData
  <2>1. DataOf(txs[i].plan.config) \in FittingData
    <3>1. txs[i] \in SoundTxs
      BY ElementOfSeq, LenProperties DEF IInv
    <3> QED
      BY <3>1 DEF SoundTxs, Sound
  <2>2. \/ gasData' = gasData
        \/ gasData' = [gasData EXCEPT ![txs[i].plan.oracle][txs[i].domain] =
                         DataOf(txs[i].plan.config)]
    BY <1>3 DEF Include
  <2> DEFINE after == DataOf(txs[i].plan.config)
             b == txs[i].plan.oracle
             e == txs[i].domain
  <2>3. gasData' = gasData \/ gasData' = [gasData EXCEPT ![b][e] = after]
    BY <2>2
  <2> HIDE DEF after, b, e
  <2>4. gasData'[a][d] \in {gasData[a][d], after}
    <3>1. gasData \in [Oracles -> [Domains -> GasData]]
      BY DEF IInv, TypeOK
    <3>2. CASE gasData' = gasData
      BY <3>2
    <3>3. CASE gasData' = [gasData EXCEPT ![b][e] = after]
      BY <3>1, <3>3
    <3> QED
      BY <2>3, <3>2, <3>3
  <2> QED
    BY <1>1, <2>1, <2>4 DEF after
<1>4. ASSUME NEW b \in Oracles, NEW e \in Domains, OwnerSetsGasData(b, e)
      PROVE  gasData'[a][d] \in FittingData
  <2>1. PICK price \in Values, rate \in Values :
          gasData' = [gasData EXCEPT ![b][e] =
            [f \in {"gasPrice", "tokenExchangeRate"} |-> IF f = "gasPrice" THEN price ELSE rate]]
    BY <1>4 DEF OwnerSetsGasData
  <2> DEFINE data == [f \in {"gasPrice", "tokenExchangeRate"} |->
                        IF f = "gasPrice" THEN price ELSE rate]
  <2>2. data \in FittingData
    <3>1. price \in Nat /\ rate \in Nat /\ FitsWord(price) /\ FitsWord(rate)
      BY ReconcilerAssumption DEF WordsSuffice
    <3> QED
      BY <3>1 DEF FittingData, GasData, PricesFit
  <2> HIDE DEF data
  <2> QED
    BY <1>1, <2>1, <2>2 DEF IInv, TypeOK, data
<1>5. CASE ChainStep
  BY <1>1, <1>3, <1>5 DEF ChainStep, Drop
<1>6. CASE OwnerStep
  BY <1>1, <1>4, <1>6 DEF OwnerStep, OwnerSetsIgp, TransferOwnership
<1>7. CASE \/ UNCHANGED vars
           \/ \E p \in Procs : Step(p) \/ Killed(p) \/ \E r \in Requests : Start(p, r)
  BY <1>1, <1>7, RunsLeaveChains DEF ChainsAlone, vars, chainVars
<1> QED
  BY <1>5, <1>6, <1>7 DEF Next

----------------------------------------------------------------------------
(* The theorems.                                                           *)

(* The invariant holds where a run may start.                              *)
LEMMA InvInit == Init => IInv
<1> SUFFICES ASSUME Init PROVE IInv
  OBVIOUS
<1>1. /\ igp \in [Origins -> [Domains -> Entries]]
      /\ gasData \in [Oracles -> [Domains -> GasData]]
      /\ owner \in [Oracles -> Accounts]
      /\ HomesKept
  BY ReconcilerAssumption DEF Init, ChainState, HomesKept
<1>2. \A o \in Origins, d \in Domains : igp[o][d].overhead \in Nat
  BY <1>1 DEF Entries
<1>3. /\ seenData \in [Oracles -> [Domains -> SUBSET GasData]]
      /\ seenOverheads \in [Origins -> [Domains -> SUBSET Nat]]
  BY <1>1, <1>2 DEF Init
<1>4. TypeOK
  BY <1>1, <1>3, ReconcilerAssumption DEF Init, TypeOK, NoWritePlan, ExitCodes, Running
<1>5. Remembered
  BY <1>1 DEF Init, Remembered
<1>6. ReadsSound /\ HalfReadsSound /\ Drafting /\ DraftsSound /\ UpdatesSound /\ GatesPassed
  BY DEF Init, ReadsSound, HalfReadsSound, Drafting, DraftsSound, UpdatesSound, GatesPassed
<1>7. txs \in Seq(SoundTxs)
  BY DEF Init
<1>8. SeenFits
  <2>1. PICK g \in Genesis : gasData = g.gasData
    BY DEF Init
  <2> QED
    BY <2>1 DEF Init, SeenFits, WordsSuffice
<1> QED
  BY <1>1, <1>4, <1>5, <1>6, <1>7, <1>8 DEF IInv

(* Every step keeps it.                                                    *)
LEMMA InvStep == IInv /\ [Next]_vars => IInv'
<1> SUFFICES ASSUME IInv, [Next]_vars PROVE IInv'
  OBVIOUS
<1>1. TypeOK'
  BY InvKeyed, TypeStep DEF IInv
<1>2. Remembered'
  BY SeenGrows DEF IInv
<1> QED
  BY <1>1, <1>2, FitsStep, HomesStep, ReadsStep, HalfReadsStep, DraftsStep, UpdatesStep, GatesStep, TxsStep
  DEF IInv

(* The inductive invariant: what a run has read was on chain, what it      *)
(* means to send is a sound change of that and was counted in the plan,    *)
(* and what it submits has passed every gate.                              *)
THEOREM Invariant == Spec => []IInv
<1> QED
  BY InvInit, InvStep, PTL DEF Spec

(* The variables keep their types, for every set of operators, origins,    *)
(* targets, signers and command lines, and in both kinds of build.         *)
THEOREM TypesCorrect == Spec => []TypeOK
<1>1. IInv => TypeOK
  BY DEF IInv
<1> QED
  BY <1>1, Invariant, PTL

(* Every transaction the tool ever broadcasts is a change within the       *)
(* policy of values that have been on chain, keeps the overhead, and       *)
(* belongs to a target with writes enabled whose signer was checked,       *)
(* whatever the other actors do: in a build that stops at an overflow, and *)
(* in any build where no value comes near one.                             *)
THEOREM WritesAreGated == ASSUME NothingWraps PROVE Spec => []GatedWrites
<1>1. IInv => GatedWrites
  <2> SUFFICES ASSUME IInv, NEW i \in DOMAIN txs
               PROVE  /\ Known(OriginOf(txs[i].target), txs[i].domain, txs[i].base)
                      /\ BoundedChange(txs[i].base, txs[i].plan.config)
                      /\ ~ZeroCurrent(txs[i].base, txs[i].plan.config)
                      /\ txs[i].plan.config["gasOverhead"] = txs[i].base["gasOverhead"]
                      /\ Targets[txs[i].target].enabled /\ Targets[txs[i].target].writeEnabled
                      /\ Signers[Targets[txs[i].target].signer].from
                           \in {txs[i].plan.owner, Alias}
    BY DEF GatedWrites, OriginOf
  <2>1. txs[i] \in SoundTxs
    BY ElementOfSeq, LenProperties DEF IInv
  <2> QED
    BY <2>1 DEF SoundTxs, Sound
<1> QED
  BY <1>1, Invariant, PTL

----------------------------------------------------------------------------
(* The runs implement GuardedUpdates.                                      *)

\* The refinement mapping, under short names.
OverheadMap == [o \in Origins |-> [d \in Domains |-> igp[o][d].overhead]]
DoneMap == {i \in DOMAIN txs : txs[i].status = "applied"}

(* The operators of GuardedUpdates are those of IgpPolicy.                 *)
LEMMA SameWithinMax ==
  \A from, to : Guarded!WithinMax(from, to) <=> WithinMax(from, to)
BY DEF Guarded!WithinMax, Guarded!AbsDiff, WithinMax, AbsDiff

(* The chains remember in the abstract too.                                *)
LEMMA RememberedInBoth ==
  ASSUME TypeOK, Remember
  PROVE  Guarded!Remembered
<1>1. seenOverheads' = [o \in Origins |-> [d \in Domains |->
                         seenOverheads[o][d] \cup {OverheadMap'[o][d]}]]
  BY DEF Remember, OverheadMap
<1> QED
  BY <1>1 DEF Remember, OverheadMap, Guarded!Remembered

(* The gas data that a transaction writes is allowed.                      *)
LEMMA PlanIsAllowed ==
  ASSUME NothingWraps, IInv, NEW x \in SoundTxs
  PROVE  Guarded!Allowed(OriginOf(x.target), x.domain, DataOf(x.plan.config))
<1> DEFINE o == OriginOf(x.target)
           after == DataOf(x.plan.config)
<1>1. /\ Known(o, x.domain, x.base)
      /\ BoundedChange(x.base, x.plan.config)
      /\ ~ZeroCurrent(x.base, x.plan.config)
  BY DEF SoundTxs, Sound
<1>2. PICK a \in Oracles : Home[a] = o /\ DataOf(x.base) \in seenData[a][x.domain]
  BY <1>1 DEF Known
<1> DEFINE base == DataOf(x.base)
<1>3. \A c : DataOf(c)["gasPrice"] = c["gasPrice"]
            /\ DataOf(c)["tokenExchangeRate"] = c["tokenExchangeRate"]
  BY DEF DataOf
<1>4. /\ base["gasPrice"] # 0 /\ WithinMax(base["gasPrice"], after["gasPrice"])
      /\ base["tokenExchangeRate"] # 0
      /\ WithinMax(base["tokenExchangeRate"], after["tokenExchangeRate"])
  BY <1>1, <1>3 DEF ZeroCurrent, BoundedChange, Fields
<1> HIDE DEF after, base, o
<1>5. Guarded!Allowed(o, x.domain, after)
  BY <1>2, <1>4, SameWithinMax DEF Guarded!Allowed, base
<1> QED
  BY <1>5 DEF o, after

(* An included transaction is a guarded write.                             *)
LEMMA IncludeRefines ==
  ASSUME NothingWraps, IInv, NEW i \in DOMAIN txs, Include(i)
  PROVE  Guarded!GuardedNext
<1> DEFINE x == txs[i]
<1>0. Guarded!Remembered /\ x.status = "pending"
  BY RememberedInBoth DEF Include, Includable, IInv
<1>1. txs \in Seq(Tx) /\ DOMAIN txs = 1..Len(txs) /\ x \in Tx
  BY ElementOfSeq, LenProperties DEF IInv, TypeOK
<1>2. CASE ~Accepted(x)
  <2>1. txs' = [txs EXCEPT ![i].status = "reverted"]
    BY <1>2 DEF Include
  <2>2. DoneMap' = DoneMap
    BY <1>0, <1>1, <2>1 DEF DoneMap, Tx
  <2> QED
    BY <1>0, <2>2 DEF Guarded!GuardedNext, Guarded!Owners, DoneMap
<1>3. CASE Accepted(x)
  <2>1. txs' = [txs EXCEPT ![i].status = "applied"]
    BY <1>3 DEF Include
  <2>2. i \in DoneMap' /\ i \notin DoneMap /\ DoneMap' = DoneMap \cup {i}
    BY <1>0, <1>1, <2>1 DEF DoneMap, Tx
  <2>3. PICK o \in Origins, d \in Domains, a \in Oracles :
          o = OriginOf(x.target) /\ d = x.domain /\ a = x.plan.oracle
    BY <1>1, OriginType DEF Tx, TxPlan
  <2>4. x \in SoundTxs
    BY <1>1, ElementOfSeq DEF IInv
  <2>5. /\ Home[a] = o
        /\ x.plan.config["gasOverhead"] \in seenOverheads[o][d]
    BY <2>3, <2>4 DEF SoundTxs, Sound, Known
  <2>6. gasData' = [gasData EXCEPT ![a][d] = DataOf(x.plan.config)]
    BY <1>3, <2>3 DEF Include
  <2>7. gasData'[a][d] = DataOf(x.plan.config)
    BY <2>3, <2>6 DEF IInv, TypeOK
  <2>8. Guarded!Allowed(o, d, gasData'[a][d])
    BY <2>3, <2>4, <2>7, PlanIsAllowed
  <2>9. /\ OverheadMap'[o][d] \in seenOverheads[o][d]
        /\ OverheadMap' = [OverheadMap EXCEPT ![o][d] = OverheadMap'[o][d]]
    <3>1. CASE EVM(o)
      <4>1. igp' = igp
        BY <1>3, <2>3, <3>1 DEF Include
      <4> QED
        BY <2>3, <4>1 DEF OverheadMap, IInv, Remembered
    <3>2. CASE ~EVM(o)
      <4> DEFINE entry == [oracle |-> a, overhead |-> x.plan.config["gasOverhead"]]
      <4>1. igp' = [igp EXCEPT ![o][d] = entry]
        BY <1>3, <2>3, <3>2 DEF Include
      <4>2. entry.overhead = x.plan.config["gasOverhead"]
        OBVIOUS
      <4> HIDE DEF entry
      <4>3. igp'[o][d] = entry
        BY <4>1 DEF IInv, TypeOK
      <4>4. \A c \in Origins, b \in Domains : <<c, b>> # <<o, d>> => igp'[c][b] = igp[c][b]
        BY <4>1 DEF IInv, TypeOK
      <4>5. OverheadMap'[o][d] = entry.overhead
        BY <4>3 DEF OverheadMap
      <4>6. \A c \in Origins, b \in Domains :
              <<c, b>> # <<o, d>> => OverheadMap'[c][b] = OverheadMap[c][b]
        BY <4>4 DEF OverheadMap
      <4>7. \A c \in Origins : c # o => OverheadMap'[c] = OverheadMap[c]
        BY <4>4 DEF OverheadMap
      <4>8. OverheadMap'[o] = [OverheadMap[o] EXCEPT ![d] = OverheadMap'[o][d]]
        BY <4>6 DEF OverheadMap
      <4>9. OverheadMap' = [OverheadMap EXCEPT ![o][d] = OverheadMap'[o][d]]
        BY <4>7, <4>8 DEF OverheadMap
      <4> QED
        BY <2>5, <4>2, <4>5, <4>9
    <3> QED
      BY <3>1, <3>2
  <2>10. gasData' = [gasData EXCEPT ![a][d] = gasData'[a][d]]
    BY <2>6, <2>7
  <2>11. Guarded!ToolWrites(a, d)
    BY <1>0, <2>2, <2>5, <2>8, <2>9, <2>10 DEF Guarded!ToolWrites, DoneMap, OverheadMap
  <2> QED
    BY <2>11 DEF Guarded!GuardedNext
<1> QED
  BY <1>2, <1>3

(* Every step of the runs is a step of GuardedUpdates, or none.            *)
LEMMA StepRefines ==
  ASSUME NothingWraps, IInv, [Next]_vars
  PROVE  [Guarded!GuardedNext]_(Guarded!gvars)
<1>1. ASSUME UNCHANGED <<igp, gasData, seenData, seenOverheads>>, DoneMap' = DoneMap
      PROVE  UNCHANGED Guarded!gvars
  BY <1>1 DEF Guarded!gvars, DoneMap
<1>2. ASSUME NEW p \in Procs, Broadcast(p)
      PROVE  DoneMap' = DoneMap
  <2> DEFINE u == TheUpdate(p)
             x == [target |-> u.target, domain |-> u.domain, base |-> u.base,
                   plan |-> u.tx, sender |-> Key(p), status |-> "pending"]
  <2>1. txs' = Append(txs, x) /\ x.status = "pending"
    BY <1>2 DEF Broadcast
  <2> HIDE DEF x
  <2>2. txs \in Seq(Tx) /\ DOMAIN txs = 1..Len(txs) /\ Len(txs) \in Nat
    BY LenProperties DEF IInv, TypeOK
  <2>3. /\ DOMAIN txs' = 1..(Len(txs) + 1)
        /\ \A i \in 1..Len(txs) : txs'[i] = txs[i]
        /\ txs'[Len(txs) + 1] = x
    BY <2>1, <2>2
  <2> QED
    BY <2>1, <2>2, <2>3 DEF DoneMap
<1>3. ASSUME NEW i \in DOMAIN txs, Drop(i)
      PROVE  DoneMap' = DoneMap /\ UNCHANGED <<igp, gasData, seenData, seenOverheads>>
  <2>1. txs \in Seq(Tx) /\ txs[i] \in Tx
    BY ElementOfSeq, LenProperties DEF IInv, TypeOK
  <2>2. txs[i].status = "pending" /\ txs' = [txs EXCEPT ![i].status = "dropped"]
    BY <1>3 DEF Drop
  <2>3. DoneMap' = DoneMap
    BY <2>1, <2>2 DEF DoneMap, Tx
  <2> QED
    BY <1>3, <2>3 DEF Drop
<1>4. CASE ChainStep
  BY <1>1, <1>3, <1>4, IncludeRefines DEF ChainStep
<1>5. CASE OwnerStep
  <2>1. Remember /\ txs' = txs
    BY <1>5 DEF OwnerStep, OwnerSetsGasData, OwnerSetsIgp, TransferOwnership, OwnerActs
  <2>2. Guarded!Owners
    BY <2>1, RememberedInBoth DEF Guarded!Owners, IInv
  <2> QED
    BY <2>2 DEF Guarded!GuardedNext
<1>6. ASSUME NEW p \in Procs, Step(p) \/ Killed(p) \/ \E r \in Requests : Start(p, r)
      PROVE  UNCHANGED Guarded!gvars
  <2>1. UNCHANGED <<igp, gasData, seenData, seenOverheads>>
    BY <1>6, RunsLeaveChains DEF ChainsAlone
  <2>2. Broadcast(p) \/ txs' = txs
    BY <1>6, OnlyBroadcastSends
  <2> QED
    BY <1>1, <1>2, <2>1, <2>2 DEF DoneMap
<1>7. CASE UNCHANGED vars
  BY <1>1, <1>7 DEF vars, chainVars, DoneMap
<1> QED
  BY <1>4, <1>5, <1>6, <1>7 DEF Next

(* The runs implement the abstract promise of GuardedUpdates: the tool     *)
(* changes one entry of one gas oracle at a time, by no more than the      *)
(* policy allows from values it has had.                                   *)
THEOREM RunsAreGuarded == ASSUME NothingWraps PROVE Spec => ImplementsGuarded
<1>1. Init => Guarded!GuardedInit
  BY DEF Init, Guarded!GuardedInit
<1>2. IInv /\ [Next]_vars => [Guarded!GuardedNext]_(Guarded!gvars)
  BY StepRefines
<1> QED
  BY <1>1, <1>2, Invariant, PTL DEF Spec, ImplementsGuarded, Guarded!Spec
=============================================================================
