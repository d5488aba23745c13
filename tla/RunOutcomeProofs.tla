-------------------------- MODULE RunOutcomeProofs --------------------------
(***************************************************************************)
(* What a reconciliation run leaves behind when it ends: that its plan, its*)
(* transaction and its exit code tell the same story, whatever the chains, *)
(* the owners and the other operators do meanwhile, and wherever it is     *)
(* killed.  These theorems need no assumption about overflow.              *)
(***************************************************************************)
EXTENDS IgpReconcilerProofs

----------------------------------------------------------------------------
(* The inductive invariant: how far a run has come, and what is so then.   *)

\* Every target was evaluated, and none of them holds the others back.
Clean(p) ==
  \A k \in DOMAIN artifacts[p] : artifacts[p][k].status \in {"noop", "update_recommended"}

\* The updates for which a transaction could be planned.
Executable(p) == {k \in Updates(p) : artifacts[p][k].tx # {}}

\* The k-th executable update is the k-th such target of the plan.
Corresponds(p, k) ==
  \E j \in Executable(p) :
    /\ Cardinality({i \in Executable(p) : i <= j}) = k
    /\ exec[p][k].target = artifacts[p][j].target
    /\ exec[p][k].domain = artifacts[p][j].domain
    /\ artifacts[p][j].tx = {exec[p][k].tx}

Collected(p) ==
  /\ Len(exec[p]) = Cardinality(Executable(p))
  /\ \A k \in 1..Len(exec[p]) : Corresponds(p, k)

\* Until a run ends: what it has not done so far.
Underway(p) ==
  /\ pc[p] # "idle" => exit[p] = Running /\ ~InvalidMode(args[p])
  /\ pc[p] = "work" => plan[p] = NoWritePlan
  /\ pc[p] \in {"work", "submit", "broadcast"} => sent[p] = 0 /\ err[p] = 0
  /\ pc[p] = "await" => sent[p] # 0 /\ err[p] = 0
  /\ pc[p] \in {"submit", "broadcast", "await"} =>
       args[p].write /\ ~args[p].generateOnly /\ plan[p].status = "ready"
  /\ pc[p] = "json" => "summary" \in files[p]

\* A write plan counts clean targets, all of which can be executed; a run
\* that goes on to broadcast has exactly one.
PlanClean(p) ==
  /\ plan[p].status # "none" => Clean(p)
  /\ plan[p].status \notin {"none", "no_update_required"} =>
       /\ Executable(p) = Updates(p)
       /\ plan[p].targets = Cardinality(Updates(p))
  /\ plan[p].status = "no_update_required" => Updates(p) = {}
  /\ pc[p] \in {"broadcast", "await"} => plan[p].targets = 1

\* What a transaction that was sent tells of its run.
SentClean(p) ==
  sent[p] # 0 =>
    /\ sent[p] \in 1..Len(txs)
    /\ args[p].write /\ ~args[p].dryRun /\ ~args[p].generateOnly
    /\ plan[p].status \in {"ready", "submitted", "failed"}
    /\ plan[p].targets = 1
    /\ err[p] # 30

Applied(p) == sent[p] # 0 /\ SentTx(p).status = "applied"

\* Nothing is left to write, or a plan of what is left is ready.
Accomplished(p) == Updates(p) = {} \/ Applied(p) \/ Generated(p)

Filed(p) == files[p] = {"summary", "plan"}

OutcomeTrue(p) ==
  /\ plan[p].status = "submitted" => Applied(p)
  /\ pc[p] \in {"summary", "json"} /\ err[p] = 0 /\ args[p].write =>
       Clean(p) /\ Accomplished(p)
  /\ exit[p] = 0 => Clean(p) /\ Accomplished(p) /\ Filed(p)
  /\ exit[p] = 10 => Clean(p) /\ ~args[p].write /\ Updates(p) # {} /\ Filed(p)
  /\ exit[p] = 30 => sent[p] = 0

RunInv(p) ==
  Collected(p) /\ Underway(p) /\ PlanClean(p) /\ SentClean(p) /\ OutcomeTrue(p)

OutcomeInv == IInv /\ \A p \in Procs : RunInv(p)

----------------------------------------------------------------------------
(* The steps of others.                                                    *)

\* A step that leaves the state of a run that matters here as it is.
Untouched(q) ==
  /\ pc'[q] = pc[q] /\ args'[q] = args[q] /\ plan'[q] = plan[q] /\ sent'[q] = sent[q]
  /\ err'[q] = err[q] /\ exit'[q] = exit[q] /\ files'[q] = files[q]
  /\ artifacts'[q] = artifacts[q] /\ exec'[q] = exec[q]

\* The list of transactions grows, and what was applied stays applied.
TxsAdvance ==
  /\ Len(txs) <= Len(txs')
  /\ \A i \in 1..Len(txs) : txs[i].status = "applied" => txs'[i].status = "applied"

(* A transaction that has landed is never taken back: a chain includes and *)
(* drops pending ones only.                                                *)
LEMMA TxsOnlyAdvance ==
  ASSUME IInv, [Next]_vars
  PROVE  TxsAdvance
<1>0. txs \in Seq(Tx) /\ Len(txs) \in Nat /\ DOMAIN txs = 1..Len(txs)
  BY LenProperties DEF IInv, TypeOK
<1>1. CASE txs' = txs
  BY <1>0, <1>1 DEF TxsAdvance
<1>2. ASSUME NEW p \in Procs, Broadcast(p)
      PROVE  TxsAdvance
  <2>1. txs' \in Seq(SoundTxs')
    BY TxsStep
  <2> DEFINE u == TheUpdate(p)
             x == [target |-> u.target, domain |-> u.domain, base |-> u.base,
                   plan |-> u.tx, sender |-> Key(p), status |-> "pending"]
  <2>2. txs' = Append(txs, x)
    BY <1>2 DEF Broadcast
  <2> HIDE DEF x
  <2>3. txs \in Seq(Tx \cup {x}) /\ x \in Tx \cup {x}
    BY <1>0, SeqMonotonic
  <2>4. /\ Len(txs') = Len(txs) + 1
        /\ \A i \in 1..Len(txs) : txs'[i] = txs[i]
    BY <2>2, <2>3, AppendProperties
  <2> QED
    BY <1>0, <2>4 DEF TxsAdvance
<1>3. ASSUME NEW i \in DOMAIN txs, NEW s, txs[i].status = "pending",
             txs' = [txs EXCEPT ![i].status = s]
      PROVE  TxsAdvance
  <2>1. Len(txs') = Len(txs) /\ \A j \in DOMAIN txs : j # i => txs'[j] = txs[j]
    BY <1>0, <1>3
  <2> QED
    BY <1>0, <1>3, <2>1 DEF TxsAdvance
<1>4. CASE ChainStep
  BY <1>3, <1>4 DEF ChainStep, Include, Includable, Drop
<1>5. ASSUME NEW p \in Procs, Step(p) \/ Killed(p) \/ \E r \in Requests : Start(p, r)
      PROVE  TxsAdvance
  BY <1>1, <1>2, <1>5, OnlyBroadcastSends
<1>6. CASE OwnerStep \/ UNCHANGED vars
  BY <1>1, <1>6 DEF OwnerStep, OwnerSetsGasData, OwnerSetsIgp, TransferOwnership, OwnerActs,
                    vars, chainVars
<1> QED
  BY <1>4, <1>5, <1>6 DEF Next

(* What a run has achieved is not undone while the run is left alone.      *)
LEMMA UntouchedKeeps ==
  ASSUME TxsAdvance, NEW q \in Procs, RunInv(q), Untouched(q), Len(txs) \in Nat,
         Len(txs') \in Nat
  PROVE  RunInv(q)'
<1>1. /\ Updates(q)' = Updates(q) /\ Executable(q)' = Executable(q)
      /\ Clean(q)' <=> Clean(q)
  BY DEF Untouched, Updates, Executable, Clean
<1>2. Collected(q)'
  BY <1>1 DEF RunInv, Collected, Corresponds, Untouched
<1>3. Underway(q)'
  BY DEF RunInv, Underway, Untouched, InvalidMode
<1>4. PlanClean(q)'
  BY <1>1 DEF RunInv, PlanClean, Untouched
<1>5. SentClean(q)'
  BY DEF RunInv, SentClean, Untouched, TxsAdvance
<1>6. Applied(q) => Applied(q)'
  BY DEF RunInv, SentClean, Applied, SentTx, Untouched, TxsAdvance
<1>7. Generated(q) => Generated(q)'
  BY <1>1 DEF Generated, Blocked, Untouched
<1>8. Accomplished(q) => Accomplished(q)'
  BY <1>1, <1>6, <1>7 DEF Accomplished
<1>9. OutcomeTrue(q)'
  BY <1>1, <1>6, <1>8 DEF RunInv, OutcomeTrue, Filed, Untouched
<1> QED
  BY <1>2, <1>3, <1>4, <1>5, <1>9 DEF RunInv

(* The runs of other operators leave it alone.                             *)
LEMMA OtherRunsLeave ==
  ASSUME TypeOK, NEW p \in Procs, NEW q \in Procs \ {p},
         Step(p) \/ Killed(p) \/ \E r \in Requests : Start(p, r)
  PROVE  Untouched(q)
<1> USE DEF TypeOK, Untouched
<1>1. CASE \E r \in Requests : Start(p, r)
  BY <1>1 DEF Start
<1>2. CASE Prepare(p)
  BY <1>2 DEF Prepare, ReadDomain, ReadOracle, ReadGasData, ReadDomainFails, ListConfigs,
              Listing, ListFails, TakeRead, Stop, localVars
<1>3. CASE Assess(p)
  <2>1. CASE EvaluationPanics(p)
    BY <2>1 DEF EvaluationPanics, Stop, localVars
  <2>2. CASE \E status, base, tx : Conclude(p, status, base, tx)
    BY <2>2 DEF Conclude
  <2>3. CASE UNCHANGED <<pc, args, artifacts, exec, plan, sent, err, exit, files>>
    BY <2>3
  <2> QED
    BY <1>3, <2>1, <2>2, <2>3 DEF Assess, ReportReadError, ProposalFails, Evaluate, PlanUpdate,
                              PlanUpdateFails
<1>4. CASE Gate(p)
  BY <1>4 DEF Gate, ReviewOnly, RefuseWrite, BuildWritePlan, Stop, localVars
<1>5. CASE Submit(p)
  BY <1>5 DEF Submit, SubmitRefused, CheckOwner, SubmitFails, Broadcast, ReceiveReceipt,
              GiveUp, Fail, localVars
<1>6. CASE Report(p) \/ Killed(p)
  BY <1>6 DEF Report, WriteSummary, WritePlanJson, FileFails, Killed, Stop, localVars
<1> QED
  BY <1>1, <1>2, <1>3, <1>4, <1>5, <1>6 DEF Step

(* So do the chains and their owners.                                      *)
LEMMA ChainsLeave ==
  ASSUME NEW q \in Procs, ChainStep \/ OwnerStep \/ UNCHANGED vars
  PROVE  Untouched(q)
<1>1. UNCHANGED <<pc, args, artifacts, exec, plan, sent, err, exit, files>>
  <2>1. CASE ChainStep
    BY <2>1 DEF ChainStep, Include, Drop, localVars
  <2>2. CASE OwnerStep
    BY <2>2 DEF OwnerStep, OwnerSetsGasData, OwnerSetsIgp, TransferOwnership, OwnerActs,
                localVars
  <2>3. CASE UNCHANGED vars
    BY <2>3 DEF vars, localVars
  <2> QED
    BY <2>1, <2>2, <2>3
<1> QED
  BY <1>1 DEF Untouched

----------------------------------------------------------------------------
(* The steps of the run itself.                                            *)

(* A run starts with nothing done, or ends at once with an error.          *)
LEMMA StartKeeps ==
  ASSUME TypeOK, NEW q \in Procs, NEW r \in Requests, Start(q, r)
  PROVE  RunInv(q)'
<1>1. /\ artifacts'[q] = <<>> /\ exec'[q] = <<>> /\ plan'[q] = NoWritePlan
      /\ sent'[q] = 0 /\ err'[q] = 0 /\ args'[q] = r
      /\ \/ pc'[q] = "work" /\ exit'[q] = Running /\ StartError(r) = 0
         \/ pc'[q] = "idle" /\ exit'[q] = StartError(r) /\ StartError(r) # 0
  BY DEF Start, TypeOK
<1>2. StartError(r) \in {0, 20, 30} /\ (StartError(r) = 0 => ~InvalidMode(r))
  BY DEF StartError
<1>3. Updates(q)' = {} /\ Executable(q)' = {}
  BY <1>1 DEF Updates, Executable
<1>4. Collected(q)'
  BY <1>1, <1>3, FS_EmptySet DEF Collected
<1>5. Underway(q)'
  BY <1>1, <1>2 DEF Underway, InvalidMode
<1>6. PlanClean(q)' /\ SentClean(q)' /\ OutcomeTrue(q)'
  BY <1>1, <1>2 DEF PlanClean, SentClean, OutcomeTrue, NoWritePlan, Running
<1> QED
  BY <1>4, <1>5, <1>6 DEF RunInv

\* What a run has concluded and sent, and the list of transactions.
SameWork(q) ==
  /\ args'[q] = args[q] /\ artifacts'[q] = artifacts[q] /\ exec'[q] = exec[q]

(* What was collected stays collected with the artifacts.                  *)
LEMMA SameWorkKeeps ==
  ASSUME NEW q \in Procs, SameWork(q)
  PROVE  /\ Updates(q)' = Updates(q) /\ Executable(q)' = Executable(q)
         /\ Clean(q)' <=> Clean(q)
         /\ Collected(q) => Collected(q)'
         /\ InvalidMode(args'[q]) <=> InvalidMode(args[q])
         /\ \A k \in Updates(q) : Blocked(q, k)' <=> Blocked(q, k)
<1>1. /\ Updates(q)' = Updates(q) /\ Executable(q)' = Executable(q)
      /\ Clean(q)' <=> Clean(q)
  BY DEF SameWork, Updates, Executable, Clean
<1> QED
  BY <1>1 DEF SameWork, Collected, Corresponds, Blocked

(* A run that stops on an error, or is killed, claims nothing.             *)
LEMMA StopKeeps ==
  ASSUME NEW q \in Procs, RunInv(q), SameWork(q), pc'[q] = "idle",
         plan'[q] = plan[q], sent'[q] = sent[q], err'[q] = err[q], txs' = txs,
         exit'[q] \in {20, 30, Gone}, exit'[q] = 30 => sent[q] = 0
  PROVE  RunInv(q)'
<1>1. Collected(q)' /\ Underway(q)' /\ PlanClean(q)' /\ SentClean(q)'
  BY SameWorkKeeps
  DEF RunInv, Underway, PlanClean, SentClean, SameWork, InvalidMode
<1>2. Applied(q)' <=> Applied(q)
  BY DEF Applied, SentTx
<1>3. OutcomeTrue(q)'
  BY <1>2 DEF RunInv, OutcomeTrue, Gone
<1> QED
  BY <1>1, <1>3 DEF RunInv

(* A submission that fails: code 30 only before anything was sent.         *)
LEMMA FailKeeps ==
  ASSUME TypeOK, NEW q \in Procs, RunInv(q), NEW code \in {20, 30},
         Fail(q, code), txs' = txs, sent' = sent,
         pc[q] \in {"submit", "broadcast", "await"}, code = 30 => sent[q] = 0
  PROVE  RunInv(q)'
<1>1. /\ SameWork(q) /\ pc'[q] = "summary" /\ err'[q] = code /\ exit'[q] = exit[q]
      /\ plan'[q].status = "failed" /\ plan'[q].targets = plan[q].targets
      /\ sent'[q] = sent[q]
  BY DEF Fail, TypeOK, SameWork
<1>2. Collected(q)'
  BY <1>1, SameWorkKeeps DEF RunInv
<1>3. Underway(q)'
  BY <1>1, SameWorkKeeps DEF RunInv, Underway
<1>4. PlanClean(q)'
  BY <1>1, SameWorkKeeps DEF RunInv, Underway, PlanClean
<1>5. SentClean(q)'
  BY <1>1 DEF RunInv, Underway, SentClean, SameWork
<1>6. OutcomeTrue(q)'
  BY <1>1 DEF RunInv, Underway, OutcomeTrue, Running
<1> QED
  BY <1>2, <1>3, <1>4, <1>5, <1>6 DEF RunInv

(* Concluding a target with a recommended update and a transaction adds    *)
(* both an executable update and an artifact for it; concluding any other  *)
(* target adds an artifact that counts for nothing.                        *)
LEMMA ConcludeCollects ==
  ASSUME TypeOK, NEW q \in Procs, Collected(q), expanded[q] # <<>>,
         NEW status \in Statuses, NEW base, NEW tx \in SUBSET TxPlan,
         tx # {} => base \in IgpConfig, \A x, y \in tx : x = y,
         Conclude(q, status, base, tx)
  PROVE  Collected(q)'
<1> DEFINE h == Head(expanded[q])
           a == [target |-> h.target, domain |-> h.domain, status |-> status, tx |-> tx]
           u == [target |-> h.target, domain |-> h.domain, base |-> base,
                 tx |-> CHOOSE x \in tx : TRUE]
           due == status = "update_recommended" /\ tx # {}
<1>0. PICK n \in Nat, m \in Nat : n = Len(artifacts[q]) /\ m = Len(exec[q])
  BY LenProperties DEF TypeOK
<1>1. h \in ExpandedTarget
  BY HeadTailProperties DEF TypeOK
<1>2. a \in Artifact /\ (due => u \in ExecutableUpdate)
  BY <1>1 DEF Artifact, ExecutableUpdate, ExpandedTarget
<1>3. artifacts'[q] = Append(artifacts[q], a)
  BY DEF Conclude, TypeOK
<1>4. exec'[q] = IF due THEN Append(exec[q], u) ELSE exec[q]
  BY DEF Conclude, TypeOK
<1>5. /\ a.status = status /\ a.tx = tx /\ a.target = u.target /\ a.domain = u.domain
      /\ due => tx = {u.tx}
  OBVIOUS
<1> HIDE DEF a, u, h
<1>6. /\ DOMAIN artifacts[q] = 1..n
      /\ DOMAIN artifacts'[q] = 1..(n + 1)
      /\ \A i \in 1..n : artifacts'[q][i] = artifacts[q][i]
      /\ artifacts'[q][n + 1] = a
  BY <1>0, <1>2, <1>3, AppendProperties, LenProperties DEF TypeOK
<1>7. due => /\ Len(exec'[q]) = m + 1
             /\ \A i \in 1..m : exec'[q][i] = exec[q][i]
             /\ exec'[q][m + 1] = u
  BY <1>0, <1>2, <1>4, AppendProperties, LenProperties DEF TypeOK
<1>8. Executable(q) \subseteq 1..n
  BY <1>6 DEF Executable, Updates
<1>9. IsFiniteSet(Executable(q))
  <2>1. IsFiniteSet(1..n)
    BY FS_Interval
  <2> QED
    BY <1>8, <2>1, FS_Subset
<1>10. m = Cardinality(Executable(q)) /\ \A k \in 1..m : Corresponds(q, k)
  BY <1>0 DEF Collected
<1>11. CASE ~due
  <2>1. Executable(q)' = Executable(q)
    BY <1>5, <1>6, <1>8, <1>11 DEF Executable, Updates
  <2>2. exec'[q] = exec[q]
    BY <1>4, <1>11
  <2>3. ASSUME NEW k \in 1..m PROVE Corresponds(q, k)'
    <3>1. PICK j \in Executable(q) :
            /\ Cardinality({i \in Executable(q) : i <= j}) = k
            /\ exec[q][k].target = artifacts[q][j].target
            /\ exec[q][k].domain = artifacts[q][j].domain
            /\ artifacts[q][j].tx = {exec[q][k].tx}
      BY <1>10, <2>3 DEF Corresponds
    <3>2. artifacts'[q][j] = artifacts[q][j]
      BY <1>6, <1>8, <3>1
    <3> QED
      BY <2>1, <2>2, <3>1, <3>2 DEF Corresponds
  <2> QED
    BY <1>0, <1>10, <2>1, <2>2, <2>3 DEF Collected
<1>12. CASE due
  <2>1. Executable(q)' = Executable(q) \cup {n + 1}
    BY <1>5, <1>6, <1>8, <1>12 DEF Executable, Updates
  <2>2. Cardinality(Executable(q) \cup {n + 1}) = m + 1
    <3>1. n + 1 \notin Executable(q)
      BY <1>6, <1>8
    <3> QED
      BY <1>9, <1>10, <3>1, FS_AddElement
  <2>3. ASSUME NEW k \in 1..m PROVE Corresponds(q, k)'
    <3>1. PICK j \in Executable(q) :
            /\ Cardinality({i \in Executable(q) : i <= j}) = k
            /\ exec[q][k].target = artifacts[q][j].target
            /\ exec[q][k].domain = artifacts[q][j].domain
            /\ artifacts[q][j].tx = {exec[q][k].tx}
      BY <1>10, <2>3 DEF Corresponds
    <3>2. artifacts'[q][j] = artifacts[q][j] /\ exec'[q][k] = exec[q][k] /\ j \in 1..n
      BY <1>6, <1>7, <1>8, <1>12, <3>1
    <3>3. {i \in Executable(q) \cup {n + 1} : i <= j} = {i \in Executable(q) : i <= j}
      BY <1>6, <3>2
    <3> QED
      BY <2>1, <3>1, <3>2, <3>3 DEF Corresponds
  <2>4. Corresponds(q, m + 1)'
    <3>1. {i \in Executable(q) \cup {n + 1} : i <= n + 1} = Executable(q) \cup {n + 1}
      BY <1>6, <1>8
    <3>2. n + 1 \in Executable(q)'
      BY <2>1
    <3>3. /\ exec'[q][m + 1].target = artifacts'[q][n + 1].target
          /\ exec'[q][m + 1].domain = artifacts'[q][n + 1].domain
          /\ artifacts'[q][n + 1].tx = {exec'[q][m + 1].tx}
      BY <1>5, <1>6, <1>7, <1>12
    <3> QED
      BY <2>1, <2>2, <3>1, <3>2, <3>3 DEF Corresponds
  <2>5. \A k \in 1..(m + 1) : Corresponds(q, k)'
    BY <1>7, <2>3, <2>4
  <2> QED
    BY <1>7, <1>12, <2>1, <2>2, <2>5 DEF Collected
<1> QED
  BY <1>11, <1>12

(* A run that is still evaluating has promised nothing yet.                *)
LEMMA ConcludeKeeps ==
  ASSUME TypeOK, NEW q \in Procs, RunInv(q), pc[q] = "work", expanded[q] # <<>>,
         NEW status \in Statuses, NEW base, NEW tx \in SUBSET TxPlan,
         tx # {} => base \in IgpConfig, \A x, y \in tx : x = y,
         Conclude(q, status, base, tx)
  PROVE  RunInv(q)'
<1>1. /\ pc'[q] = pc[q] /\ args'[q] = args[q] /\ plan'[q] = plan[q] /\ sent'[q] = sent[q]
      /\ err'[q] = err[q] /\ exit'[q] = exit[q]
  BY DEF Conclude
<1>2. plan[q] = NoWritePlan /\ sent[q] = 0 /\ exit[q] = Running
  BY DEF RunInv, Underway
<1>3. Collected(q)'
  BY ConcludeCollects DEF RunInv
<1>4. Underway(q)'
  BY <1>1 DEF RunInv, Underway, InvalidMode
<1>5. PlanClean(q)' /\ SentClean(q)' /\ OutcomeTrue(q)'
  BY <1>1, <1>2 DEF PlanClean, SentClean, OutcomeTrue, NoWritePlan, Running
<1> QED
  BY <1>3, <1>4, <1>5 DEF RunInv

(* Every step of the evaluation.                                           *)
LEMMA AssessKeeps ==
  ASSUME IInv, NEW q \in Procs, RunInv(q), TxsAdvance, Assess(q),
         Len(txs) \in Nat, Len(txs') \in Nat
  PROVE  RunInv(q)'
<1>1. TypeOK /\ Drafting
  BY DEF IInv
<1>2. CASE EvaluationPanics(q)
  <2>1. /\ pc'[q] = "idle" /\ exit'[q] = Gone /\ SameWork(q) /\ txs' = txs
        /\ plan'[q] = plan[q] /\ sent'[q] = sent[q] /\ err'[q] = err[q]
    BY <1>1, <1>2 DEF EvaluationPanics, Stop, TypeOK, SameWork, localVars, chainVars
  <2> QED
    BY <2>1, StopKeeps DEF Gone
<1>3. CASE Drafts(q)
  <2>1. Untouched(q)
    BY <1>3 DEF Drafts, Untouched
  <2> QED
    BY <2>1, UntouchedKeeps
<1>4. ASSUME expanded[q] # <<>>, NEW status \in Statuses, NEW base,
             Conclude(q, status, base, {})
      PROVE  RunInv(q)'
  <2>1. pc[q] = "work"
    BY <1>1, AssessConcludes
  <2> QED
    BY <1>1, <1>4, <2>1, ConcludeKeeps
<1>5. ASSUME expanded[q] # <<>>, NEW x \in draft[q], x.oracle # NoOracle,
             Conclude(q, x.status, x.base, {Planned(x)})
      PROVE  RunInv(q)'
  <2>1. pc[q] = "work"
    BY <1>1, AssessConcludes
  <2>2. x \in Draft
    BY <1>1 DEF TypeOK
  <2>3. x.status \in Statuses /\ x.base \in IgpConfig /\ Planned(x) \in TxPlan
    BY <1>1, <1>5, <2>2, PlannedType DEF Draft
  <2> QED
    BY <1>1, <1>5, <2>1, <2>3, ConcludeKeeps
<1> QED
  BY <1>1, <1>2, <1>3, <1>4, <1>5, AssessConcludes

(* Reading concludes nothing; a listing that fails ends the run.           *)
LEMMA PrepareKeeps ==
  ASSUME IInv, NEW q \in Procs, RunInv(q), TxsAdvance, Prepare(q),
         Len(txs) \in Nat, Len(txs') \in Nat
  PROVE  RunInv(q)'
<1>1. CASE ListFails(q)
  <2>1. /\ pc'[q] = "idle" /\ exit'[q] \in {20, 30} /\ SameWork(q) /\ txs' = txs
        /\ plan'[q] = plan[q] /\ sent'[q] = sent[q] /\ err'[q] = err[q] /\ pc[q] = "work"
    BY <1>1 DEF ListFails, IsNext, Stop, IInv, TypeOK, SameWork, localVars, chainVars
  <2>2. sent[q] = 0
    BY <2>1 DEF RunInv, Underway
  <2> QED
    BY <2>1, <2>2, StopKeeps
<1>2. CASE ~ListFails(q)
  <2>1. Untouched(q)
    BY <1>2 DEF Prepare, ReadDomain, ReadOracle, ReadGasData, ReadDomainFails, ListConfigs,
                Listing, TakeRead, Untouched
  <2> QED
    BY <2>1, UntouchedKeeps
<1> QED
  BY <1>1, <1>2

(* A write plan without an error: no target holds the others back, and     *)
(* every update has a transaction.                                         *)
LEMMA GateIsClean ==
  ASSUME TypeOK, NEW p \in Procs, WritePlanError(p) = 0
  PROVE  /\ \A k \in DOMAIN artifacts[p] :
              artifacts[p][k].status \in {"noop", "update_recommended"}
         /\ Executable(p) = Updates(p)
         /\ \A k \in Updates(p) : ~Blocked(p, k)
<1>1. \A k \in DOMAIN artifacts[p] : artifacts[p][k].status \in Statuses
  <2>1. artifacts[p] \in [1..Len(artifacts[p]) -> Artifact]
    BY LenProperties DEF TypeOK
  <2> QED
    BY <2>1 DEF Artifact
<1>2. \A k \in DOMAIN artifacts[p] :
        ~IsError(artifacts[p][k].status) /\ artifacts[p][k].status # "policy_violation"
  BY DEF WritePlanError
<1>3. \A k \in Updates(p) : ~Blocked(p, k)
  BY GateLooksAtAll
<1>4. Executable(p) = Updates(p)
  BY <1>3 DEF Executable, Blocked
<1> QED
  BY <1>1, <1>2, <1>3, <1>4 DEF IsError, Statuses

(* The gates: a dry run goes on to its files, a refusal ends the run, and  *)
(* a write plan is made of clean targets.                                  *)
LEMMA GateKeeps ==
  ASSUME TypeOK, NEW q \in Procs, RunInv(q), Gate(q)
  PROVE  RunInv(q)'
<1>0. pc[q] = "work"
  BY DEF Gate, ReviewOnly, RefuseWrite, BuildWritePlan, Evaluated
<1>1. /\ plan[q] = NoWritePlan /\ sent[q] = 0 /\ err[q] = 0 /\ exit[q] = Running
      /\ ~InvalidMode(args[q])
  BY <1>0 DEF RunInv, Underway
<1>2. CASE RefuseWrite(q)
  <2>1. /\ pc'[q] = "idle" /\ exit'[q] = WritePlanError(q) /\ SameWork(q) /\ txs' = txs
        /\ plan'[q] = plan[q] /\ sent'[q] = sent[q] /\ err'[q] = err[q]
        /\ WritePlanError(q) # 0
    BY <1>2 DEF RefuseWrite, Stop, TypeOK, SameWork, localVars, chainVars
  <2> QED
    BY <1>1, <2>1, WriteCodes, StopKeeps
<1>3. CASE ReviewOnly(q)
  <2>1. /\ SameWork(q) /\ pc'[q] = "summary" /\ exit'[q] = exit[q] /\ ~args[q].write
        /\ plan'[q] = plan[q] /\ sent'[q] = sent[q] /\ err'[q] = err[q]
    BY <1>3 DEF ReviewOnly, TypeOK, SameWork, localVars
  <2>2. Collected(q)' /\ Underway(q)'
    BY <1>1, <2>1, SameWorkKeeps DEF RunInv, Underway
  <2>3. PlanClean(q)' /\ SentClean(q)' /\ OutcomeTrue(q)'
    BY <1>1, <2>1
    DEF PlanClean, SentClean, OutcomeTrue, SameWork, NoWritePlan, Running
  <2> QED
    BY <2>2, <2>3 DEF RunInv
<1>4. CASE BuildWritePlan(q)
  <2>1. /\ SameWork(q) /\ exit'[q] = exit[q] /\ args[q].write
        /\ sent'[q] = sent[q] /\ err'[q] = err[q]
    BY <1>4 DEF BuildWritePlan, SameWork
  <2>2. Clean(q) /\ Executable(q) = Updates(q)
    BY <1>4, GateIsClean DEF BuildWritePlan, Clean
  <2>3. plan'[q] = IF Updates(q) = {} THEN [status |-> "no_update_required", targets |-> 0]
                   ELSE [status |-> "ready", targets |-> Cardinality(Updates(q))]
    BY <1>4 DEF BuildWritePlan, TypeOK
  <2>4. pc'[q] = IF Updates(q) = {} \/ args[q].generateOnly THEN "summary" ELSE "submit"
    BY <1>4 DEF BuildWritePlan, TypeOK
  <2>5. Collected(q)' /\ Underway(q)'
    BY <1>1, <2>1, <2>3, <2>4, SameWorkKeeps DEF RunInv, Underway, SameWork
  <2>6. PlanClean(q)'
    BY <2>1, <2>2, <2>3, <2>4, SameWorkKeeps DEF PlanClean
  <2>7. SentClean(q)'
    BY <1>1, <2>1 DEF SentClean
  <2>8. \A k \in Updates(q) : ~Blocked(q, k)
    BY <1>4, GateIsClean DEF BuildWritePlan
  <2>9. pc'[q] = "summary" => Clean(q)' /\ Accomplished(q)'
    <3>1. CASE Updates(q) = {}
      BY <2>1, <2>2, <3>1, SameWorkKeeps DEF Accomplished
    <3>2. ASSUME Updates(q) # {}, pc'[q] = "summary" PROVE Generated(q)'
      BY <1>1, <2>1, <2>3, <2>4, <2>8, <3>2, SameWorkKeeps DEF Generated, SameWork
    <3> QED
      BY <2>1, <2>2, <3>1, <3>2, SameWorkKeeps DEF Accomplished
  <2>10. OutcomeTrue(q)'
    BY <1>1, <2>1, <2>3, <2>4, <2>9 DEF OutcomeTrue, Running
  <2> QED
    BY <2>5, <2>6, <2>7, <2>10 DEF RunInv
<1> QED
  BY <1>2, <1>3, <1>4 DEF Gate

(* A submission: one transaction at most, and a receipt that speaks of it. *)
LEMMA SubmitKeeps ==
  ASSUME IInv, NEW q \in Procs, RunInv(q), Submit(q)
  PROVE  RunInv(q)'
<1>0. TypeOK
  BY DEF IInv
<1>1. CASE SubmitRefused(q)
  <2>1. SubmitError(q) \in {20, 30} /\ Fail(q, SubmitError(q)) /\ sent[q] = 0
    BY <1>1 DEF SubmitRefused, SubmitError, RunInv, Underway
  <2> QED
    BY <1>0, <1>1, <2>1, FailKeeps DEF SubmitRefused, chainVars
<1>2. CASE CheckOwner(q)
  <2>1. pc[q] = "submit" /\ sent[q] = 0 /\ SubmitError(q) = 0
    BY <1>2 DEF CheckOwner, RunInv, Underway
  <2>2. CASE Fail(q, 30) /\ UNCHANGED <<chainVars, sent>>
    BY <1>0, <2>1, <2>2, FailKeeps DEF chainVars
  <2>3. CASE /\ pc' = [pc EXCEPT ![q] = "broadcast"]
             /\ UNCHANGED <<chainVars, localVars, exit, runs>>
    <3>1. /\ SameWork(q) /\ pc'[q] = "broadcast" /\ exit'[q] = exit[q]
          /\ plan'[q] = plan[q] /\ sent'[q] = sent[q] /\ err'[q] = err[q] /\ txs' = txs
      BY <1>0, <2>3 DEF TypeOK, SameWork, localVars, chainVars
    <3>2. plan[q].targets = 1
      <4>1. CASE Len(exec[q]) # plan[q].targets \/ Len(exec[q]) # 1
        <5>1. SubmitError(q) = 30
          BY <4>1 DEF SubmitError
        <5> QED
          BY <2>1, <5>1
      <4>2. CASE ~(Len(exec[q]) # plan[q].targets \/ Len(exec[q]) # 1)
        BY <4>2
      <4> QED
        BY <4>1, <4>2
    <3>3. Collected(q)' /\ Underway(q)'
      BY <2>1, <3>1, SameWorkKeeps DEF RunInv, Underway, SameWork
    <3>4. PlanClean(q)'
      BY <3>1, <3>2, SameWorkKeeps DEF RunInv, PlanClean
    <3>5. SentClean(q)'
      BY <2>1, <3>1 DEF SentClean
    <3>6. OutcomeTrue(q)'
      BY <2>1, <3>1 DEF RunInv, Underway, OutcomeTrue, Applied, SentTx, Running
    <3> QED
      BY <3>3, <3>4, <3>5, <3>6 DEF RunInv
  <2> QED
    BY <1>2, <2>2, <2>3 DEF CheckOwner
<1>3. CASE SubmitFails(q)
  BY <1>0, <1>3, FailKeeps DEF SubmitFails, chainVars
<1>4. CASE GiveUp(q)
  BY <1>0, <1>4, FailKeeps DEF GiveUp, chainVars
<1>5. CASE Broadcast(q)
  <2>1. pc[q] = "broadcast"
    BY <1>5 DEF Broadcast
  <2>2. /\ SameWork(q) /\ pc'[q] = "await" /\ exit'[q] = exit[q]
        /\ plan'[q] = plan[q] /\ err'[q] = err[q] /\ sent'[q] = Len(txs')
    BY <1>0, <1>5 DEF Broadcast, TypeOK, SameWork
  <2>3. Len(txs') \in Nat /\ Len(txs') # 0
    <3> DEFINE u == TheUpdate(q)
               x == [target |-> u.target, domain |-> u.domain, base |-> u.base,
                     plan |-> u.tx, sender |-> Key(q), status |-> "pending"]
    <3>1. txs' = Append(txs, x)
      BY <1>5 DEF Broadcast
    <3> HIDE DEF x
    <3>2. txs \in Seq(Tx \cup {x}) /\ x \in Tx \cup {x}
      BY <1>0, SeqMonotonic DEF TypeOK
    <3>3. Len(txs') = Len(txs) + 1 /\ Len(txs) \in Nat
      BY <3>1, <3>2, AppendProperties, LenProperties
    <3> QED
      BY <3>3
  <2>4. /\ args[q].write /\ ~args[q].generateOnly /\ ~InvalidMode(args[q])
        /\ plan[q].status = "ready" /\ plan[q].targets = 1
        /\ err[q] = 0 /\ exit[q] = Running
    BY <2>1 DEF RunInv, Underway, PlanClean
  <2>5. Collected(q)' /\ Underway(q)'
    BY <2>2, <2>3, <2>4, SameWorkKeeps DEF RunInv, Underway, SameWork
  <2>6. PlanClean(q)'
    BY <2>2, <2>4, SameWorkKeeps DEF RunInv, PlanClean
  <2>7. SentClean(q)'
    BY <2>2, <2>3, <2>4 DEF SentClean, SameWork, InvalidMode
  <2>8. OutcomeTrue(q)'
    BY <2>2, <2>4 DEF OutcomeTrue, Running
  <2> QED
    BY <2>5, <2>6, <2>7, <2>8 DEF RunInv
<1>6. CASE ReceiveReceipt(q)
  <2>1. pc[q] = "await" /\ txs[sent[q]].status = "applied"
    BY <1>6 DEF ReceiveReceipt
  <2>2. /\ SameWork(q) /\ pc'[q] = "summary" /\ exit'[q] = exit[q]
        /\ plan'[q].status = "submitted" /\ plan'[q].targets = plan[q].targets
        /\ err'[q] = err[q] /\ sent'[q] = sent[q] /\ txs' = txs
    BY <1>0, <1>6 DEF ReceiveReceipt, TypeOK, SameWork, chainVars
  <2>3. Collected(q)' /\ Underway(q)'
    BY <2>1, <2>2, SameWorkKeeps DEF RunInv, Underway
  <2>4. PlanClean(q)'
    BY <2>1, <2>2, SameWorkKeeps DEF RunInv, Underway, PlanClean
  <2>5. SentClean(q)'
    BY <2>2 DEF RunInv, SentClean, SameWork
  <2>6. Applied(q)' /\ Clean(q)'
    BY <2>1, <2>2, SameWorkKeeps DEF RunInv, Underway, PlanClean, Applied, SentTx
  <2>7. OutcomeTrue(q)'
    BY <2>1, <2>2, <2>6 DEF RunInv, Underway, OutcomeTrue, Accomplished, Running
  <2> QED
    BY <2>3, <2>4, <2>5, <2>7 DEF RunInv
<1> QED
  BY <1>1, <1>2, <1>3, <1>4, <1>5, <1>6 DEF Submit

(* The exit code of a plan, for statuses that the policy knows.            *)
LEMMA PlanCodes ==
  ASSUME TypeOK, NEW p \in Procs
  PROVE  /\ PlanExitCode(p) \in {0, 10, 20, 30}
         /\ PlanExitCode(p) = 0 => Clean(p) /\ Updates(p) = {}
         /\ PlanExitCode(p) = 10 => Clean(p) /\ Updates(p) # {}
<1> DEFINE statuses == {artifacts[p][k].status : k \in DOMAIN artifacts[p]}
<1>1. \A k \in DOMAIN artifacts[p] : artifacts[p][k].status \in Statuses
  <2>1. artifacts[p] \in [1..Len(artifacts[p]) -> Artifact]
    BY LenProperties DEF TypeOK
  <2> QED
    BY <2>1 DEF Artifact
<1>2. statuses \subseteq Statuses
  BY <1>1
<1>3. PlanExitCode(p) =
        IF statuses \cap {"policy_violation", "policy_error"} # {} THEN 30
        ELSE IF \E s \in statuses : IsError(s) THEN 20
        ELSE IF "update_recommended" \in statuses THEN 10
        ELSE 0
  BY DEF PlanExitCode
<1>4. \A k \in DOMAIN artifacts[p] : artifacts[p][k].status \in statuses
  OBVIOUS
<1>5. \A s \in statuses : \E k \in DOMAIN artifacts[p] : artifacts[p][k].status = s
  OBVIOUS
<1> HIDE DEF statuses
<1>6. CASE statuses \cap {"policy_violation", "policy_error"} # {}
  BY <1>3, <1>6
<1>7. CASE /\ statuses \cap {"policy_violation", "policy_error"} = {}
           /\ \E s \in statuses : IsError(s)
  BY <1>3, <1>7
<1>8. CASE /\ statuses \cap {"policy_violation", "policy_error"} = {}
           /\ ~\E s \in statuses : IsError(s)
  <2>1. statuses \subseteq {"noop", "update_recommended"}
    BY <1>2, <1>8 DEF Statuses, IsError
  <2>2. PlanExitCode(p) = IF "update_recommended" \in statuses THEN 10 ELSE 0
    BY <1>3, <1>8
  <2>3. Clean(p)
    BY <1>4, <2>1 DEF Clean
  <2>4. Updates(p) # {} <=> "update_recommended" \in statuses
    BY <1>4, <1>5 DEF Updates
  <2> QED
    BY <2>2, <2>3, <2>4
<1> QED
  BY <1>6, <1>7, <1>8

(* The end of a run: the files, and an exit code that is true.             *)
LEMMA ReportKeeps ==
  ASSUME TypeOK, NEW q \in Procs, RunInv(q), Report(q)
  PROVE  RunInv(q)'
<1>1. CASE WriteSummary(q)
  <2>1. /\ SameWork(q) /\ pc[q] = "summary" /\ pc'[q] = "json" /\ exit'[q] = exit[q]
        /\ plan'[q] = plan[q] /\ sent'[q] = sent[q] /\ err'[q] = err[q] /\ txs' = txs
        /\ "summary" \in files'[q]
    BY <1>1 DEF WriteSummary, TypeOK, SameWork, chainVars
  <2>2. Collected(q)' /\ Underway(q)' /\ PlanClean(q)' /\ SentClean(q)'
    BY <2>1, SameWorkKeeps DEF RunInv, Underway, PlanClean, SentClean, SameWork
  <2>3. (Clean(q)' <=> Clean(q)) /\ (Applied(q)' <=> Applied(q))
        /\ (Accomplished(q)' <=> Accomplished(q))
    BY <2>1, SameWorkKeeps DEF Applied, SentTx, Accomplished, Generated, SameWork
  <2>4. exit[q] = Running
    BY <2>1 DEF RunInv, Underway
  <2>5. OutcomeTrue(q)'
    BY <2>1, <2>3, <2>4 DEF RunInv, OutcomeTrue, SameWork, Running
  <2> QED
    BY <2>2, <2>5 DEF RunInv
<1>2. CASE WritePlanJson(q)
  <2>1. /\ SameWork(q) /\ pc[q] = "json" /\ pc'[q] = "idle"
        /\ plan'[q] = plan[q] /\ sent'[q] = sent[q] /\ err'[q] = err[q] /\ txs' = txs
        /\ exit'[q] = IF err[q] # 0 THEN err[q]
                      ELSE IF args[q].write THEN 0 ELSE PlanExitCode(q)
    BY <1>2 DEF WritePlanJson, Stop, TypeOK, SameWork, chainVars
  <2>2. Collected(q)' /\ Underway(q)' /\ PlanClean(q)' /\ SentClean(q)'
    BY <2>1, SameWorkKeeps DEF RunInv, Underway, PlanClean, SentClean, SameWork
  <2>3. (Clean(q)' <=> Clean(q)) /\ (Applied(q)' <=> Applied(q))
        /\ (Accomplished(q)' <=> Accomplished(q))
    BY <2>1, SameWorkKeeps DEF Applied, SentTx, Accomplished, Generated, SameWork
  <2>4. err[q] \in {0, 20, 30} /\ args'[q] = args[q] /\ Updates(q)' = Updates(q)
    BY <2>1, SameWorkKeeps DEF TypeOK, SameWork
  <2>5. Filed(q)'
    <3>1. files'[q] = files[q] \cup {"plan"} /\ files[q] \subseteq {"summary", "plan"}
      BY <1>2 DEF WritePlanJson, TypeOK
    <3> QED
      BY <2>1, <3>1 DEF RunInv, Underway, Filed
  <2>6. err[q] = 0 /\ args[q].write => Clean(q) /\ Accomplished(q)
    BY <2>1 DEF RunInv, OutcomeTrue
  <2>7. err[q] = 30 \/ ~args[q].write => sent[q] = 0
    BY DEF RunInv, SentClean
  <2>8. exit'[q] = 0 => Clean(q) /\ Accomplished(q)
    BY <2>1, <2>4, <2>6, PlanCodes DEF Accomplished
  <2>9. exit'[q] = 10 => Clean(q) /\ ~args[q].write /\ Updates(q) # {}
    BY <2>1, <2>4, PlanCodes
  <2>10. exit'[q] = 30 => sent[q] = 0
    BY <2>1, <2>4, <2>7
  <2>11. OutcomeTrue(q)'
    BY <2>1, <2>3, <2>4, <2>5, <2>8, <2>9, <2>10 DEF RunInv, OutcomeTrue
  <2> QED
    BY <2>2, <2>11 DEF RunInv
<1>3. CASE FileFails(q)
  <2>1. /\ pc'[q] = "idle" /\ exit'[q] = 20 /\ SameWork(q) /\ txs' = txs
        /\ plan'[q] = plan[q] /\ sent'[q] = sent[q] /\ err'[q] = err[q]
    BY <1>3 DEF FileFails, Stop, TypeOK, SameWork, chainVars
  <2> QED
    BY <2>1, StopKeeps
<1> QED
  BY <1>1, <1>2, <1>3 DEF Report

----------------------------------------------------------------------------
(* The invariant.                                                          *)

(* No run has begun.                                                       *)
LEMMA OutcomeInit == Init => OutcomeInv
<1> SUFFICES ASSUME Init, NEW p \in Procs PROVE IInv /\ RunInv(p)
  BY InvInit DEF OutcomeInv
<1>1. /\ pc[p] = "idle" /\ artifacts[p] = <<>> /\ exec[p] = <<>> /\ plan[p] = NoWritePlan
      /\ sent[p] = 0 /\ err[p] = 0 /\ exit[p] = Running
  BY DEF Init
<1>2. Updates(p) = {} /\ Executable(p) = {}
  BY <1>1 DEF Updates, Executable
<1>3. Collected(p)
  BY <1>1, <1>2, FS_EmptySet DEF Collected
<1>4. Underway(p) /\ PlanClean(p) /\ SentClean(p) /\ OutcomeTrue(p)
  BY <1>1 DEF Underway, PlanClean, SentClean, OutcomeTrue, NoWritePlan, Running
<1> QED
  BY <1>3, <1>4, InvInit DEF RunInv

(* Every step of any actor keeps the invariant for every run.              *)
LEMMA OutcomeStep == OutcomeInv /\ [Next]_vars => OutcomeInv'
<1> SUFFICES ASSUME OutcomeInv, [Next]_vars, NEW q \in Procs PROVE RunInv(q)'
  BY InvStep DEF OutcomeInv
<1>1. IInv /\ RunInv(q) /\ TypeOK
  BY DEF OutcomeInv, IInv
<1>2. TxsAdvance
  BY <1>1, TxsOnlyAdvance
<1>3. Len(txs) \in Nat /\ Len(txs') \in Nat
  <2>1. IInv'
    BY <1>1, InvStep
  <2> QED
    BY <1>1, <2>1, LenProperties DEF IInv, TypeOK
<1>4. ASSUME Untouched(q) PROVE RunInv(q)'
  BY <1>1, <1>2, <1>3, <1>4, UntouchedKeeps
<1>5. CASE ChainStep \/ OwnerStep \/ UNCHANGED vars
  BY <1>4, <1>5, ChainsLeave
<1>6. ASSUME NEW p \in Procs \ {q},
             Step(p) \/ Killed(p) \/ \E r \in Requests : Start(p, r)
      PROVE  RunInv(q)'
  BY <1>1, <1>4, <1>6, OtherRunsLeave
<1>7. CASE \E r \in Requests : Start(q, r)
  BY <1>1, <1>7, StartKeeps
<1>8. CASE Step(q)
  BY <1>1, <1>2, <1>3, <1>8, PrepareKeeps, AssessKeeps, GateKeeps, SubmitKeeps, ReportKeeps
  DEF Step
<1>9. CASE Killed(q)
  <2>1. /\ pc'[q] = "idle" /\ exit'[q] = Gone /\ SameWork(q) /\ txs' = txs
        /\ plan'[q] = plan[q] /\ sent'[q] = sent[q] /\ err'[q] = err[q]
    BY <1>1, <1>9 DEF Killed, Stop, TypeOK, SameWork, localVars, chainVars
  <2> QED
    BY <1>1, <2>1, StopKeeps DEF Gone
<1> QED
  BY <1>5, <1>6, <1>7, <1>8, <1>9 DEF Next

(* The inductive invariant: plan, transaction and exit code of a run agree *)
(* at every step, until the operator starts the next one.                  *)
THEOREM OutcomeInvariant == Spec => []OutcomeInv
<1> QED
  BY OutcomeInit, OutcomeStep, PTL DEF Spec

(* A plan that says submitted names a transaction that is on chain, and it *)
(* stays there: submit_write_plan marks a plan only on a receipt of success *)
(* (submit.rs), and no other step of any actor takes one back.             *)
THEOREM SubmittedMeansApplied == Spec => []SubmittedIsApplied
<1>1. OutcomeInv => SubmittedIsApplied
  BY DEF OutcomeInv, RunInv, OutcomeTrue, Applied, SubmittedIsApplied
<1> QED
  BY <1>1, OutcomeInvariant, PTL

(* A run that has broadcast was asked to write, evaluated all its targets, *)
(* and found one update and no error and no violation among them, however  *)
(* many targets, domains and origins it had (plan.rs, build_write_plan).   *)
THEOREM OnlyCleanRunsBroadcast == Spec => []OnlyCleanRunsWrite
<1>1. OutcomeInv => OnlyCleanRunsWrite
  BY DEF OutcomeInv, RunInv, SentClean, PlanClean, Clean, OnlyCleanRunsWrite
<1> QED
  BY <1>1, OutcomeInvariant, PTL

(* The updates that reconcile.rs collects are those that plan.rs counts,   *)
(* target by target and in the same order, whenever a plan is ready.       *)
THEOREM PlanMatchesExecutable == Spec => []ExecutableMatchesPlan
<1>1. OutcomeInv => ExecutableMatchesPlan
  <2> SUFFICES ASSUME OutcomeInv, NEW p \in Procs, plan[p].status = "ready"
               PROVE  /\ Len(exec[p]) = plan[p].targets
                      /\ \A k \in DOMAIN exec[p] : \E j \in Updates(p) :
                           /\ Cardinality({i \in Updates(p) : i <= j}) = k
                           /\ exec[p][k].target = artifacts[p][j].target
                           /\ exec[p][k].domain = artifacts[p][j].domain
                           /\ artifacts[p][j].tx = {exec[p][k].tx}
    BY DEF ExecutableMatchesPlan
  <2>1. Collected(p) /\ Executable(p) = Updates(p) /\ plan[p].targets = Cardinality(Updates(p))
    BY DEF OutcomeInv, RunInv, PlanClean
  <2>2. DOMAIN exec[p] = 1..Len(exec[p])
    BY LenProperties DEF OutcomeInv, IInv, TypeOK
  <2> QED
    BY <2>1, <2>2 DEF Collected, Corresponds
<1> QED
  BY <1>1, OutcomeInvariant, PTL

(* Exit codes tell the truth, and after 0 and 10 both files are there: 0   *)
(* means that every target was evaluated and that no update is due, or     *)
(* that it is on chain, or that a plan which may be written was generated  *)
(* and nothing was broadcast; 10, that a run which was not to write found  *)
(* an update due and nothing wrong; 30, that nothing was broadcast         *)
(* (write_artifacts, exit_code_for_plan).                                  *)
THEOREM ExitCodesHonest == Spec => []HonestExit
<1>1. OutcomeInv => HonestExit
  BY DEF OutcomeInv, RunInv, OutcomeTrue, Clean, Accomplished, Applied, Filed, HonestExit
<1> QED
  BY <1>1, OutcomeInvariant, PTL
=============================================================================
