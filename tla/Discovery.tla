----------------------------- MODULE Discovery -----------------------------
(***************************************************************************)
(* What a run works on: prepare_reconciliation (reconcile.rs, resolver.rs) *)
(* with the listing of a Cosmos IGP (cosmosnative/query.rs), on top of the *)
(* registry index.                                                         *)
(*                                                                         *)
(* Each selected entry of the configuration names an origin.  Its remote   *)
(* domains are given by the operator, or listed by the IGP; a domain       *)
(* becomes a target if the registry knows a chain for it, and is skipped   *)
(* or reported otherwise.  Owners configure domains meanwhile.             *)
(*                                                                         *)
(* Domain ids are numbers, since a Cosmos IGP lists them in that order.    *)
(***************************************************************************)
EXTENDS RegistryIndex, Sequences

CONSTANTS
    Targets,     \* the targets section: a sequence of TargetConfig
    Requests,    \* command lines
    PageSize,    \* entries in one answer to DestinationGasConfigs
    Igps,        \* IGPs to start from: [Origins -> [DomainIds -> Entry]]
    MaxChanges,  \* bound on the changes by owners
    NoName, NoDomain

\* remoteSelection: the operator's domains, or << >> for configuredOnOriginIgp.
TargetConfig == [origin : Names, enabled : BOOLEAN, domains : Seq(DomainIds)]

ReconcileArgs ==
    [origin : Names \cup {NoName}, remoteChain : Names \cup {NoName},
     remoteDomain : DomainIds \cup {NoDomain}]

\* A domain in an IGP: not configured, configured, or configured in a way
\* that cannot be parsed (no gas oracle, an overhead beyond u64).
Entry == {"none", "readable", "unreadable"}

Origins == {Targets[t].origin : t \in DOMAIN Targets}

NoDuplicates(s) == \A i, j \in DOMAIN s : s[i] = s[j] => i = j

ASSUME DiscoveryAssumption ==
    /\ DomainIds \subseteq Nat /\ IsFiniteSet(DomainIds)
    /\ Targets \in Seq(TargetConfig) /\ Targets # << >>
    /\ \A t \in DOMAIN Targets : NoDuplicates(Targets[t].domains)
    /\ Requests \subseteq ReconcileArgs
    /\ PageSize \in Nat \ {0}
    /\ Igps \subseteq [Origins -> [DomainIds -> Entry]]
    /\ MaxChanges \in Nat
    /\ NoName \notin Names
    /\ NoDomain \notin DomainIds

VARIABLES
    igp,       \* the IGP of each chain
    changes,   \* changes by owners so far
    args,
    stage,     \* "load", "work", "prepared" or "stopped"
    exit,      \* exit code of a run that stopped
    todo,      \* work items left: indices of Targets
    at,        \* domains of the first work item dealt with
    expanded,  \* what has become of them
    prepared,  \* the work items done, see PreparedOrigin
    listed     \* history: what the IGP of each listed work item had configured

prepVars == <<args, stage, exit, todo, at, expanded, prepared, listed>>
vars == <<diskVars, indexVars, igp, changes, prepVars>>

\* ExpandedTarget: a domain and what has become of it; the chain it was taken
\* for, and the domain whose configuration was read.
ExpandedTarget ==
    [kind : {"reconcile", "read_error", "self_domain", "missing_registry_metadata"},
     domain : DomainIds, remote : SUBSET ChainMetadata, read : SUBSET DomainIds]

PreparedOrigin ==
    [target : DOMAIN Targets, configured : Nat, expanded : Seq(ExpandedTarget)]

\* The types of the variables.
TypeOK ==
    /\ RegistryTypeOK
    /\ igp \in [Origins -> [DomainIds -> Entry]]
    /\ changes \in 0..MaxChanges
    /\ args \in Requests
    /\ stage \in {"load", "work", "prepared", "stopped"}
    /\ exit \in {0, 20, 30}
    /\ todo \in Seq(DOMAIN Targets)
    /\ at \in Nat
    /\ expanded \in Seq(ExpandedTarget)
    /\ prepared \in Seq(PreparedOrigin)
    /\ listed \in Seq(SUBSET DomainIds) /\ Len(listed) = Len(prepared)

Init ==
    /\ RegistryInit
    /\ igp \in Igps
    /\ changes = 0
    /\ args \in Requests
    /\ stage = "load"
    /\ exit = 0
    /\ todo = << >>
    /\ at = 0
    /\ expanded = << >>
    /\ prepared = << >>
    /\ listed = << >>

Stop(code) ==
    /\ stage' = "stopped"
    /\ exit' = code
    /\ UNCHANGED <<diskVars, indexVars, igp, changes, args, todo, at, expanded, prepared,
                   listed>>

-----------------------------------------------------------------------------
(* Loading and selecting                                                   *)

LoadStep == stage = "load" /\ Load /\ UNCHANGED <<igp, changes, prepVars>>

\* The elements of a finite set of numbers, in ascending order.
InOrder(S) ==
    [k \in 1..Cardinality(S) |-> CHOOSE x \in S : Cardinality({y \in S : y <= x}) = k]

\* The work items, in the order of the configuration.
Selected ==
    InOrder({t \in DOMAIN Targets :
               Targets[t].enabled /\ args.origin \in {NoName, Targets[t].origin}})

UnknownOrigin ==
    \E k \in DOMAIN Selected : Targets[Selected[k]].origin \notin DOMAIN metadataByName

\* The index is there, and every selected origin is in it.
ResolveOrigins ==
    /\ stage = "load"
    /\ load = "loaded"
    /\ Selected # << >>
    /\ ~UnknownOrigin
    /\ stage' = "work"
    /\ todo' = Selected
    /\ UNCHANGED <<diskVars, indexVars, igp, changes, args, exit, at, expanded, prepared,
                   listed>>

ResolveFails ==
    /\ stage = "load"
    /\ \/ load \in Failures /\ Stop(20)
       \/ load = "loaded" /\ UnknownOrigin /\ Stop(20)
       \/ load = "loaded" /\ Selected = << >> /\ Stop(30)

-----------------------------------------------------------------------------
(* The remote domains of one work item                                     *)

Origin == metadataByName[Targets[Head(todo)].origin]
OriginAddresses == addressesByName[Targets[Head(todo)].origin]

\* selected_remote_domain_filter: the domain, if one was asked for; a chain
\* is looked up by its name, and a domain given as well takes precedence.
Filter ==
    IF args.remoteDomain # NoDomain THEN {args.remoteDomain}
    ELSE {m.domain : m \in ChainMetadataOf(args.remoteChain)}
Unfiltered == args.remoteDomain = NoDomain /\ args.remoteChain = NoName
UnknownFilter == ~Unfiltered /\ Filter = {}

Matches(d) == Unfiltered \/ d \in Filter

\* The domains to be read one by one: the operator's, or the filter's on a
\* chain whose IGP cannot list its own.
OperatorDomains ==
    IF Targets[Head(todo)].domains # << >> THEN Targets[Head(todo)].domains
    ELSE InOrder(Filter)

Lists == Targets[Head(todo)].domains = << >> /\ Origin.protocol = "cosmosnative"
CannotList ==
    Targets[Head(todo)].domains = << >> /\ Origin.protocol = "ethereum" /\ Unfiltered

Working == stage = "work" /\ todo # << >>

Configured(n) == {d \in DomainIds : igp[n][d] # "none"}

\* Mutant of Page: entries that cannot be parsed are passed over.
ReadablePage(n) ==
    {d \in DomainIds : igp[n][d] = "readable"
       /\ Cardinality({e \in Configured(n) : e <= d}) <= PageSize}

\* One answer to DestinationGasConfigs: the first page, in the order of the
\* domains.  Its next_key is not followed.
Page(n) ==
    {d \in Configured(n) : Cardinality({e \in Configured(n) : e <= d}) <= PageSize}

\* parse_destination_gas_configs: all entries of the answer, or none.
Parses(n) == \A d \in Page(n) : igp[n][d] = "readable"

\* The configuration of one remote domain can be read: it is found in the
\* listing of a Cosmos IGP, or an EVM contract returns it.
CanRead(n, d) ==
    /\ OriginAddresses = "igp"
    /\ IF Origin.protocol = "cosmosnative" THEN Parses(n) /\ d \in Page(n)
       ELSE igp[n][d] = "readable"

Skip(d, code) == [kind |-> code, domain |-> d, remote |-> {}, read |-> {}]

\* What becomes of a domain that matches: skipped, or resolved to a chain.
Expand(d, kind, read) ==
    IF Unfiltered /\ d = Origin.domain THEN Skip(d, "self_domain")
    ELSE IF TryChainByDomain(d) = {} THEN Skip(d, "missing_registry_metadata")
    ELSE [kind |-> kind, domain |-> d, remote |-> TryChainByDomain(d), read |-> read]

\* The work item is done, with so many domains configured.
Prepared(count, results, all) ==
    /\ prepared' = Append(prepared, [target |-> Head(todo), configured |-> count,
                                     expanded |-> results])
    /\ listed' = Append(listed, all)
    /\ todo' = Tail(todo)
    /\ at' = 0
    /\ expanded' = << >>
    /\ UNCHANGED <<diskVars, indexVars, igp, changes, args, stage, exit>>

\* expand_configured_domains, after the listing has succeeded.
ListConfigs ==
    /\ Working /\ Lists
    /\ ~UnknownFilter
    /\ OriginAddresses = "igp"
    /\ Parses(Origin.name)
    /\ LET matching == InOrder({d \in Page(Origin.name) : Matches(d)})
       IN  Prepared(Cardinality(Page(Origin.name)),
                    [k \in DOMAIN matching |->
                       Expand(matching[k], "reconcile", {matching[k]})],
                    Configured(Origin.name))

\* A listing that fails, or a filter that names no chain, ends the run, and
\* so does an EVM origin whose turn comes without any domain.
PrepareFails ==
    /\ Working
    /\ \/ (Lists \/ UnknownFilter) /\ Stop(20)
       \/ CannotList /\ Stop(30)

TakeDomain(results) ==
    /\ at' = at + 1
    /\ expanded' = expanded \o results
    /\ UNCHANGED <<diskVars, indexVars, igp, changes, args, stage, exit, todo, prepared,
                   listed>>

\* expand_operator_domains: one domain after the other.
ReadsNext ==
    /\ Working /\ ~Lists /\ ~CannotList /\ ~UnknownFilter
    /\ at < Len(OperatorDomains)

ReadDomain ==
    /\ ReadsNext
    /\ LET d == OperatorDomains[at + 1]
           asked == {m.domain : m \in TryChainByDomain(d)}
           can == \A e \in asked : CanRead(Origin.name, e)
       IN  \/ ~Matches(d) /\ TakeDomain(<< >>)
           \/ Matches(d) /\ can /\ TakeDomain(<<Expand(d, "reconcile", asked)>>)
           \/ Matches(d) /\ TakeDomain(<<Expand(d, "read_error", {})>>)

DomainsDone ==
    /\ Working /\ ~Lists /\ ~CannotList /\ ~UnknownFilter
    /\ at = Len(OperatorDomains)
    /\ Prepared(Len(OperatorDomains), expanded, {})

Finish ==
    /\ stage = "work"
    /\ todo = << >>
    /\ stage' = "prepared"
    /\ UNCHANGED <<diskVars, indexVars, igp, changes, args, exit, todo, at, expanded,
                   prepared, listed>>

-----------------------------------------------------------------------------
(* The chains and the registry                                             *)

\* The owner of an IGP configures a domain.  What is configured after the run
\* has read the chains is no concern of this module.
Configure(n, d) ==
    /\ stage \in {"load", "work"}
    /\ changes < MaxChanges
    /\ changes' = changes + 1
    /\ \E entry \in {"readable", "unreadable"} : igp' = [igp EXCEPT ![n][d] = entry]
    /\ UNCHANGED <<diskVars, indexVars, prepVars>>

EditStep == \E d \in Dirs : Edit(d) /\ UNCHANGED <<igp, changes, prepVars>>

Next ==
    \/ LoadStep \/ ResolveOrigins \/ ResolveFails
    \/ ListConfigs \/ ReadDomain \/ DomainsDone \/ PrepareFails \/ Finish
    \/ \E n \in Origins, d \in DomainIds : Configure(n, d)
    \/ EditStep

Spec == Init /\ [][Next]_vars

-----------------------------------------------------------------------------
(* Properties                                                              *)

Results(k) == {prepared[k].expanded[i] : i \in DOMAIN prepared[k].expanded}

\* A target is the chain whose domain was configured and whose configuration
\* was read, also when two directories claim one name or one domain, or the
\* registry changes while it is read; a run restricted to a chain by its name
\* works on that chain.  The name is resolved in registry.rs, the domain read
\* by the adapters, and the two meet in a transaction.
RightChain ==
    \A k \in DOMAIN prepared : \A x \in Results(k) :
      x.kind \in {"reconcile", "read_error"} =>
        \E m \in x.remote :
          /\ x.remote = {m}
          /\ m.domain = x.domain
          /\ x.read \subseteq {m.domain}
          /\ x.kind = "reconcile" => x.read = {m.domain}
          /\ Unfiltered => m # metadataByName[Targets[prepared[k].target].origin]
          /\ args.remoteDomain = NoDomain => args.remoteChain \in {NoName, m.name}

\* DiscoveryArtifact: domains resolved and domains skipped.
Resolved(k) == {i \in DOMAIN prepared[k].expanded :
                  prepared[k].expanded[i].kind \in {"reconcile", "read_error"}}
SkippedOnes(k) == DOMAIN prepared[k].expanded \ Resolved(k)

\* Without a filter no domain gets lost between what an IGP or an operator has
\* configured and the report: the counts of the artifact add up, and every
\* domain is there once, the ones that are skipped included; one that cannot be
\* parsed keeps the run from going on.
EveryDomainAccounted ==
    Unfiltered =>
      \A k \in DOMAIN prepared :
        /\ prepared[k].configured = Cardinality(Resolved(k)) + Cardinality(SkippedOnes(k))
        /\ \A i, j \in DOMAIN prepared[k].expanded :
             prepared[k].expanded[i].domain = prepared[k].expanded[j].domain => i = j
        /\ IF Targets[prepared[k].target].domains # << >>
           THEN {x.domain : x \in Results(k)} =
                  {Targets[prepared[k].target].domains[i] :
                     i \in DOMAIN Targets[prepared[k].target].domains}
           ELSE /\ {x.domain : x \in Results(k)} \subseteq listed[k]
                /\ Cardinality(listed[k]) <= PageSize =>
                     {x.domain : x \in Results(k)} = listed[k]

\* SPEC.md:247: "Sweep mode queries the origin IGP for all configured
\* destination gas configs".  A sweep leaves none of them out.
SweepIsComplete ==
    Unfiltered =>
      \A k \in DOMAIN prepared :
        Targets[prepared[k].target].domains = << >> =>
          listed[k] \subseteq {x.domain : x \in Results(k)}
=============================================================================
