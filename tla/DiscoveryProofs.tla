-------------------------- MODULE DiscoveryProofs --------------------------
(***************************************************************************)
(* Proofs about the registry index that a run loads and looks chains up    *)
(* in, and about the targets it makes of the domains of its origins: for   *)
(* every registry, every order of its listing and every edit, for every    *)
(* configuration and command line, and whatever owners do meanwhile.       *)
(***************************************************************************)
EXTENDS Discovery, FiniteSetTheorems, SequenceTheorems, TLAPS

-----------------------------------------------------------------------------
(* Names and domains                                                       *)

\* The index without its look-up functions: names and domains lead to each
\* other, and no chain is without addresses.
MapsAgree ==
    /\ DOMAIN addressesByName = DOMAIN metadataByName
    /\ \A n \in DOMAIN metadataByName :
         /\ metadataByName[n].name = n
         /\ metadataByName[n].domain \in DOMAIN metadataByDomain
         /\ metadataByDomain[metadataByName[n].domain] = n
    /\ \A d \in DOMAIN metadataByDomain :
         /\ metadataByDomain[d] \in DOMAIN metadataByName
         /\ metadataByName[metadataByDomain[d]].domain = d

\* The maps agree, and the chain whose metadata has been read has neither its
\* name nor its domain in them.
IndexInv ==
    /\ MapsAgree
    /\ \A m \in metadata : m.name \notin DOMAIN metadataByName
                             /\ m.domain \notin DOMAIN metadataByDomain

(* The look-up by domain, by cases.                                        *)
LEMMA LookUpByDomain ==
  ASSUME NEW d
  PROVE  TryChainByDomain(d) =
           IF d \in DOMAIN metadataByDomain /\ metadataByDomain[d] \in DOMAIN metadataByName
           THEN {metadataByName[metadataByDomain[d]]} ELSE {}
<1>1. ASSUME NEW n
      PROVE  ChainMetadataOf(n) =
               IF n \in DOMAIN metadataByName THEN {metadataByName[n]} ELSE {}
  BY DEF ChainMetadataOf
<1>2. CASE d \in DOMAIN metadataByDomain
  <2>1. TryChainByDomain(d) = UNION {ChainMetadataOf(metadataByDomain[d])}
    BY <1>2 DEF TryChainByDomain
  <2> QED
    BY <1>1, <1>2, <2>1
<1>3. CASE d \notin DOMAIN metadataByDomain
  BY <1>3 DEF TryChainByDomain
<1> QED
  BY <1>2, <1>3

(* Maps that agree look every chain up as it was entered.                  *)
LEMMA AgreeingMaps == MapsAgree => IndexIsInverse
BY LookUpByDomain DEF MapsAgree, IndexIsInverse

(* An empty index has nothing that could disagree.                         *)
LEMMA IndexInit == Init => IndexInv
BY DEF Init, RegistryInit, Empty, IndexInv, MapsAgree

(* A chain enters all three maps, under a name and a domain that are new.  *)
LEMMA InsertKeeps ==
  ASSUME IndexInv, ReadAddresses
  PROVE  IndexInv'
<1>1. PICK m \in metadata :
        /\ metadataByDomain' = Insert(metadataByDomain, m.domain, m.name)
        /\ metadataByName' = Insert(metadataByName, m.name, m)
        /\ addressesByName' = Insert(addressesByName, m.name, Addresses(reading))
        /\ metadata' = {}
  BY DEF ReadAddresses
<1>2. m.name \notin DOMAIN metadataByName /\ m.domain \notin DOMAIN metadataByDomain
  BY DEF IndexInv
<1> QED
  BY <1>1, <1>2 DEF IndexInv, MapsAgree, Insert

(* Only a directory whose second file is read changes the maps.            *)
LEMMA IndexStep == IndexInv /\ [Next]_vars => IndexInv'
<1> SUFFICES ASSUME IndexInv, [Next]_vars PROVE IndexInv'
  OBVIOUS
<1>1. CASE UNCHANGED <<metadata, metadataByName, metadataByDomain, addressesByName>>
  BY <1>1 DEF IndexInv, MapsAgree
<1>2. CASE LoadStep
  <2>1. ASSUME NEW d \in Dirs, SkipEntry(d) PROVE IndexInv'
    BY <1>1, <2>1 DEF SkipEntry
  <2>2. ASSUME NEW d \in Dirs, ReadMetadata(d) PROVE IndexInv'
    <3>1. /\ metadata' = {disk[d].metadata}
          /\ Duplicate(disk[d].metadata) = "none"
          /\ UNCHANGED <<metadataByName, metadataByDomain, addressesByName>>
      BY <2>2 DEF ReadMetadata
    <3> QED
      BY <3>1 DEF Duplicate, IndexInv, MapsAgree
  <2>3. ASSUME NEW d \in Dirs, RejectMetadata(d) PROVE IndexInv'
    BY <1>1, <2>3 DEF RejectMetadata, Fail
  <2>4. CASE ReadAddresses
    BY <2>4, InsertKeeps
  <2>5. CASE RejectAddresses \/ IoError \/ Loaded
    BY <1>1, <2>5 DEF RejectAddresses, IoError, Loaded, Fail
  <2> QED
    BY <1>2, <2>1, <2>2, <2>3, <2>4, <2>5 DEF LoadStep, Load
<1>3. CASE ResolveOrigins \/ ResolveFails \/ ListConfigs \/ ReadDomain \/ DomainsDone
             \/ PrepareFails \/ Finish
  BY <1>1, <1>3 DEF ResolveOrigins, ResolveFails, ListConfigs, ReadDomain, DomainsDone,
                    PrepareFails, Finish, Stop, Prepared, TakeDomain, indexVars
<1>4. CASE EditStep \/ \E n \in Origins, d \in DomainIds : Configure(n, d)
  BY <1>1, <1>4 DEF EditStep, Edit, Configure, indexVars
<1>5. CASE UNCHANGED vars
  BY <1>1, <1>5 DEF vars, indexVars
<1> QED
  BY <1>2, <1>3, <1>4, <1>5 DEF Next

(* The inductive invariant of the index: its three maps agree, and the     *)
(* chain whose metadata is held is new to them (registry.rs:126-152).      *)
THEOREM IndexInvariant == Spec => []IndexInv
BY IndexInit, IndexStep, PTL DEF Spec

(* Names and domains determine each other in every index a run can load,   *)
(* whatever directories claim and whoever edits them (registry.rs:126-152). *)
THEOREM IndexInverse == Spec => []IndexIsInverse
<1>1. IndexInv => IndexIsInverse
  BY AgreeingMaps DEF IndexInv
<1> QED
  BY <1>1, IndexInvariant, PTL

-----------------------------------------------------------------------------
(* Types                                                                   *)

\* A map from some of the keys.
Partial(map, keys, values) == DOMAIN map \subseteq keys /\ map \in [DOMAIN map -> values]

(* The types of the registry, with each map a function on some of its      *)
(* keys.                                                                   *)
LEMMA RegistryTypes ==
  RegistryTypeOK <=>
    /\ disk \in [Dirs -> Content]
    /\ edits \in 0..MaxEdits
    /\ load \in {"reading", "loaded"} \cup Failures
    /\ unread \subseteq Dirs
    /\ reading \in Dirs \cup {NoDir}
    /\ metadata \subseteq ChainMetadata /\ Cardinality(metadata) <= 1
    /\ Partial(metadataByName, Names, ChainMetadata)
    /\ Partial(metadataByDomain, DomainIds, Names)
    /\ Partial(addressesByName, Names, CoreAddresses)
<1>1. ASSUME NEW map, NEW keys, NEW values
      PROVE  Partial(map, keys, values) <=> \E some \in SUBSET keys : map \in [some -> values]
  BY DEF Partial
<1> QED
  BY <1>1 DEF RegistryTypeOK

(* An entry added to a map keeps its type.                                 *)
LEMMA InsertPartial ==
  ASSUME NEW map, NEW keys, NEW values, Partial(map, keys, values),
         NEW key \in keys, NEW value \in values
  PROVE  Partial(Insert(map, key, value), keys, values)
BY DEF Partial, Insert

(* What is found in a directory of a chain.                                *)
LEMMA ChainContent ==
  ASSUME NEW content \in Content, content.kind = "chain"
  PROVE  /\ content.metadata \in ChainMetadata
         /\ content.addresses \in CoreAddresses \cup {"missing", "malformed"}
BY DEF Content

(* The step of a run, or of others, that may change the registry.          *)
LEMMA StepKinds ==
  ASSUME [Next]_vars
  PROVE  \/ LoadStep \/ EditStep
         \/ UNCHANGED <<diskVars, indexVars>>
<1>1. CASE ResolveOrigins \/ ResolveFails \/ ListConfigs \/ ReadDomain \/ DomainsDone
             \/ PrepareFails \/ Finish
  BY <1>1 DEF ResolveOrigins, ResolveFails, ListConfigs, ReadDomain, DomainsDone,
              PrepareFails, Finish, Stop, Prepared, TakeDomain
<1>2. CASE \E n \in Origins, d \in DomainIds : Configure(n, d)
  BY <1>2 DEF Configure
<1>3. CASE UNCHANGED vars
  BY <1>3 DEF vars
<1> QED
  BY <1>1, <1>2, <1>3 DEF Next

(* Loading keeps the types of the registry.                                *)
LEMMA LoadTypes ==
  ASSUME RegistryTypeOK, Load
  PROVE  RegistryTypeOK'
<1>0. /\ disk \in [Dirs -> Content] /\ edits \in 0..MaxEdits
      /\ load \in {"reading", "loaded"} \cup Failures
      /\ unread \subseteq Dirs /\ reading \in Dirs \cup {NoDir}
      /\ metadata \subseteq ChainMetadata /\ Cardinality(metadata) <= 1
      /\ Partial(metadataByName, Names, ChainMetadata)
      /\ Partial(metadataByDomain, DomainIds, Names)
      /\ Partial(addressesByName, Names, CoreAddresses)
  BY RegistryTypes
<1>1. ASSUME UNCHANGED <<diskVars, reading, metadata, metadataByName, metadataByDomain,
                         addressesByName>>,
             unread' \subseteq unread, load' \in {load, "loaded"} \cup Failures
      PROVE  RegistryTypeOK'
  BY <1>1 DEF RegistryTypeOK, diskVars
<1>2. CASE RejectAddresses \/ IoError \/ Loaded
  BY <1>1, <1>2 DEF RejectAddresses, IoError, Loaded, Fail, Failures
<1>3. CASE ReadAddresses
  <2>1. PICK m \in metadata :
          /\ reading # NoDir
          /\ Addresses(reading) # "malformed"
          /\ metadataByDomain' = Insert(metadataByDomain, m.domain, m.name)
          /\ metadataByName' = Insert(metadataByName, m.name, m)
          /\ addressesByName' = Insert(addressesByName, m.name, Addresses(reading))
          /\ reading' = NoDir /\ metadata' = {}
          /\ UNCHANGED <<diskVars, load, unread>>
    BY <1>3 DEF ReadAddresses
  <2>2. m \in ChainMetadata /\ m.name \in Names /\ m.domain \in DomainIds
    BY <1>0 DEF ChainMetadata
  <2>3. Addresses(reading) \in CoreAddresses
    BY <1>0, <2>1, ChainContent DEF Addresses, CoreAddresses
  <2>4. /\ Partial(metadataByDomain', DomainIds, Names)
        /\ Partial(metadataByName', Names, ChainMetadata)
        /\ Partial(addressesByName', Names, CoreAddresses)
    BY <1>0, <2>1, <2>2, <2>3, InsertPartial
  <2>5. Cardinality({}) = 0
    BY FS_EmptySet
  <2>6. /\ disk' = disk /\ edits' = edits /\ load' = load /\ unread' = unread
        /\ reading' = NoDir /\ metadata' = {} /\ Cardinality(metadata') <= 1
    BY <2>1, <2>5 DEF diskVars
  <2>7. /\ (disk \in [Dirs -> Content])' /\ (edits \in 0..MaxEdits)'
        /\ (load \in {"reading", "loaded"} \cup Failures)' /\ (unread \subseteq Dirs)'
        /\ (reading \in Dirs \cup {NoDir})' /\ (metadata \subseteq ChainMetadata)'
    BY <1>0, <2>6
  <2> QED
    BY <2>4, <2>6, <2>7 DEF RegistryTypeOK, Partial
<1>4. ASSUME NEW d \in Dirs, SkipEntry(d)
      PROVE  RegistryTypeOK'
  BY <1>1, <1>4 DEF SkipEntry
<1>5. ASSUME NEW d \in Dirs, RejectMetadata(d)
      PROVE  RegistryTypeOK'
  <2>1. Duplicate(disk[d].metadata) # "none" => Duplicate(disk[d].metadata) \in Failures
    BY DEF Duplicate, Failures
  <2> QED
    BY <1>1, <1>5, <2>1 DEF RejectMetadata, Fail, Failures
<1>6. ASSUME NEW d \in Dirs, ReadMetadata(d)
      PROVE  RegistryTypeOK'
  <2>1. /\ unread' = unread \ {d} /\ reading' = d /\ metadata' = {disk[d].metadata}
        /\ disk[d].kind = "chain"
        /\ UNCHANGED <<diskVars, load, metadataByName, metadataByDomain, addressesByName>>
    BY <1>6 DEF ReadMetadata
  <2>2. disk[d].metadata \in ChainMetadata
    BY <1>0, <2>1, ChainContent
  <2>3. Cardinality(metadata') <= 1
    <3>1. Cardinality({disk[d].metadata}) = 1
      BY FS_Singleton
    <3> QED
      BY <2>1, <3>1
  <2> QED
    BY <2>1, <2>2, <2>3 DEF RegistryTypeOK, diskVars
<1> QED
  BY <1>2, <1>3, <1>4, <1>5, <1>6 DEF Load

(* So does an edit.                                                        *)
LEMMA EditTypes ==
  ASSUME RegistryTypeOK, NEW d \in Dirs, Edit(d)
  PROVE  RegistryTypeOK'
<1>1. edits' \in 0..MaxEdits
  BY RegistryAssumption DEF Edit, RegistryTypeOK
<1>2. disk' \in [Dirs -> Content]
  BY RegistryAssumption DEF Edit, RegistryTypeOK
<1>3. unread' \subseteq Dirs
  BY DEF Edit, RegistryTypeOK
<1> QED
  BY <1>1, <1>2, <1>3 DEF Edit, RegistryTypeOK

(* A finite set of numbers in order: every element once.                   *)
LEMMA InOrderLists ==
  ASSUME NEW S \in SUBSET Nat, IsFiniteSet(S)
  PROVE  /\ Cardinality(S) \in Nat
         /\ InOrder(S) \in Seq(S)
         /\ Len(InOrder(S)) = Cardinality(S)
         /\ DOMAIN InOrder(S) = 1..Cardinality(S)
         /\ \A k \in 1..Cardinality(S) : InOrder(S)[k] \in S
         /\ \A x \in S : \E k \in 1..Cardinality(S) : InOrder(S)[k] = x
         /\ \A i, j \in 1..Cardinality(S) : i < j => InOrder(S)[i] < InOrder(S)[j]
<1> DEFINE Upto(x) == {y \in S : y <= x}
           rank == [x \in S |-> Cardinality(Upto(x))]
           n == Cardinality(S)
<1>1. n \in Nat
  BY FS_CardinalityType
<1>2. ASSUME NEW x \in S
      PROVE  IsFiniteSet(Upto(x)) /\ Cardinality(Upto(x)) \in 1..n
  <2>1. IsFiniteSet(Upto(x)) /\ Cardinality(Upto(x)) <= n
    BY FS_Subset
  <2>2. Cardinality(Upto(x)) \in Nat
    BY <2>1, FS_CardinalityType
  <2>3. x \in Upto(x)
    OBVIOUS
  <2>4. Cardinality(Upto(x)) # 0
    BY <2>1, <2>3, FS_EmptySet
  <2> QED
    BY <1>1, <2>1, <2>2, <2>4
<1>3. ASSUME NEW x \in S, NEW y \in S, x < y
      PROVE  Cardinality(Upto(x)) < Cardinality(Upto(y))
  <2>0. x \in Nat /\ y \in Nat /\ \A z \in S : z \in Nat
    OBVIOUS
  <2>1. Upto(x) \subseteq Upto(y) /\ y \in Upto(y) /\ y \notin Upto(x)
    <3>1. \A z \in S : z <= x => z <= y
      BY <1>3, <2>0
    <3>2. y <= y /\ ~(y <= x)
      BY <1>3, <2>0
    <3> QED
      BY <3>1, <3>2
  <2>2. /\ Cardinality(Upto(x)) <= Cardinality(Upto(y))
        /\ Cardinality(Upto(x)) # Cardinality(Upto(y))
    BY <1>2, <2>1, FS_Subset
  <2> QED
    BY <1>2, <2>2
<1>4. \A x \in S : rank[x] = Cardinality(Upto(x))
  OBVIOUS
<1>5. rank \in [S -> 1..n]
  BY <1>2
<1> HIDE DEF Upto, rank
<1>6. \A x, y \in S : rank[x] = rank[y] => x = y
  <2> SUFFICES ASSUME NEW x \in S, NEW y \in S, x # y PROVE rank[x] # rank[y]
    OBVIOUS
  <2>1. x < y \/ y < x
    OBVIOUS
  <2>2. Cardinality(Upto(x)) \in Nat /\ Cardinality(Upto(y)) \in Nat
    BY <1>2, FS_CardinalityType
  <2> QED
    BY <1>3, <1>4, <2>1, <2>2
<1>7. rank \in Injection(S, 1..n)
  BY <1>5, <1>6 DEF Injection, IsInjective
<1>8. IsFiniteSet(1..n) /\ Cardinality(1..n) = n
  BY <1>1, FS_Interval
<1>9. rank \in Surjection(S, 1..n)
  BY <1>7, <1>8, FS_Injection
<1>10. \A k \in 1..n : \E x \in S : rank[x] = k
  BY <1>9 DEF Surjection
<1>11. \A k \in 1..n : \E x \in S : Cardinality({y \in S : y <= x}) = k
  BY <1>4, <1>10 DEF Upto
<1>12. \A k \in 1..n : InOrder(S)[k] \in S /\ rank[InOrder(S)[k]] = k
  <2> SUFFICES ASSUME NEW k \in 1..n
               PROVE  InOrder(S)[k] \in S /\ rank[InOrder(S)[k]] = k
    OBVIOUS
  <2> DEFINE x == CHOOSE x \in S : Cardinality({y \in S : y <= x}) = k
  <2>1. InOrder(S)[k] = x
    BY DEF InOrder
  <2>2. x \in S /\ Cardinality({y \in S : y <= x}) = k
    BY <1>11
  <2> HIDE DEF x
  <2>3. rank[x] = k
    BY <1>4, <2>2 DEF Upto
  <2> QED
    BY <2>1, <2>2, <2>3
<1>13. InOrder(S) \in [1..n -> S] /\ DOMAIN InOrder(S) = 1..n
  BY <1>12 DEF InOrder
<1>14. InOrder(S) \in Seq(S)
  BY <1>1, <1>13, SeqDef
<1>15. Len(InOrder(S)) = n
  BY <1>1, <1>13, <1>14, LenProperties
<1>16. \A x \in S : \E k \in 1..n : InOrder(S)[k] = x
  BY <1>5, <1>6, <1>12
<1>17. ASSUME NEW i \in 1..n, NEW j \in 1..n, i < j
       PROVE  InOrder(S)[i] < InOrder(S)[j]
  <2>1. PICK x \in S, y \in S : x = InOrder(S)[i] /\ y = InOrder(S)[j] /\ rank[x] = i /\ rank[y] = j
    BY <1>12
  <2>2. CASE y < x
    BY <1>3, <1>4, <1>17, <2>1, <2>2
  <2>3. CASE x = y
    BY <1>17, <2>1, <2>3
  <2> QED
    BY <2>1, <2>2, <2>3
<1> QED
  BY <1>1, <1>12, <1>13, <1>14, <1>15, <1>16, <1>17

(* What the assumptions say of a target and of the domains of its          *)
(* operator.                                                               *)
LEMMA TargetTypes ==
  /\ Targets \in [1..Len(Targets) -> TargetConfig] /\ DOMAIN Targets = 1..Len(Targets)
  /\ Len(Targets) \in Nat
  /\ \A t \in DOMAIN Targets : /\ Targets[t] \in TargetConfig
                              /\ Targets[t].origin \in Names
                              /\ Targets[t].domains \in Seq(DomainIds)
<1>1. /\ Targets \in [1..Len(Targets) -> TargetConfig] /\ DOMAIN Targets = 1..Len(Targets)
      /\ Len(Targets) \in Nat
  BY DiscoveryAssumption, LenProperties
<1>2. \A t \in DOMAIN Targets : Targets[t] \in TargetConfig
  BY <1>1
<1>3. \A c \in TargetConfig : c.origin \in Names /\ c.domains \in Seq(DomainIds)
  BY DEF TargetConfig
<1> QED
  BY <1>1, <1>2, <1>3

(* A look-up finds chain metadata or nothing.                              *)
LEMMA LookUpTypes ==
  ASSUME RegistryTypeOK
  PROVE  /\ \A n : ChainMetadataOf(n) \subseteq ChainMetadata
         /\ \A d : TryChainByDomain(d) \subseteq ChainMetadata
<1>1. Partial(metadataByName, Names, ChainMetadata)
  BY RegistryTypes
<1>2. \A n : ChainMetadataOf(n) \subseteq ChainMetadata
  BY <1>1 DEF ChainMetadataOf, Partial
<1> QED
  BY <1>2 DEF TryChainByDomain

(* The filter of the command line is a set of domains.                     *)
LEMMA FilterType ==
  ASSUME TypeOK
  PROVE  /\ args \in ReconcileArgs
         /\ Filter \in SUBSET DomainIds /\ Filter \in SUBSET Nat /\ IsFiniteSet(Filter)
<1>1. args \in ReconcileArgs
  BY DiscoveryAssumption DEF TypeOK
<1>2. Filter \subseteq DomainIds
  BY <1>1, LookUpTypes DEF TypeOK, Filter, ReconcileArgs, ChainMetadata
<1> QED
  BY <1>1, <1>2, DiscoveryAssumption, FS_Subset

(* The domains an operator's target is read for are domains, in a          *)
(* sequence.                                                               *)
LEMMA OperatorDomainsType ==
  ASSUME TypeOK, todo # << >>
  PROVE  /\ Head(todo) \in DOMAIN Targets /\ Tail(todo) \in Seq(DOMAIN Targets)
         /\ OperatorDomains \in Seq(DomainIds)
         /\ Len(OperatorDomains) \in Nat
         /\ \A k \in 1..Len(OperatorDomains) : OperatorDomains[k] \in DomainIds
<1>1. Head(todo) \in DOMAIN Targets /\ Tail(todo) \in Seq(DOMAIN Targets)
  BY HeadTailProperties DEF TypeOK
<1>2. Targets[Head(todo)].domains \in Seq(DomainIds)
  BY <1>1, TargetTypes
<1>3. InOrder(Filter) \in Seq(DomainIds)
  <2>1. InOrder(Filter) \in Seq(Filter) /\ Filter \subseteq DomainIds
    BY FilterType, InOrderLists
  <2> QED
    BY <2>1, SeqMonotonic
<1>4. OperatorDomains \in Seq(DomainIds)
  BY <1>2, <1>3 DEF OperatorDomains
<1> QED
  BY <1>1, <1>4, LenProperties, ElementOfSeq

(* What becomes of a domain is a result.                                   *)
LEMMA ExpandType ==
  ASSUME RegistryTypeOK, NEW d \in DomainIds, NEW kind \in {"reconcile", "read_error"},
         NEW read \in SUBSET DomainIds
  PROVE  Expand(d, kind, read) \in ExpandedTarget /\ Expand(d, kind, read).domain = d
<1>1. TryChainByDomain(d) \in SUBSET ChainMetadata
  BY LookUpTypes
<1> QED
  BY <1>1 DEF Expand, Skip, ExpandedTarget

(* The page of a listing, and what matches of it, are finite sets.         *)
LEMMA PageType ==
  ASSUME NEW n
  PROVE  /\ Page(n) \subseteq Configured(n) /\ Configured(n) \in SUBSET DomainIds
         /\ IsFiniteSet(Page(n)) /\ IsFiniteSet(Configured(n))
         /\ Cardinality(Page(n)) \in Nat /\ Cardinality(Configured(n)) \in Nat
         /\ {d \in Page(n) : Matches(d)} \in SUBSET Nat
         /\ IsFiniteSet({d \in Page(n) : Matches(d)})
<1>1. Page(n) \in SUBSET Configured(n) /\ Configured(n) \in SUBSET DomainIds
  BY DEF Page, Configured
<1>2. IsFiniteSet(Configured(n))
  BY <1>1, DiscoveryAssumption, FS_Subset
<1>3. IsFiniteSet(Page(n))
  BY <1>1, <1>2, FS_Subset
<1>4. {d \in Page(n) : Matches(d)} \in SUBSET Page(n)
  OBVIOUS
<1>5. IsFiniteSet({d \in Page(n) : Matches(d)})
  BY <1>3, <1>4, FS_Subset
<1>6. {d \in Page(n) : Matches(d)} \in SUBSET Nat
  BY <1>1, <1>4, DiscoveryAssumption
<1> QED
  BY <1>1, <1>2, <1>3, <1>5, <1>6, FS_CardinalityType

\* What a listing makes of the domains that match.
ListedResults ==
  LET matching == InOrder({d \in Page(Origin.name) : Matches(d)})
  IN  [k \in DOMAIN matching |-> Expand(matching[k], "reconcile", {matching[k]})]

(* A listing yields a sequence of results.                                 *)
LEMMA ListedResultsType ==
  ASSUME RegistryTypeOK
  PROVE  ListedResults \in Seq(ExpandedTarget)
<1> DEFINE S == {d \in Page(Origin.name) : Matches(d)}
<1>1. /\ S \in SUBSET Nat /\ IsFiniteSet(S) /\ S \subseteq DomainIds
  BY PageType
<1> HIDE DEF S
<1>2. /\ Cardinality(S) \in Nat /\ DOMAIN InOrder(S) = 1..Cardinality(S)
      /\ \A k \in 1..Cardinality(S) : InOrder(S)[k] \in DomainIds
  BY <1>1, InOrderLists
<1>3. ListedResults = [k \in 1..Cardinality(S) |->
                         Expand(InOrder(S)[k], "reconcile", {InOrder(S)[k]})]
  BY <1>2 DEF ListedResults, S
<1>4. \A k \in 1..Cardinality(S) :
        Expand(InOrder(S)[k], "reconcile", {InOrder(S)[k]}) \in ExpandedTarget
  BY <1>2, ExpandType
<1>5. ListedResults \in [1..Cardinality(S) -> ExpandedTarget]
  BY <1>3, <1>4
<1> QED
  BY <1>2, <1>5, SeqDef

(* A work item is done with a result of the right type.                    *)
LEMMA PreparedTypes ==
  ASSUME TypeOK, todo # << >>, NEW count \in Nat, NEW results \in Seq(ExpandedTarget),
         NEW all \in SUBSET DomainIds, Prepared(count, results, all),
         igp' = igp, changes' = changes
  PROVE  TypeOK'
<1> DEFINE x == [target |-> Head(todo), configured |-> count, expanded |-> results]
<1>1. x \in PreparedOrigin
  BY OperatorDomainsType DEF PreparedOrigin
<1>2. prepared' = Append(prepared, x) /\ listed' = Append(listed, all)
  BY DEF Prepared
<1> HIDE DEF x
<1>3. /\ prepared' \in Seq(PreparedOrigin) /\ listed' \in Seq(SUBSET DomainIds)
      /\ Len(prepared') = Len(prepared) + 1 /\ Len(listed') = Len(listed) + 1
  BY <1>1, <1>2, AppendProperties DEF TypeOK
<1>4. RegistryTypeOK'
  BY DEF Prepared, TypeOK, RegistryTypeOK, diskVars, indexVars
<1>5. todo' \in Seq(DOMAIN Targets) /\ at' \in Nat /\ expanded' \in Seq(ExpandedTarget)
  BY OperatorDomainsType DEF Prepared
<1> QED
  BY <1>3, <1>4, <1>5 DEF Prepared, TypeOK

(* The initial states are of the types.                                    *)
LEMMA TypeInit == Init => TypeOK
<1> SUFFICES ASSUME Init PROVE TypeOK
  OBVIOUS
<1>1. RegistryTypeOK
  <2>1. Cardinality({}) = 0
    BY FS_EmptySet
  <2>2. Partial(Empty, Names, ChainMetadata) /\ Partial(Empty, DomainIds, Names)
          /\ Partial(Empty, Names, CoreAddresses)
    BY DEF Partial, Empty
  <2> QED
    BY <2>1, <2>2, RegistryTypes, RegistryAssumption DEF Init, RegistryInit, Listing
<1>2. /\ todo \in Seq(DOMAIN Targets) /\ expanded \in Seq(ExpandedTarget)
      /\ prepared \in Seq(PreparedOrigin) /\ listed \in Seq(SUBSET DomainIds)
      /\ Len(listed) = Len(prepared)
  BY EmptySeq DEF Init
<1> QED
  BY <1>1, <1>2, DiscoveryAssumption DEF Init, TypeOK

\* The domain whose turn it is, and the chain that is asked for it.
Turn == OperatorDomains[at + 1]
Asked == {m.domain : m \in TryChainByDomain(Turn)}

(* Reading a domain appends at most one result.                            *)
LEMMA ReadDomainResult ==
  ASSUME TypeOK, ReadDomain
  PROVE  /\ Turn \in DomainIds /\ Asked \in SUBSET DomainIds
         /\ at + 1 \in 1..Len(OperatorDomains)
         /\ \/ ~Matches(Turn) /\ TakeDomain(<< >>)
            \/ /\ Matches(Turn)
               /\ \E x \in {Expand(Turn, "reconcile", Asked), Expand(Turn, "read_error", {})} :
                    x \in ExpandedTarget /\ x.domain = Turn /\ TakeDomain(<<x>>)
<1>1. at + 1 \in 1..Len(OperatorDomains) /\ Turn \in DomainIds
  BY OperatorDomainsType DEF ReadDomain, ReadsNext, Working, TypeOK, Turn
<1>2. Asked \in SUBSET DomainIds
  BY LookUpTypes DEF TypeOK, Asked, ChainMetadata
<1>3. /\ Expand(Turn, "reconcile", Asked) \in ExpandedTarget
      /\ Expand(Turn, "reconcile", Asked).domain = Turn
      /\ Expand(Turn, "read_error", {}) \in ExpandedTarget
      /\ Expand(Turn, "read_error", {}).domain = Turn
  BY <1>1, <1>2, ExpandType DEF TypeOK
<1>4. \/ ~Matches(Turn) /\ TakeDomain(<< >>)
      \/ Matches(Turn) /\ TakeDomain(<<Expand(Turn, "reconcile", Asked)>>)
      \/ Matches(Turn) /\ TakeDomain(<<Expand(Turn, "read_error", {})>>)
  BY DEF ReadDomain, Turn, Asked
<1> QED
  BY <1>1, <1>2, <1>3, <1>4

(* Every step keeps the types, also while the registry is edited.          *)
LEMMA TypeStep ==
  ASSUME TypeOK, [Next]_vars
  PROVE  TypeOK'
<1>1. CASE LoadStep
  BY <1>1, LoadTypes DEF LoadStep, TypeOK, prepVars
<1>2. CASE EditStep
  BY <1>2, EditTypes DEF EditStep, TypeOK, prepVars
<1>3. ASSUME UNCHANGED <<diskVars, indexVars>> PROVE RegistryTypeOK'
  BY <1>3 DEF TypeOK, RegistryTypeOK, diskVars, indexVars
<1>4. CASE ResolveOrigins
  <2> DEFINE S == {t \in DOMAIN Targets :
                     Targets[t].enabled /\ args.origin \in {NoName, Targets[t].origin}}
  <2>1. S \in SUBSET DOMAIN Targets /\ S \in SUBSET Nat
    BY TargetTypes
  <2>2. IsFiniteSet(1..Len(Targets))
    BY TargetTypes, FS_Interval
  <2>3. IsFiniteSet(S)
    BY <2>1, <2>2, TargetTypes, FS_Subset
  <2>4. Selected = InOrder(S)
    BY DEF Selected
  <2> HIDE DEF S
  <2>5. Selected \in Seq(DOMAIN Targets)
    <3>1. InOrder(S) \in Seq(S)
      BY <2>1, <2>3, InOrderLists
    <3> QED
      BY <2>1, <2>4, <3>1, SeqMonotonic
  <2> QED
    BY <1>3, <1>4, <2>5 DEF ResolveOrigins, TypeOK
<1>5. ASSUME NEW code \in {0, 20, 30}, Stop(code) PROVE TypeOK'
  BY <1>3, <1>5 DEF Stop, TypeOK
<1>6. CASE ResolveFails \/ PrepareFails
  BY <1>5, <1>6 DEF ResolveFails, PrepareFails
<1>7. CASE ListConfigs
  <2>1. /\ todo # << >> /\ igp' = igp /\ changes' = changes
        /\ Prepared(Cardinality(Page(Origin.name)), ListedResults, Configured(Origin.name))
    BY <1>7 DEF ListConfigs, Working, ListedResults, Prepared
  <2>2. /\ Cardinality(Page(Origin.name)) \in Nat
        /\ Configured(Origin.name) \in SUBSET DomainIds
    BY PageType
  <2>3. ListedResults \in Seq(ExpandedTarget)
    BY ListedResultsType DEF TypeOK
  <2> QED
    BY <2>1, <2>2, <2>3, PreparedTypes
<1>8. CASE DomainsDone
  <2>1. /\ todo # << >> /\ igp' = igp /\ changes' = changes
        /\ Prepared(Len(OperatorDomains), expanded, {})
    BY <1>8 DEF DomainsDone, Working, Prepared
  <2> QED
    BY <2>1, OperatorDomainsType, PreparedTypes DEF TypeOK
<1>9. ASSUME NEW results \in Seq(ExpandedTarget), TakeDomain(results) PROVE TypeOK'
  <2>1. expanded \o results \in Seq(ExpandedTarget)
    BY ConcatProperties DEF TypeOK
  <2> QED
    BY <1>3, <1>9, <2>1 DEF TakeDomain, TypeOK
<1>10. CASE ReadDomain
  <2>1. << >> \in Seq(ExpandedTarget) /\ \A x \in ExpandedTarget : <<x>> \in Seq(ExpandedTarget)
    OBVIOUS
  <2> QED
    BY <1>9, <1>10, <2>1, ReadDomainResult
<1>11. CASE Finish
  BY <1>3, <1>11 DEF Finish, TypeOK
<1>12. ASSUME NEW n \in Origins, NEW d \in DomainIds, Configure(n, d) PROVE TypeOK'
  <2>1. changes' \in 0..MaxChanges /\ igp' \in [Origins -> [DomainIds -> Entry]]
    BY <1>12, DiscoveryAssumption DEF Configure, TypeOK, Entry
  <2> QED
    BY <1>3, <1>12, <2>1 DEF Configure, TypeOK, prepVars
<1>13. CASE UNCHANGED vars
  BY <1>3, <1>13 DEF vars, prepVars, TypeOK
<1> QED
  BY <1>1, <1>2, <1>4, <1>6, <1>7, <1>8, <1>10, <1>11, <1>12, <1>13 DEF Next

(* The variables of the preparation keep their types.                      *)
THEOREM TypesCorrect == Spec => []TypeOK
<1>1. TypeOK /\ [Next]_vars => TypeOK'
  BY TypeStep
<1> QED
  BY <1>1, TypeInit, PTL DEF Spec

-----------------------------------------------------------------------------
(* Loading is exact                                                        *)

\* The entries of the listing that are dealt with.
Done == Listing \ (unread \cup {reading})

\* The chain of a directory is in the index, with its addresses.
Indexed(d) ==
    /\ disk[d].addresses # "malformed"
    /\ disk[d].metadata.name \in DOMAIN metadataByName
    /\ metadataByName[disk[d].metadata.name] = disk[d].metadata
    /\ addressesByName[disk[d].metadata.name] = Addresses(d)

\* Metadata is held while its directory is read, and loading ends with the
\* listing.
LoadInv ==
    /\ reading = NoDir <=> metadata = {}
    /\ load = "loaded" => unread = {} /\ reading = NoDir

\* While nobody touches the registry, the index holds the chains of the
\* directories dealt with, and no others; these directories are sound.
ExactInv ==
    edits = 0 =>
      /\ unread \subseteq Listing
      /\ reading # NoDir => /\ reading \in ChainDirs \ unread
                            /\ metadata = {disk[reading].metadata}
      /\ \A d \in Done : disk[d].kind # "malformed"
      /\ \A d \in Done \cap ChainDirs : Indexed(d)
      /\ \A n \in DOMAIN metadataByName :
           \E d \in Done \cap ChainDirs : metadataByName[n] = disk[d].metadata
      /\ \A d, e \in Done \cap ChainDirs : d # e => ~Clash(d, e)
      /\ load \in Failures \ {"io"} => ~Sound

(* Every step keeps metadata and the directory it came from together.      *)
LEMMA LoadStepKeeps ==
  ASSUME TypeOK, LoadInv, [Next]_vars
  PROVE  LoadInv'
<1>1. CASE UNCHANGED <<diskVars, indexVars>>
  BY <1>1 DEF LoadInv, indexVars
<1>2. CASE EditStep
  BY <1>2 DEF EditStep, Edit, LoadInv
<1>3. ASSUME NEW d \in Dirs, SkipEntry(d) PROVE LoadInv'
  BY <1>3 DEF SkipEntry, IsNextEntry, LoadInv
<1>4. ASSUME NEW d \in Dirs, ReadMetadata(d) PROVE LoadInv'
  BY <1>4, RegistryAssumption DEF ReadMetadata, IsNextEntry, LoadInv
<1>5. ASSUME NEW d \in Dirs, RejectMetadata(d) PROVE LoadInv'
  BY <1>5 DEF RejectMetadata, Fail, Duplicate, LoadInv
<1>6. CASE ReadAddresses
  BY <1>6 DEF ReadAddresses, LoadInv
<1>7. CASE RejectAddresses \/ IoError \/ Loaded
  BY <1>7 DEF RejectAddresses, IoError, Loaded, Fail, LoadInv
<1> QED
  BY <1>1, <1>2, <1>3, <1>4, <1>5, <1>6, <1>7, StepKinds DEF LoadStep, Load

(* A chain that enters the index clashes with none that is there.          *)
LEMMA InsertIsExact ==
  ASSUME TypeOK, IndexInv, ExactInv, edits = 0, ReadAddresses
  PROVE  ExactInv'
<1>1. PICK m \in metadata :
        /\ load = "reading" /\ reading # NoDir /\ Addresses(reading) # "malformed"
        /\ metadataByName' = Insert(metadataByName, m.name, m)
        /\ addressesByName' = Insert(addressesByName, m.name, Addresses(reading))
        /\ reading' = NoDir /\ metadata' = {}
        /\ UNCHANGED <<diskVars, load, unread>>
  BY DEF ReadAddresses
<1>2. /\ reading \in ChainDirs \ unread /\ m = disk[reading].metadata
      /\ disk[reading].addresses # "malformed" /\ disk[reading].kind = "chain"
      /\ reading \in Listing /\ NoDir \notin Listing
  BY <1>1, RegistryAssumption DEF ExactInv, ChainDirs, Listing, Addresses
<1>3. m.name \notin DOMAIN metadataByName /\ m.domain \notin DOMAIN metadataByDomain
  BY DEF IndexInv
<1>4. /\ disk' = disk /\ Listing' = Listing /\ ChainDirs' = ChainDirs
      /\ Done' = Done \cup {reading} /\ reading \notin Done
  BY <1>1, <1>2 DEF diskVars, Listing, ChainDirs, Done
<1>5. /\ DOMAIN metadataByName' = DOMAIN metadataByName \cup {m.name}
      /\ metadataByName'[m.name] = m
      /\ addressesByName'[m.name] = Addresses(reading)
      /\ DOMAIN addressesByName = DOMAIN metadataByName
      /\ \A n \in DOMAIN metadataByName : /\ metadataByName'[n] = metadataByName[n]
                                          /\ addressesByName'[n] = addressesByName[n]
  BY <1>1, <1>3 DEF Insert, IndexInv, MapsAgree
<1>6. ASSUME NEW d \in Done \cap ChainDirs
      PROVE  /\ Indexed(d)' /\ ~Clash(d, reading) /\ ~Clash(reading, d)
  <2>1. /\ Indexed(d)
        /\ disk[d].metadata.name \in DOMAIN metadataByName
        /\ metadataByName[disk[d].metadata.name] = disk[d].metadata
    BY DEF ExactInv, Indexed
  <2>2. disk[d].metadata.domain \in DOMAIN metadataByDomain
    BY <2>1 DEF IndexInv, MapsAgree
  <2>3. Addresses(d)' = Addresses(d)
    BY <1>4 DEF Addresses
  <2>4. Indexed(d)'
    BY <1>4, <1>5, <2>1, <2>3 DEF Indexed
  <2> QED
    BY <1>2, <1>3, <2>1, <2>2, <2>4 DEF Clash
<1>7. /\ disk'[reading].addresses # "malformed"
      /\ disk'[reading].metadata.name \in DOMAIN metadataByName'
      /\ metadataByName'[disk'[reading].metadata.name] = disk'[reading].metadata
      /\ Addresses(reading) = IF disk[reading].addresses # "missing"
                              THEN disk[reading].addresses ELSE "no_igp"
      /\ addressesByName'[disk'[reading].metadata.name] = Addresses(reading)
  BY <1>2, <1>4, <1>5 DEF Addresses
<1>8. ASSUME NEW d \in Done' \cap ChainDirs' PROVE Indexed(d)'
  <2>1. CASE d = reading
    BY <1>2, <1>4, <1>7, <2>1 DEF Indexed, Addresses
  <2>2. CASE d # reading
    BY <1>4, <1>6, <2>2
  <2> QED
    BY <2>1, <2>2
<1>9. ASSUME NEW n \in DOMAIN metadataByName'
       PROVE  \E d \in Done' \cap ChainDirs' : metadataByName'[n] = disk'[d].metadata
  <2>1. CASE n = m.name
    BY <1>2, <1>4, <1>5, <2>1
  <2>2. CASE n \in DOMAIN metadataByName
    BY <1>4, <1>5, <2>2 DEF ExactInv
  <2> QED
    BY <1>5, <2>1, <2>2
<1>10. \A d, e \in Done' \cap ChainDirs' : d # e => ~Clash(d, e)'
  <2>1. \A d, e : Clash(d, e)' <=> Clash(d, e)
    BY <1>4 DEF Clash
  <2> QED
    BY <1>4, <1>6, <2>1 DEF ExactInv
<1>11. \A d \in Done' : disk'[d].kind # "malformed"
  BY <1>2, <1>4 DEF ExactInv
<1>12. unread' \subseteq Listing' /\ reading' = NoDir /\ load' = "reading"
  BY <1>1, <1>4 DEF ExactInv
<1> QED
  BY <1>8, <1>9, <1>10, <1>11, <1>12 DEF ExactInv, Failures

(* What is refused as a duplicate is one.                                  *)
LEMMA DuplicatesClash ==
  ASSUME IndexInv, ExactInv, edits = 0, NEW d \in ChainDirs \cap unread,
         Duplicate(disk[d].metadata) # "none"
  PROVE  ~Sound
<1> DEFINE m == disk[d].metadata
<1>1. \E n \in DOMAIN metadataByName :
        metadataByName[n].name = m.name \/ metadataByName[n].domain = m.domain
  <2>1. CASE m.name \in DOMAIN metadataByName
    BY <2>1 DEF IndexInv, MapsAgree
  <2>2. CASE m.domain \in DOMAIN metadataByDomain
    BY <2>2 DEF IndexInv, MapsAgree
  <2> QED
    BY <2>1, <2>2 DEF Duplicate
<1>2. PICK e \in Done \cap ChainDirs :
        disk[e].metadata.name = m.name \/ disk[e].metadata.domain = m.domain
  BY <1>1 DEF ExactInv
<1>3. e # d
  BY DEF Done
<1> QED
  BY <1>2, <1>3 DEF Sound, Clash

(* Every step keeps the index exact, as long as nobody edits the registry. *)
LEMMA ExactStep ==
  ASSUME TypeOK, IndexInv, LoadInv, ExactInv, [Next]_vars
  PROVE  ExactInv'
<1>1. CASE UNCHANGED <<diskVars, indexVars>>
  BY <1>1 DEF ExactInv, diskVars, indexVars, Listing, ChainDirs, Done, Indexed, Addresses,
              Clash, Sound
<1>2. CASE EditStep
  <2>1. edits' # 0
    BY <1>2 DEF EditStep, Edit, TypeOK, RegistryTypeOK
  <2> QED
    BY <2>1 DEF ExactInv
<1>3. CASE Load /\ edits = 0
  <2>1. ASSUME disk' = disk
        PROVE  /\ Listing' = Listing /\ ChainDirs' = ChainDirs /\ Sound' = Sound
               /\ \A d : Addresses(d)' = Addresses(d)
               /\ \A d, e : Clash(d, e)' = Clash(d, e)
    BY <2>1 DEF Listing, ChainDirs, Sound, Addresses, Clash
  <2>2. ASSUME UNCHANGED <<diskVars, metadataByName, addressesByName>>,
               Done' \cap ChainDirs = Done \cap ChainDirs,
               \A d \in Done' : disk[d].kind # "malformed",
               unread' \subseteq Listing,
               reading' # NoDir => /\ reading' \in ChainDirs \ unread'
                                   /\ metadata' = {disk[reading'].metadata},
               load' \in Failures \ {"io"} => ~Sound
        PROVE  ExactInv'
    <3>1. disk' = disk
      BY <2>2 DEF diskVars
    <3>2. \A d : Indexed(d)' = Indexed(d)
      BY <2>1, <2>2, <3>1 DEF Indexed
    <3> QED
      BY <1>3, <2>1, <2>2, <3>1, <3>2 DEF ExactInv
  <2>3. ASSUME UNCHANGED <<diskVars, unread, reading, metadata, metadataByName, addressesByName>>,
               load' \in Failures \ {"io"} => ~Sound
        PROVE  ExactInv'
    <3>1. Done' = Done
      BY <2>3 DEF Done, Listing, diskVars
    <3> QED
      BY <1>3, <2>2, <2>3, <3>1 DEF ExactInv
  <2>4. ASSUME NEW d \in Dirs, SkipEntry(d) PROVE ExactInv'
    <3>1. /\ reading = NoDir /\ d \in unread /\ load = "reading" /\ unread' = unread \ {d}
          /\ disk[d].kind \in {"absent", "file", "bare"}
          /\ UNCHANGED <<diskVars, load, reading, metadata, metadataByName, addressesByName>>
      BY <2>4 DEF SkipEntry, IsNextEntry
    <3>2. disk' = disk /\ d \notin ChainDirs /\ unread' \subseteq Listing
      BY <1>3, <3>1 DEF diskVars, ChainDirs, ExactInv
    <3>3. Done' \subseteq Done \cup {d} /\ Done \subseteq Done'
      BY <2>1, <3>1, <3>2 DEF Done
    <3>4. \A e \in Done' : disk[e].kind # "malformed"
      BY <1>3, <3>1, <3>3 DEF ExactInv
    <3> QED
      BY <2>2, <3>1, <3>2, <3>3, <3>4 DEF Failures
  <2>5. ASSUME NEW d \in Dirs, ReadMetadata(d) PROVE ExactInv'
    <3>1. /\ reading = NoDir /\ d \in unread /\ load = "reading" /\ unread' = unread \ {d}
          /\ disk[d].kind = "chain" /\ reading' = d /\ metadata' = {disk[d].metadata}
          /\ UNCHANGED <<diskVars, load, metadataByName, addressesByName>>
      BY <2>5 DEF ReadMetadata, IsNextEntry
    <3>2. /\ disk' = disk /\ d \in ChainDirs /\ unread' \subseteq Listing
          /\ NoDir \notin Listing
      BY <1>3, <3>1, RegistryAssumption DEF diskVars, ChainDirs, ExactInv, Listing
    <3>3. Done' = Done
      BY <2>1, <3>1, <3>2 DEF Done
    <3> QED
      BY <1>3, <2>2, <3>1, <3>2, <3>3 DEF ExactInv, Failures
  <2>6. ASSUME NEW d \in Dirs, RejectMetadata(d) PROVE ExactInv'
    <3>1. d \in unread /\ UNCHANGED <<diskVars, unread, reading, metadata, metadataByName, addressesByName>>
      BY <2>6 DEF RejectMetadata, IsNextEntry, Fail
    <3>2. disk[d].kind = "malformed" => ~Sound
      BY DEF Sound
    <3>3. disk[d].kind = "chain" /\ Duplicate(disk[d].metadata) # "none" => ~Sound
      BY <1>3, <3>1, DuplicatesClash DEF ChainDirs
    <3> QED
      BY <2>3, <2>6, <3>1, <3>2, <3>3 DEF RejectMetadata
  <2>7. CASE ReadAddresses
    BY <1>3, <2>7, InsertIsExact
  <2>8. CASE RejectAddresses
    <3>1. reading \in ChainDirs /\ disk[reading].addresses = "malformed"
      BY <1>3, <2>8 DEF RejectAddresses, ExactInv, Addresses, ChainDirs
    <3> QED
      BY <2>3, <2>8, <3>1 DEF RejectAddresses, Fail, Sound
  <2>9. CASE IoError \/ Loaded
    BY <2>3, <2>9 DEF IoError, Loaded, Fail, Failures
  <2> QED
    BY <1>3, <2>4, <2>5, <2>6, <2>7, <2>8, <2>9 DEF Load
<1>4. CASE LoadStep /\ edits # 0
  <2>1. edits' = edits
    BY <1>4 DEF LoadStep, Load, SkipEntry, ReadMetadata, RejectMetadata, ReadAddresses,
                RejectAddresses, IoError, Loaded, Fail, diskVars
  <2> QED
    BY <1>4, <2>1 DEF ExactInv
<1> QED
  BY <1>1, <1>2, <1>3, <1>4, StepKinds DEF LoadStep

(* Before the first entry there is nothing in the index.                   *)
LEMMA ExactInit == Init => LoadInv /\ ExactInv
<1> SUFFICES ASSUME Init PROVE LoadInv /\ ExactInv
  OBVIOUS
<1>1. Done = {} /\ metadataByName = Empty /\ DOMAIN Empty = {}
  BY DEF Init, RegistryInit, Done, Empty
<1> QED
  BY <1>1 DEF Init, RegistryInit, LoadInv, ExactInv, Failures

\* Together they are inductive.
RegistryInv == TypeOK /\ IndexInv /\ LoadInv /\ ExactInv

(* The inductive invariant of loading: in an untouched registry the index  *)
(* holds the chains of the directories dealt with, all of them sound, and  *)
(* no others (RegistryIndex::load, registry.rs).                           *)
THEOREM RegistryInvariant == Spec => []RegistryInv
<1>1. Init => RegistryInv
  BY TypeInit, IndexInit, ExactInit DEF RegistryInv
<1>2. RegistryInv /\ [Next]_vars => RegistryInv'
  BY TypeStep, IndexStep, LoadStepKeeps, ExactStep DEF RegistryInv
<1> QED
  BY <1>1, <1>2, PTL DEF Spec

(* Whether a registry that nobody touches is loaded, and what is loaded of *)
(* it, does not depend on the order of the listing: exactly its chains,    *)
(* with their addresses, when it is sound, and nothing when it is not      *)
(* (RegistryIndex::load, registry.rs).                                     *)
THEOREM LoadingIsExact == Spec => []LoadIsExact
<1>1. RegistryInv => LoadIsExact
  <2> SUFFICES ASSUME RegistryInv, edits = 0
               PROVE  /\ load = "loaded" =>
                           /\ Sound
                           /\ {metadataByName[n] : n \in DOMAIN metadataByName}
                                = {disk[d].metadata : d \in ChainDirs}
                           /\ \A d \in ChainDirs :
                                addressesByName[disk[d].metadata.name] = Addresses(d)
                      /\ load \in Failures \ {"io"} => ~Sound
    BY DEF LoadIsExact
  <2>1. load \in Failures \ {"io"} => ~Sound
    BY DEF RegistryInv, ExactInv
  <2>2. ASSUME load = "loaded"
        PROVE  /\ Sound
               /\ {metadataByName[n] : n \in DOMAIN metadataByName}
                    = {disk[d].metadata : d \in ChainDirs}
               /\ \A d \in ChainDirs : addressesByName[disk[d].metadata.name] = Addresses(d)
    <3>1. Done = Listing
      BY <2>2, RegistryAssumption DEF RegistryInv, LoadInv, Done, Listing
    <3>2. ChainDirs \subseteq Done
      BY <3>1 DEF ChainDirs, Listing
    <3>3. \A d \in ChainDirs : Indexed(d)
      BY <3>2 DEF RegistryInv, ExactInv
    <3>4. \A d \in Dirs : disk[d].kind # "malformed"
      BY <3>1 DEF RegistryInv, ExactInv, Listing
    <3>5. \A d, e \in ChainDirs : d # e => ~Clash(d, e)
      BY <3>2 DEF RegistryInv, ExactInv
    <3>6. Sound
      BY <3>3, <3>4, <3>5 DEF Sound, Indexed
    <3>7. \A n \in DOMAIN metadataByName :
            \E d \in ChainDirs : metadataByName[n] = disk[d].metadata
      BY DEF RegistryInv, ExactInv
    <3>8. \A d \in ChainDirs :
            \E n \in DOMAIN metadataByName : metadataByName[n] = disk[d].metadata
      BY <3>3 DEF Indexed
    <3> QED
      BY <3>3, <3>6, <3>7, <3>8 DEF Indexed
  <2> QED
    BY <2>1, <2>2
<1> QED
  BY <1>1, RegistryInvariant, PTL

-----------------------------------------------------------------------------
(* Every target is the right chain                                         *)

\* A run works with a loaded index, on origins that are in it, and has
\* nothing before.
StageInv ==
    /\ stage # "load" => load # "reading"
    /\ stage \in {"work", "prepared"} => load = "loaded"
    /\ stage = "load" =>
         prepared = << >> /\ listed = << >> /\ todo = << >> /\ expanded = << >> /\ at = 0
    /\ \A k \in DOMAIN todo : Targets[todo[k]].origin \in DOMAIN metadataByName

\* What has become of a domain of a work item is right.
IsRight(t, x) ==
    x.kind \in {"reconcile", "read_error"} =>
      \E m \in x.remote :
        /\ x.remote = {m}
        /\ m.domain = x.domain
        /\ x.read \subseteq {m.domain}
        /\ x.kind = "reconcile" => x.read = {m.domain}
        /\ Unfiltered => m # metadataByName[Targets[t].origin]
        /\ args.remoteDomain = NoDomain => args.remoteChain \in {NoName, m.name}

RightInv ==
    /\ \A k \in DOMAIN prepared : \A i \in DOMAIN prepared[k].expanded :
         IsRight(prepared[k].target, prepared[k].expanded[i])
    /\ todo # << >> => \A i \in DOMAIN expanded : IsRight(Head(todo), expanded[i])

(* The index and the command line do not change under a run.               *)
LEMMA IndexSettles ==
  ASSUME StageInv, [Next]_vars
  PROVE  \/ stage = "load" /\ UNCHANGED <<prepared, listed, expanded, at>>
            /\ (todo' = todo \/ ResolveOrigins)
         \/ stage # "load" /\ UNCHANGED <<diskVars, indexVars, args>>
<1>1. args' = args
  BY DEF Next, vars, prepVars, LoadStep, EditStep, ResolveOrigins, ResolveFails, ListConfigs,
         ReadDomain, DomainsDone, PrepareFails, Finish, Stop, Prepared, TakeDomain, Configure
<1>2. CASE LoadStep
  BY <1>2 DEF LoadStep, prepVars
<1>3. CASE EditStep
  BY <1>3 DEF EditStep, Edit, StageInv, prepVars
<1>4. CASE UNCHANGED <<diskVars, indexVars>> /\ stage = "load"
  BY <1>4 DEF Next, vars, prepVars, LoadStep, EditStep, ResolveOrigins, ResolveFails,
     ListConfigs, ReadDomain, ReadsNext, DomainsDone, PrepareFails, Finish, Working, Stop,
     Configure
<1>5. CASE UNCHANGED <<diskVars, indexVars>> /\ stage # "load"
  BY <1>1, <1>5
<1> QED
  BY <1>2, <1>3, <1>4, <1>5, StepKinds

\* What the steps of the preparation do to the results.
Rests == UNCHANGED <<todo, at, expanded, prepared, listed>>

(* Once the registry is loaded, three actions change what is prepared.     *)
LEMMA WorkSteps ==
  ASSUME [Next]_vars, stage # "load"
  PROVE  Rests \/ ListConfigs \/ ReadDomain \/ DomainsDone
BY DEF Next, vars, prepVars, LoadStep, EditStep, ResolveOrigins, ResolveFails, PrepareFails,
       Finish, Stop, Configure, Rests

(* Every step keeps the stages in order.                                   *)
LEMMA StageStep ==
  ASSUME TypeOK, StageInv, [Next]_vars
  PROVE  StageInv'
<1>1. CASE LoadStep
  BY <1>1 DEF LoadStep, prepVars, StageInv
<1>2. CASE EditStep
  BY <1>2 DEF EditStep, Edit, prepVars, StageInv
<1>3. CASE ResolveOrigins
  BY <1>3 DEF ResolveOrigins, UnknownOrigin, StageInv, indexVars
<1>4. CASE ResolveFails
  BY <1>4 DEF ResolveFails, Stop, StageInv, indexVars, Failures
<1>5. CASE PrepareFails
  BY <1>5 DEF PrepareFails, Stop, StageInv, indexVars, Working
<1>6. ASSUME NEW count, NEW results, NEW all, Prepared(count, results, all), Working
      PROVE  StageInv'
  <2>1. /\ todo' = Tail(todo) /\ todo # << >> /\ stage' = stage /\ stage = "work"
        /\ load' = load /\ metadataByName' = metadataByName
    BY <1>6 DEF Prepared, Working, indexVars
  <2>2. \A k \in DOMAIN Tail(todo) : k + 1 \in DOMAIN todo /\ Tail(todo)[k] = todo[k + 1]
    <3>1. /\ Tail(todo) \in Seq(DOMAIN Targets) /\ Len(Tail(todo)) = Len(todo) - 1
          /\ \A k \in 1..Len(Tail(todo)) : Tail(todo)[k] = todo[k + 1]
      BY <2>1, HeadTailProperties DEF TypeOK
    <3>2. /\ DOMAIN Tail(todo) = 1..Len(Tail(todo)) /\ DOMAIN todo = 1..Len(todo)
          /\ Len(todo) \in Nat
      BY <3>1, LenProperties DEF TypeOK
    <3> QED
      BY <3>1, <3>2
  <2> QED
    BY <2>1, <2>2 DEF StageInv
<1>7. CASE ListConfigs \/ DomainsDone
  BY <1>6, <1>7 DEF ListConfigs, DomainsDone
<1>8. CASE ReadDomain
  BY <1>8 DEF ReadDomain, ReadsNext, TakeDomain, Working, StageInv, indexVars
<1>9. CASE Finish
  BY <1>9 DEF Finish, StageInv, indexVars
<1>10. CASE (\E n \in Origins, d \in DomainIds : Configure(n, d)) \/ UNCHANGED vars
  BY <1>10 DEF Configure, vars, prepVars, StageInv, indexVars
<1> QED
  BY <1>1, <1>2, <1>3, <1>4, <1>5, <1>7, <1>8, <1>9, <1>10 DEF Next

(* A domain that matches is resolved to its chain, and to the one that was *)
(* asked for.                                                              *)
LEMMA ExpandIsRight ==
  ASSUME IndexInv, NEW d, Matches(d), NEW kind \in {"reconcile", "read_error"}, NEW read,
         TryChainByDomain(d) # {} => read \subseteq {d} /\ (kind = "reconcile" => read = {d})
  PROVE  IsRight(Head(todo), Expand(d, kind, read))
<1>1. CASE (Unfiltered /\ d = Origin.domain) \/ TryChainByDomain(d) = {}
  BY <1>1 DEF Expand, Skip, IsRight
<1>2. CASE ~(Unfiltered /\ d = Origin.domain) /\ TryChainByDomain(d) # {}
  <2>1. Expand(d, kind, read) =
          [kind |-> kind, domain |-> d, remote |-> TryChainByDomain(d), read |-> read]
    BY <1>2 DEF Expand
  <2>2. d \in DOMAIN metadataByDomain /\ metadataByDomain[d] \in DOMAIN metadataByName
    BY <1>2, LookUpByDomain
  <2> DEFINE m == metadataByName[metadataByDomain[d]]
  <2>3. TryChainByDomain(d) = {m}
    BY <2>2, LookUpByDomain
  <2>4. m.domain = d /\ m.name = metadataByDomain[d]
    BY <2>2 DEF IndexInv, MapsAgree
  <2>5. Unfiltered => m # Origin
    BY <1>2, <2>4
  <2>6. args.remoteDomain = NoDomain => args.remoteChain \in {NoName, m.name}
    <3> SUFFICES ASSUME args.remoteDomain = NoDomain, args.remoteChain # NoName
                 PROVE  args.remoteChain = m.name
      OBVIOUS
    <3>1. PICK n \in {args.remoteChain} \cap DOMAIN metadataByName : metadataByName[n].domain = d
      BY DEF Matches, Unfiltered, Filter, ChainMetadataOf
    <3> QED
      BY <2>4, <3>1 DEF IndexInv, MapsAgree
  <2> QED
    BY <1>2, <2>1, <2>3, <2>4, <2>5, <2>6 DEF IsRight, Origin
<1> QED
  BY <1>1, <1>2

(* A listing is resolved domain by domain.                                 *)
LEMMA ListedAreRight ==
  ASSUME IndexInv
  PROVE  \A i \in DOMAIN ListedResults : IsRight(Head(todo), ListedResults[i])
<1> DEFINE S == {d \in Page(Origin.name) : Matches(d)}
<1>1. /\ DOMAIN InOrder(S) = 1..Cardinality(S)
      /\ \A k \in 1..Cardinality(S) : InOrder(S)[k] \in S
  BY PageType, InOrderLists
<1>2. ListedResults = [k \in DOMAIN InOrder(S) |->
                         Expand(InOrder(S)[k], "reconcile", {InOrder(S)[k]})]
  BY DEF ListedResults
<1> SUFFICES ASSUME NEW i \in DOMAIN InOrder(S)
             PROVE  IsRight(Head(todo), Expand(InOrder(S)[i], "reconcile", {InOrder(S)[i]}))
  BY <1>2
<1>3. Matches(InOrder(S)[i])
  BY <1>1
<1> QED
  BY <1>3, ExpandIsRight

(* So is a domain that is read.                                            *)
LEMMA ReadIsRight ==
  ASSUME IndexInv, Matches(Turn), NEW x,
         x \in {Expand(Turn, "reconcile", Asked), Expand(Turn, "read_error", {})}
  PROVE  IsRight(Head(todo), x)
<1>1. TryChainByDomain(Turn) # {} => Asked = {Turn}
  <2> SUFFICES ASSUME TryChainByDomain(Turn) # {} PROVE Asked = {Turn}
    OBVIOUS
  <2>1. /\ Turn \in DOMAIN metadataByDomain /\ metadataByDomain[Turn] \in DOMAIN metadataByName
        /\ TryChainByDomain(Turn) = {metadataByName[metadataByDomain[Turn]]}
    BY LookUpByDomain
  <2>2. metadataByName[metadataByDomain[Turn]].domain = Turn
    BY <2>1 DEF IndexInv, MapsAgree
  <2> QED
    BY <2>1, <2>2 DEF Asked
<1>2. CASE x = Expand(Turn, "reconcile", Asked)
  BY <1>1, <1>2, ExpandIsRight
<1>3. CASE x = Expand(Turn, "read_error", {})
  BY <1>3, ExpandIsRight
<1> QED
  BY <1>2, <1>3

\* After n work items one more is done.
Appended(n, count, results, all) ==
    /\ DOMAIN prepared = 1..n /\ DOMAIN prepared' = 1..(n + 1)
    /\ \A k \in 1..n : prepared'[k] = prepared[k] /\ listed'[k] = listed[k]
    /\ prepared'[n + 1] = [target |-> Head(todo), configured |-> count, expanded |-> results]
    /\ listed'[n + 1] = all
    /\ todo' = Tail(todo) /\ at' = 0 /\ expanded' = << >>

(* What a step appends is all that is new.                                 *)
LEMMA PreparedAppends ==
  ASSUME TypeOK, todo # << >>, NEW count \in Nat, NEW results \in Seq(ExpandedTarget),
         NEW all \in SUBSET DomainIds, Prepared(count, results, all)
  PROVE  \E n \in Nat : Appended(n, count, results, all)
<1> DEFINE x == [target |-> Head(todo), configured |-> count, expanded |-> results]
<1>1. x \in PreparedOrigin
  BY OperatorDomainsType DEF PreparedOrigin
<1>2. prepared' = Append(prepared, x) /\ listed' = Append(listed, all)
  BY DEF Prepared
<1> HIDE DEF x
<1>3. PICK n \in Nat : n = Len(prepared) /\ n = Len(listed)
  BY LenProperties DEF TypeOK
<1>4. /\ DOMAIN prepared = 1..n /\ DOMAIN prepared' = 1..(n + 1)
      /\ \A k \in 1..n : prepared'[k] = prepared[k] /\ listed'[k] = listed[k]
      /\ prepared'[n + 1] = x /\ listed'[n + 1] = all
  BY <1>1, <1>2, <1>3, AppendProperties, LenProperties DEF TypeOK
<1>5. todo' = Tail(todo) /\ at' = 0 /\ expanded' = << >>
  BY DEF Prepared
<1> QED
  BY <1>4, <1>5 DEF x, Appended

(* A result is appended to those before it.                                *)
LEMMA ReadAppends ==
  ASSUME TypeOK, NEW x \in ExpandedTarget, TakeDomain(<<x>>)
  PROVE  \E n \in Nat :
           /\ DOMAIN expanded = 1..n /\ DOMAIN expanded' = 1..(n + 1)
           /\ Len(expanded) = n /\ Len(expanded') = n + 1
           /\ \A i \in 1..n : expanded'[i] = expanded[i]
           /\ expanded'[n + 1] = x
<1>1. expanded' = expanded \o <<x>> /\ <<x>> \in Seq(ExpandedTarget)
  BY DEF TakeDomain
<1>2. PICK n \in Nat : n = Len(expanded)
  BY LenProperties DEF TypeOK
<1>3. Len(<<x>>) = 1 /\ <<x>>[1] = x
  OBVIOUS
<1>4. /\ expanded' \in Seq(ExpandedTarget) /\ Len(expanded') = n + 1
      /\ \A i \in 1..(n + 1) :
           expanded'[i] = IF i <= n THEN expanded[i] ELSE <<x>>[i - n]
  BY <1>1, <1>2, <1>3, ConcatProperties DEF TypeOK
<1>5. /\ \A i \in 1..n : expanded'[i] = expanded[i]
      /\ expanded'[n + 1] = x
  BY <1>3, <1>4
<1>6. DOMAIN expanded = 1..n
  BY <1>2, LenProperties DEF TypeOK
<1>7. DOMAIN expanded' = 1..(n + 1)
  BY <1>4, LenProperties
<1> QED
  BY <1>2, <1>4, <1>5, <1>6, <1>7

(* A domain that does not match leaves nothing.                            *)
LEMMA NothingAppended ==
  ASSUME TypeOK, TakeDomain(<< >>)
  PROVE  expanded' = expanded
BY ConcatEmptySeq DEF TakeDomain, TypeOK

(* Whatever is settled stays right.                                        *)
LEMMA RightStays ==
  ASSUME UNCHANGED <<metadataByName, args>>
  PROVE  \A t, x : IsRight(t, x)' <=> IsRight(t, x)
BY DEF IsRight, Unfiltered

(* Every step keeps the targets right.                                     *)
LEMMA RightStep ==
  ASSUME TypeOK, IndexInv, StageInv, RightInv, [Next]_vars
  PROVE  RightInv'
<1>1. CASE stage = "load"
  <2>1. prepared' = << >> /\ expanded' = << >>
    BY <1>1, IndexSettles DEF StageInv
  <2> QED
    BY <2>1 DEF RightInv
<1>2. CASE stage # "load"
  <2>0. \A t, x : IsRight(t, x)' <=> IsRight(t, x)
    BY <1>2, IndexSettles, RightStays DEF indexVars
  <2>1. CASE Rests
    BY <2>0, <2>1 DEF Rests, RightInv
  <2>2. ASSUME todo # << >>, NEW count \in Nat, NEW results \in Seq(ExpandedTarget),
               NEW all \in SUBSET DomainIds, Prepared(count, results, all),
               \A i \in DOMAIN results : IsRight(Head(todo), results[i])
        PROVE  RightInv'
    <3>1. PICK n \in Nat : Appended(n, count, results, all)
      BY <2>2, PreparedAppends
    <3>2. \A k \in 1..n : \A i \in DOMAIN prepared'[k].expanded :
            IsRight(prepared'[k].target, prepared'[k].expanded[i])
      BY <3>1 DEF RightInv, Appended
    <3>3. \A i \in DOMAIN prepared'[n + 1].expanded :
            IsRight(prepared'[n + 1].target, prepared'[n + 1].expanded[i])
      BY <2>2, <3>1 DEF Appended
    <3>4. \A k \in DOMAIN prepared' : \A i \in DOMAIN prepared'[k].expanded :
            IsRight(prepared'[k].target, prepared'[k].expanded[i])
      BY <3>1, <3>2, <3>3 DEF Appended
    <3> QED
      BY <2>0, <3>1, <3>4 DEF RightInv, Appended
  <2>3. CASE ListConfigs
    <3>1. /\ todo # << >>
          /\ Prepared(Cardinality(Page(Origin.name)), ListedResults, Configured(Origin.name))
      BY <2>3 DEF ListConfigs, Working, ListedResults
    <3>2. /\ Cardinality(Page(Origin.name)) \in Nat /\ ListedResults \in Seq(ExpandedTarget)
          /\ Configured(Origin.name) \in SUBSET DomainIds
      BY PageType, ListedResultsType DEF TypeOK
    <3> QED
      BY <2>2, <3>1, <3>2, ListedAreRight
  <2>4. CASE DomainsDone
    <3>1. todo # << >> /\ Prepared(Len(OperatorDomains), expanded, {})
      BY <2>4 DEF DomainsDone, Working
    <3>2. Len(OperatorDomains) \in Nat /\ expanded \in Seq(ExpandedTarget)
      BY <3>1, OperatorDomainsType DEF TypeOK
    <3> QED
      BY <2>2, <3>1, <3>2 DEF RightInv
  <2>5. CASE ReadDomain
    <3>1. todo # << >> /\ todo' = todo /\ prepared' = prepared
      BY <2>5 DEF ReadDomain, ReadsNext, Working, TakeDomain
    <3>2. ASSUME NEW x \in ExpandedTarget, TakeDomain(<<x>>), IsRight(Head(todo), x)
          PROVE  RightInv'
      <4>1. PICK n \in Nat :
              /\ DOMAIN expanded = 1..n /\ DOMAIN expanded' = 1..(n + 1)
              /\ \A i \in 1..n : expanded'[i] = expanded[i]
              /\ expanded'[n + 1] = x
        BY <3>2, ReadAppends
      <4>2. \A i \in 1..(n + 1) : IsRight(Head(todo), expanded'[i])
        BY <3>1, <3>2, <4>1 DEF RightInv
      <4> QED
        BY <2>0, <3>1, <4>1, <4>2 DEF RightInv
    <3>3. ASSUME TakeDomain(<< >>) PROVE RightInv'
      BY <2>0, <3>1, <3>3, NothingAppended DEF RightInv
    <3> QED
      BY <2>5, <3>2, <3>3, ReadDomainResult, ReadIsRight
  <2> QED
    BY <1>2, <2>1, <2>3, <2>4, <2>5, WorkSteps
<1> QED
  BY <1>1, <1>2

-----------------------------------------------------------------------------
(* Every domain is accounted for                                           *)

DomainsIn(results) == {results[i].domain : i \in DOMAIN results}

\* The domains of a work item are those it was to be done for, each once.
Accounted(item, all) ==
    /\ item.configured = Len(item.expanded)
    /\ \A i, j \in DOMAIN item.expanded :
         item.expanded[i].domain = item.expanded[j].domain => i = j
    /\ IF Targets[item.target].domains # << >>
       THEN DomainsIn(item.expanded) =
              {Targets[item.target].domains[i] : i \in DOMAIN Targets[item.target].domains}
       ELSE /\ DomainsIn(item.expanded) \subseteq all
            /\ Cardinality(all) <= PageSize => DomainsIn(item.expanded) = all

CountInv ==
    Unfiltered =>
      /\ \A k \in DOMAIN prepared : Accounted(prepared[k], listed[k])
      /\ todo # << >> =>
           /\ Len(expanded) = at /\ at <= Len(Targets[Head(todo)].domains)
           /\ \A i \in 1..at : expanded[i].domain = Targets[Head(todo)].domains[i]

(* Without a filter the domains that are read are those of the operator.   *)
LEMMA UnfilteredDomains ==
  ASSUME TypeOK, Unfiltered, todo # << >>
  PROVE  /\ Targets[Head(todo)].domains # << >> => OperatorDomains = Targets[Head(todo)].domains
         /\ Targets[Head(todo)].domains = << >> => Len(OperatorDomains) = 0
         /\ \A d : Matches(d)
<1>1. Partial(metadataByName, Names, ChainMetadata)
  BY RegistryTypes DEF TypeOK
<1>2. Filter = {}
  BY <1>1, DiscoveryAssumption DEF Filter, Unfiltered, ChainMetadataOf, Partial
<1>3. Len(InOrder(Filter)) = 0
  BY <1>2, FS_EmptySet, InOrderLists
<1> QED
  BY <1>3 DEF OperatorDomains, Matches

(* A listing is the page, each domain once.                                *)
LEMMA ListingIsAccounted ==
  ASSUME TypeOK, Unfiltered, todo # << >>, Targets[Head(todo)].domains = << >>
  PROVE  Accounted([target |-> Head(todo), configured |-> Cardinality(Page(Origin.name)),
                    expanded |-> ListedResults], Configured(Origin.name))
<1> DEFINE n == Origin.name
           S == Page(n)
<1>1. {d \in S : Matches(d)} = S
  BY UnfilteredDomains
<1>2. /\ S \in SUBSET Nat /\ IsFiniteSet(S) /\ S \subseteq Configured(n)
      /\ S \subseteq DomainIds /\ Configured(n) \subseteq DomainIds
      /\ Cardinality(S) \in Nat /\ Cardinality(Configured(n)) \in Nat
      /\ IsFiniteSet(Configured(n))
  BY <1>1, PageType
<1>3. /\ DOMAIN InOrder(S) = 1..Cardinality(S)
      /\ \A k \in 1..Cardinality(S) : InOrder(S)[k] \in S
      /\ \A x \in S : \E k \in 1..Cardinality(S) : InOrder(S)[k] = x
      /\ \A i, j \in 1..Cardinality(S) : i < j => InOrder(S)[i] < InOrder(S)[j]
  BY <1>2, InOrderLists
<1>4. ListedResults = [k \in 1..Cardinality(S) |->
                         Expand(InOrder(S)[k], "reconcile", {InOrder(S)[k]})]
  BY <1>1, <1>3 DEF ListedResults
<1>5. /\ DOMAIN ListedResults = 1..Cardinality(S)
      /\ \A k \in 1..Cardinality(S) : ListedResults[k].domain = InOrder(S)[k]
  BY <1>2, <1>3, <1>4, ExpandType DEF TypeOK
<1>6. Len(ListedResults) = Cardinality(S)
  <2>1. ListedResults \in Seq(ExpandedTarget)
    BY ListedResultsType DEF TypeOK
  <2> QED
    BY <1>2, <1>5, <2>1, LenProperties
<1>7. \A i, j \in 1..Cardinality(S) : InOrder(S)[i] = InOrder(S)[j] => i = j
  <2> SUFFICES ASSUME NEW i \in 1..Cardinality(S), NEW j \in 1..Cardinality(S), i # j
               PROVE  InOrder(S)[i] # InOrder(S)[j]
    OBVIOUS
  <2>1. i < j \/ j < i
    BY <1>2
  <2>2. InOrder(S)[i] \in Nat /\ InOrder(S)[j] \in Nat
    BY <1>2, <1>3
  <2> QED
    BY <1>3, <2>1, <2>2
<1>8. DomainsIn(ListedResults) = S
  BY <1>3, <1>5 DEF DomainsIn
<1>9. ASSUME Cardinality(Configured(n)) <= PageSize PROVE S = Configured(n)
  <2> SUFFICES ASSUME NEW d \in Configured(n)
               PROVE  Cardinality({e \in Configured(n) : e <= d}) <= PageSize
    BY <1>2 DEF Page
  <2>1. {e \in Configured(n) : e <= d} \in SUBSET Configured(n)
    OBVIOUS
  <2>2. /\ IsFiniteSet({e \in Configured(n) : e <= d})
        /\ Cardinality({e \in Configured(n) : e <= d}) <= Cardinality(Configured(n))
    BY <1>2, <2>1, FS_Subset
  <2>3. Cardinality({e \in Configured(n) : e <= d}) \in Nat
    BY <2>2, FS_CardinalityType
  <2> QED
    BY <1>2, <1>9, <2>2, <2>3, DiscoveryAssumption
<1> HIDE DEF n, S
<1>10. Accounted([target |-> Head(todo), configured |-> Cardinality(S),
                  expanded |-> ListedResults], Configured(n))
  BY <1>2, <1>5, <1>6, <1>7, <1>8, <1>9 DEF Accounted
<1> QED
  BY <1>10 DEF n, S

(* Domains read one by one are all there when the last one is done.        *)
LEMMA ReadsAreAccounted ==
  ASSUME TypeOK, CountInv, Unfiltered, todo # << >>, at = Len(OperatorDomains)
  PROVE  Accounted([target |-> Head(todo), configured |-> Len(OperatorDomains),
                    expanded |-> expanded], {})
<1> DEFINE domains == Targets[Head(todo)].domains
<1>1. /\ Len(expanded) = at /\ at \in Nat /\ DOMAIN expanded = 1..at
      /\ \A i \in 1..at : expanded[i].domain = domains[i]
  BY LenProperties DEF CountInv, TypeOK
<1>2. CASE domains = << >>
  <2>1. DOMAIN expanded = {} /\ Len(OperatorDomains) = 0 /\ Len(expanded) = 0
    BY <1>1, <1>2, UnfilteredDomains
  <2> QED
    BY <1>2, <2>1 DEF Accounted, DomainsIn
<1>3. CASE domains # << >>
  <2>1. Head(todo) \in DOMAIN Targets /\ domains \in Seq(DomainIds)
    BY OperatorDomainsType, TargetTypes
  <2>2. DOMAIN domains = 1..at
    BY <1>3, <2>1, UnfilteredDomains, LenProperties
  <2>3. NoDuplicates(domains)
    BY <2>1, DiscoveryAssumption
  <2>4. DomainsIn(expanded) = {domains[i] : i \in DOMAIN domains}
    BY <1>1, <2>2 DEF DomainsIn
  <2> QED
    BY <1>1, <1>3, <2>2, <2>3, <2>4 DEF Accounted, NoDuplicates
<1> QED
  BY <1>2, <1>3

(* What is accounted for is a matter of the item alone.                    *)
LEMMA AccountedPrimed ==
  \A k : Accounted(prepared[k], listed[k])' <=> Accounted(prepared'[k], listed'[k])
BY DEF Accounted, DomainsIn

(* Every step keeps the account of the domains.                            *)
LEMMA CountStep ==
  ASSUME TypeOK, StageInv, CountInv, [Next]_vars
  PROVE  CountInv'
<1>0. /\ TypeOK'
      /\ todo' # << >> => /\ Len(Targets[Head(todo')].domains) \in Nat
                          /\ DOMAIN Targets[Head(todo')].domains
                                = 1..Len(Targets[Head(todo')].domains)
  <2>1. TypeOK'
    BY TypeStep
  <2>2. todo' # << >> => Head(todo') \in DOMAIN Targets
    BY <2>1, HeadTailProperties DEF TypeOK
  <2>3. \A t \in DOMAIN Targets :
          /\ Len(Targets[t].domains) \in Nat
          /\ DOMAIN Targets[t].domains = 1..Len(Targets[t].domains)
    BY TargetTypes, LenProperties
  <2> QED
    BY <2>1, <2>2, <2>3
<1>1. CASE stage = "load"
  <2>1. prepared' = << >> /\ expanded' = << >> /\ at' = 0
    BY <1>1, IndexSettles DEF StageInv
  <2> QED
    BY <1>0, <2>1 DEF CountInv
<1>2. CASE stage # "load" /\ Unfiltered
  <2>0. args' = args
    BY <1>2, IndexSettles
  <2>1. CASE Rests
    BY <1>2, <2>0, <2>1 DEF Rests, CountInv, Unfiltered
  <2>2. ASSUME todo # << >>, NEW count \in Nat, NEW results \in Seq(ExpandedTarget),
               NEW all \in SUBSET DomainIds, Prepared(count, results, all),
               Accounted([target |-> Head(todo), configured |-> count,
                          expanded |-> results], all)
        PROVE  CountInv'
    <3>1. PICK n \in Nat : Appended(n, count, results, all)
      BY <2>2, PreparedAppends
    <3>2. \A k \in 1..n : Accounted(prepared'[k], listed'[k])
      BY <1>2, <3>1 DEF CountInv, Appended
    <3>3. Accounted(prepared'[n + 1], listed'[n + 1])
      BY <2>2, <3>1 DEF Appended
    <3>4. \A k \in DOMAIN prepared' : Accounted(prepared[k], listed[k])'
      BY <3>1, <3>2, <3>3, AccountedPrimed DEF Appended
    <3> QED
      BY <1>0, <3>1, <3>4 DEF CountInv, Appended
  <2>3. CASE ListConfigs
    <3>1. /\ todo # << >> /\ Targets[Head(todo)].domains = << >>
          /\ Prepared(Cardinality(Page(Origin.name)), ListedResults, Configured(Origin.name))
      BY <2>3 DEF ListConfigs, Working, Lists, ListedResults
    <3>2. /\ Cardinality(Page(Origin.name)) \in Nat /\ ListedResults \in Seq(ExpandedTarget)
          /\ Configured(Origin.name) \in SUBSET DomainIds
      BY PageType, ListedResultsType DEF TypeOK
    <3> QED
      BY <1>2, <2>2, <3>1, <3>2, ListingIsAccounted
  <2>4. CASE DomainsDone
    <3>1. /\ todo # << >> /\ at = Len(OperatorDomains)
          /\ Prepared(Len(OperatorDomains), expanded, {})
      BY <2>4 DEF DomainsDone, Working
    <3>2. Len(OperatorDomains) \in Nat /\ expanded \in Seq(ExpandedTarget)
      BY <3>1, OperatorDomainsType DEF TypeOK
    <3> QED
      BY <1>2, <2>2, <3>1, <3>2, ReadsAreAccounted
  <2>5. CASE ReadDomain
    <3>1. /\ todo # << >> /\ todo' = todo /\ prepared' = prepared /\ listed' = listed
          /\ at' = at + 1
      BY <2>5 DEF ReadDomain, ReadsNext, Working, TakeDomain
    <3>2. PICK x \in ExpandedTarget : x.domain = Turn /\ TakeDomain(<<x>>)
      BY <1>2, <2>5, <3>1, ReadDomainResult, UnfilteredDomains
    <3>3. PICK n \in Nat :
            /\ DOMAIN expanded = 1..n /\ DOMAIN expanded' = 1..(n + 1)
            /\ Len(expanded) = n /\ Len(expanded') = n + 1
            /\ \A i \in 1..n : expanded'[i] = expanded[i]
            /\ expanded'[n + 1] = x
      BY <3>2, ReadAppends
    <3>4. /\ n = at /\ \A i \in 1..at : expanded[i].domain = Targets[Head(todo)].domains[i]
      BY <1>2, <3>1, <3>3 DEF CountInv
    <3>5. /\ at + 1 <= Len(Targets[Head(todo)].domains)
          /\ Turn = Targets[Head(todo)].domains[at + 1]
      <4>1. at + 1 \in 1..Len(OperatorDomains) /\ Len(OperatorDomains) # 0
        BY <2>5, <3>1, ReadDomainResult, OperatorDomainsType
      <4>2. OperatorDomains = Targets[Head(todo)].domains
        BY <1>2, <3>1, <4>1, UnfilteredDomains
      <4> QED
        BY <3>1, <4>1, <4>2, OperatorDomainsType DEF Turn
    <3>6. \A i \in 1..(at + 1) : expanded'[i].domain = Targets[Head(todo)].domains[i]
      BY <3>2, <3>3, <3>4, <3>5
    <3>7. \A k \in DOMAIN prepared' : Accounted(prepared[k], listed[k])'
      BY <1>2, <3>1, AccountedPrimed DEF CountInv
    <3> QED
      BY <3>1, <3>3, <3>4, <3>5, <3>6, <3>7 DEF CountInv
  <2> QED
    BY <1>2, <2>1, <2>3, <2>4, <2>5, WorkSteps
<1>3. CASE stage # "load" /\ ~Unfiltered
  BY <1>3, IndexSettles DEF CountInv, Unfiltered
<1> QED
  BY <1>1, <1>2, <1>3

-----------------------------------------------------------------------------
(* The invariant                                                           *)

\* Together they are inductive.
PrepareInv == RegistryInv /\ StageInv /\ RightInv /\ CountInv

(* The inductive invariant of the preparation: the index is exact and      *)
(* settled before a run works on it, and every domain dealt with is there  *)
(* once, under the right chain.                                            *)
THEOREM PrepareInvariant == Spec => []PrepareInv
<1>1. Init => RegistryInv
  BY TypeInit, IndexInit, ExactInit DEF RegistryInv
<1>2. Init => StageInv /\ RightInv /\ CountInv
  BY DEF Init, StageInv, RightInv, CountInv
<1>3. PrepareInv /\ [Next]_vars => PrepareInv'
  BY TypeStep, IndexStep, LoadStepKeeps, ExactStep, StageStep, RightStep, CountStep
  DEF PrepareInv, RegistryInv
<1> QED
  BY <1>1, <1>2, <1>3, PTL DEF Spec, PrepareInv

(* Every target a run works on is the chain whose domain was configured,   *)
(* and its configuration was read for that domain; with --remote-chain it  *)
(* is that chain.  So it is for every registry, whatever is edited while   *)
(* it is loaded (registry.rs, resolver.rs).                                *)
THEOREM TargetsAreRight == Spec => []RightChain
<1>1. PrepareInv => RightChain
  <2> SUFFICES ASSUME PrepareInv, NEW k \in DOMAIN prepared, NEW x \in Results(k)
               PROVE  IsRight(prepared[k].target, x)
    BY DEF RightChain, IsRight
  <2>1. PICK i \in DOMAIN prepared[k].expanded : x = prepared[k].expanded[i]
    BY DEF Results
  <2> QED
    BY <2>1 DEF PrepareInv, RightInv
<1> QED
  BY <1>1, PrepareInvariant, PTL

(* A run without a filter deals with every domain once: the operator's, or *)
(* those on the page that the IGP of a Cosmos chain answered with; the     *)
(* counts of its report add up (resolver.rs, reconcile.rs, artifacts.rs).  *)
THEOREM DomainsAccounted == Spec => []EveryDomainAccounted
<1>1. PrepareInv => EveryDomainAccounted
  <2> SUFFICES ASSUME PrepareInv, Unfiltered, NEW k \in DOMAIN prepared
               PROVE  /\ prepared[k].configured
                           = Cardinality(Resolved(k)) + Cardinality(SkippedOnes(k))
                      /\ \A i, j \in DOMAIN prepared[k].expanded :
                           prepared[k].expanded[i].domain = prepared[k].expanded[j].domain
                             => i = j
                      /\ IF Targets[prepared[k].target].domains # << >>
                         THEN {x.domain : x \in Results(k)} =
                                {Targets[prepared[k].target].domains[i] :
                                   i \in DOMAIN Targets[prepared[k].target].domains}
                         ELSE /\ {x.domain : x \in Results(k)} \subseteq listed[k]
                              /\ Cardinality(listed[k]) <= PageSize =>
                                   {x.domain : x \in Results(k)} = listed[k]
    BY DEF EveryDomainAccounted
  <2>1. Accounted(prepared[k], listed[k])
    BY DEF PrepareInv, CountInv
  <2>2. {x.domain : x \in Results(k)} = DomainsIn(prepared[k].expanded)
    BY DEF Results, DomainsIn
  <2>3. prepared[k].expanded \in Seq(ExpandedTarget)
    <3>1. prepared \in [1..Len(prepared) -> PreparedOrigin]
      BY LenProperties DEF PrepareInv, RegistryInv, TypeOK
    <3> QED
      BY <3>1 DEF PreparedOrigin
  <2> DEFINE D == DOMAIN prepared[k].expanded
  <2>4. PICK n \in Nat : n = Len(prepared[k].expanded) /\ D = 1..n
    BY <2>3, LenProperties
  <2>5. IsFiniteSet(D) /\ Cardinality(D) = n
    BY <2>4, FS_Interval
  <2>6. Resolved(k) \subseteq D /\ D \cap Resolved(k) = Resolved(k)
    BY DEF Resolved
  <2>7. IsFiniteSet(Resolved(k)) /\ Cardinality(Resolved(k)) \in Nat
    BY <2>5, <2>6, FS_Subset, FS_CardinalityType
  <2>8. Cardinality(SkippedOnes(k)) = n - Cardinality(Resolved(k))
    <3>1. Cardinality(D \ Resolved(k)) = Cardinality(D) - Cardinality(D \cap Resolved(k))
      BY <2>5, FS_Difference
    <3> QED
      BY <2>5, <2>6, <3>1 DEF SkippedOnes
  <2>9. prepared[k].configured = Cardinality(Resolved(k)) + Cardinality(SkippedOnes(k))
    BY <2>1, <2>4, <2>7, <2>8 DEF Accounted
  <2> QED
    BY <2>1, <2>2, <2>9 DEF Accounted
<1> QED
  BY <1>1, PrepareInvariant, PTL
=============================================================================
