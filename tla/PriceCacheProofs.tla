-------------------------- MODULE PriceCacheProofs --------------------------
(***************************************************************************)
(* Proofs about PriceCache, for every time to live and every number of     *)
(* assets and targets.                                                     *)
(***************************************************************************)
EXTENDS PriceCache, TLAPS

\* The history follows the request under way or else the entry, and found
\* prices come from a request at most Ttl before their lookup.
CacheInv ==
    /\ clock \in Nat
    /\ lastAsked \in Int /\ lastAsked <= clock
    /\ IF request = None
       THEN \/ cache = Empty /\ lastAsked = Never
            \/ cache # Empty /\ cache.fetchedAt = lastAsked
       ELSE request.at = lastAsked /\ lastAsked \in Nat
    /\ found = [s \in Lookups |-> found[s]]
    /\ RecentlyAsked

(* Judging a response keeps the found prices recent when it is.            *)
LEMMA JudgeKeeps ==
  ASSUME RecentlyAsked, found = [s \in Lookups |-> found[s]],
         NEW response, NEW asked \in Int, NEW began \in Int,
         began - asked <= Ttl,
         step \in Lookups, Judge(response, asked, began)
  PROVE  RecentlyAsked' /\ found' = [s \in Lookups |-> found'[s]]
<1>1. CASE Usable(response)
  <2> DEFINE price == [updated |-> response[Asset], asked |-> asked,
                       began |-> began]
  <2>1. found' = [found EXCEPT ![step] = price]
    BY <1>1 DEF Judge
  <2>2. price.began = began /\ price.asked = asked
    OBVIOUS
  <2> HIDE DEF price
  <2>3. \A s \in Lookups : found'[s] = IF s = step THEN price ELSE found[s]
    BY <2>1
  <2>4. found' = [s \in Lookups |-> found'[s]]
    BY <2>1
  <2> QED
    BY <2>2, <2>3, <2>4 DEF RecentlyAsked
<1>2. CASE ~ Usable(response)
  <2>1. found' = [s \in Lookups |-> Empty]
    BY <1>2 DEF Judge, Drop, Nothing
  <2> QED
    BY <2>1 DEF RecentlyAsked
<1> QED
  BY <1>1, <1>2

(* No request has been made and the cache is empty.                        *)
LEMMA CacheInit == Init => CacheInv
<1> SUFFICES ASSUME Init PROVE CacheInv
  OBVIOUS
<1>1. Never \in Int /\ Never <= 0
  BY PriceCacheAssumption DEF Never
<1>2. found = [s \in Lookups |-> Empty] /\ RecentlyAsked
  BY DEF Init, Nothing, RecentlyAsked
<1> QED
  BY <1>1, <1>2 DEF Init, CacheInv

(* Every step keeps the entry and the history of requests together.        *)
LEMMA CacheStep == CacheInv /\ [Next]_vars => CacheInv'
<1> SUFFICES ASSUME CacheInv, [Next]_vars PROVE CacheInv'
  OBVIOUS
<1> USE DEF CacheInv
<1>1. CASE Tick
  BY <1>1 DEF Tick, RecentlyAsked
<1>2. ASSUME NEW a \in Assets, Publish(a) PROVE CacheInv'
  BY <1>2 DEF Publish, RecentlyAsked
<1>3. CASE Serve
  <2>1. request'.at = request.at /\ request # None /\ request' # None
    <3>1. /\ request # None
          /\ request' = [request EXCEPT !.answer = {[a \in AssetIds |-> published[a]]}]
      BY <1>3 DEF Serve
    <3>2. request'.at = request.at
      BY <3>1
    <3>3. request'.at # Never
      BY <3>1, <3>2, PriceCacheAssumption DEF Never
    <3> QED
      BY <3>1, <3>2, <3>3 DEF None
  <2> QED
    BY <1>3, <2>1 DEF Serve, RecentlyAsked
<1>4. CASE Begin
  BY <1>4 DEF Begin, RecentlyAsked
<1>5. CASE LookUp
  <2>1. /\ step \in Lookups /\ request = None /\ cache # Empty
        /\ clock - cache.fetchedAt <= Ttl
        /\ Judge(cache.response, lastAsked, clock)
        /\ UNCHANGED <<clock, cache, request, lastAsked>>
    BY <1>5 DEF LookUp, Cached, Priced
  <2>2. clock - lastAsked <= Ttl
    BY <2>1
  <2>3. RecentlyAsked' /\ found' = [s \in Lookups |-> found'[s]]
    BY <2>1, <2>2, JudgeKeeps
  <2> QED
    BY <2>1, <2>3
<1>6. CASE Ask
  <2>1. request' = [at |-> clock, answer |-> {}] /\ clock # Never
    BY <1>6, PriceCacheAssumption DEF Ask, Never
  <2>2. request' # None /\ request'.at = clock
    BY <2>1 DEF None
  <2> QED
    BY <1>6, <2>2 DEF Ask, RecentlyAsked
<1>7. CASE Receive
  <2>1. PICK response :
          /\ cache' = DatedEntry(response)
          /\ Judge(response, request.at, request.at)
    BY <1>7 DEF Receive
  <2>2. /\ request # None /\ request' = None
        /\ UNCHANGED <<clock, lastAsked>>
    BY <1>7 DEF Receive
  <2>3. request.at = lastAsked /\ lastAsked \in Nat
    BY <2>2
  <2>4. cache'.fetchedAt = lastAsked /\ cache' # Empty
    <3>1. cache'.fetchedAt = lastAsked
      BY <2>1, <2>3 DEF DatedEntry
    <3>2. lastAsked # Never
      BY <2>3, PriceCacheAssumption DEF Never
    <3> QED
      BY <3>1, <3>2 DEF Empty
  <2>5. request.at - request.at <= Ttl /\ request.at \in Int
    BY <2>3, PriceCacheAssumption
  <2>6. step \in Lookups
    BY <1>7 DEF Receive, Priced
  <2>7. RecentlyAsked' /\ found' = [s \in Lookups |-> found'[s]]
    BY <2>1, <2>5, <2>6, JudgeKeeps
  <2> QED
    BY <2>2, <2>4, <2>7
<1>8. ASSUME Drop PROVE RecentlyAsked' /\ found' = [s \in Lookups |-> found'[s]]
  BY <1>8 DEF Drop, Nothing, RecentlyAsked
<1>9. CASE Propose
  BY <1>8, <1>9 DEF Propose, RecentlyAsked
<1>10. CASE Finish
  BY <1>8, <1>10 DEF Finish
<1>12. CASE NoAsset
  BY <1>8, <1>12 DEF NoAsset
<1>13. CASE GasPriceAtHand
  BY <1>9, <1>13 DEF GasPriceAtHand
<1>14. CASE NoGasPrice
  BY <1>8, <1>14 DEF NoGasPrice
<1>15. CASE AskGasPrice
  BY <1>15 DEF AskGasPrice, RecentlyAsked
<1>16. CASE ReceiveGasPrice
  BY <1>9, <1>16 DEF ReceiveGasPrice
<1>11. CASE UNCHANGED vars
  BY <1>11 DEF vars, RecentlyAsked
<1> QED
  BY <1>1, <1>2, <1>3, <1>4, <1>5, <1>6, <1>7, <1>10, <1>11, <1>12, <1>13, <1>14,
     <1>15, <1>16 DEF Next

(* The inductive invariant of the cache: its entry is the answer to the    *)
(* last request that is over (data.rs, prices).                            *)
THEOREM CacheInvariant == Spec => []CacheInv
BY CacheInit, CacheStep, PTL DEF Spec

(* No lookup returns a price asked for more than Ttl before it began       *)
(* (data.rs:61-78).                                                        *)
THEOREM PricesRecent == Spec => []RecentlyAsked
<1>1. CacheInv => RecentlyAsked
  BY DEF CacheInv
<1> QED
  BY <1>1, CacheInvariant, PTL

(* Requests are more than Ttl apart, whatever the answers (data.rs:60-78). *)
THEOREM RequestsSpaced == Spec => OneRequestPerWindow
<1>1. ASSUME CacheInv, [Next]_vars
      PROVE  [lastAsked' # lastAsked => lastAsked' - lastAsked > Ttl]_vars
  <2>1. CASE Ask
    <3>1. request = None /\ ~ Cached(clock) /\ lastAsked' = clock
      BY <2>1 DEF Ask
    <3>2. CASE cache = Empty
      BY <1>1, <3>1, <3>2, PriceCacheAssumption DEF CacheInv, Never
    <3>3. CASE cache # Empty
      BY <1>1, <3>1, <3>3, PriceCacheAssumption DEF CacheInv, Cached
    <3> QED
      BY <3>2, <3>3
  <2>2. CASE ~ Ask
    BY <1>1, <2>2 DEF Next, vars, Tick, Publish, Serve, Begin, LookUp, Receive,
                     NoAsset, GasPriceAtHand, NoGasPrice, AskGasPrice, ReceiveGasPrice,
                     Propose, Finish
  <2> QED
    BY <2>1, <2>2
<1> QED
  BY <1>1, CacheInvariant, PTL DEF Spec, OneRequestPerWindow
-----------------------------------------------------------------------------
(* Types                                                                   *)

(* What is asked for stays the same during a run.                          *)
LEMMA SameRequests ==
  ASSUME prepared' = prepared
  PROVE  Response' = Response /\ Entry' = Entry /\ Request' = Request
<1>1. AssetIds' = AssetIds
  BY DEF AssetIds
<1>2. Response' = Response
  BY <1>1 DEF Response
<1> QED
  BY <1>2 DEF Entry, Request

(* The assets of a target of the run are among those that are asked for.   *)
LEMMA AskedFor ==
  ASSUME TypeOK, Priced
  PROVE  Asset \in AssetIds
<1>1. Chain \in RequiredPriceChains(prepared)
  BY DEF TypeOK, Chain, RequiredPriceChains
<1> QED
  BY <1>1 DEF Priced, Asset, AssetIds

(* The ids of a request are assets.                                        *)
LEMMA IdsAreAssets ==
  ASSUME TypeOK
  PROVE  AssetIds \subseteq Assets
BY PriceCacheAssumption DEF AssetIds

(* A usable response has a time stamp for the asset that is asked for.     *)
LEMMA UsableStamp ==
  ASSUME NEW response \in Response, Usable(response)
  PROVE  response[Asset] \in Time
<1>1. response \in [AssetIds -> Stamp] /\ Asset \in AssetIds
  BY DEF Usable, Response
<1> QED
  BY <1>1 DEF Usable, Stamp

(* Judging a response keeps the types of the proposal.                     *)
LEMMA JudgeTypes ==
  ASSUME TypeOK, NEW response \in Response, NEW asked \in Time, NEW began \in Time,
         step \in Lookups, Judge(response, asked, began)
  PROVE  found' \in [Lookups -> Price \cup {Empty}] /\ step' \in Steps
<1>1. CASE Usable(response)
  <2> DEFINE price == [updated |-> response[Asset], asked |-> asked,
                       began |-> began]
  <2>1. found' = [found EXCEPT ![step] = price] /\ step' = Following(step)
    BY <1>1 DEF Judge
  <2>2. price \in Price
    BY <1>1, UsableStamp DEF Price
  <2> HIDE DEF price
  <2>3. found' \in [Lookups -> Price \cup {Empty}]
    BY <2>1, <2>2 DEF TypeOK
  <2> QED
    BY <2>1, <2>3 DEF Following, Steps
<1>2. CASE ~ Usable(response)
  BY <1>2 DEF Judge, Drop, Nothing, Steps
<1> QED
  BY <1>1, <1>2

(* The initial states are of the types.                                    *)
LEMMA TypesInit == Init => TypeOK
<1> SUFFICES ASSUME Init PROVE TypeOK
  OBVIOUS
<1>1. 0 \in Time
  BY PriceCacheAssumption DEF Time
<1>2. found \in [Lookups -> Price \cup {Empty}]
  BY DEF Init, Nothing
<1> QED
  BY <1>1, <1>2 DEF Init, TypeOK, Stamp, Entry, Request, Steps

(* Every step keeps the types.                                             *)
LEMMA TypesStep == TypeOK /\ CacheInv /\ [Next]_vars => TypeOK'
<1> SUFFICES ASSUME TypeOK, CacheInv, [Next]_vars PROVE TypeOK'
  OBVIOUS
<1>0. prepared' = prepared
  BY DEF vars, Next, Tick, Publish, Serve, Begin, NoAsset, LookUp, Ask, Receive,
         GasPriceAtHand, NoGasPrice, AskGasPrice, ReceiveGasPrice, Propose, Finish
<1> USE <1>0, SameRequests
<1>1. CASE Tick
  <2>1. clock' \in Time
    BY <1>1, PriceCacheAssumption DEF Tick, TypeOK, Time
  <2> QED
    BY <1>1, <2>1 DEF Tick, TypeOK
<1>2. ASSUME NEW a \in Assets, Publish(a) PROVE TypeOK'
  <2>1. published' \in [Assets -> Stamp]
    BY <1>2 DEF Publish, TypeOK, Stamp
  <2> QED
    BY <1>2, <2>1 DEF Publish, TypeOK
<1>3. CASE Serve
  <2>1. request # None /\ request' = [request EXCEPT !.answer = {[a \in AssetIds |-> published[a]]}]
    BY <1>3 DEF Serve
  <2>2. request \in [at : Time, answer : {{}} \cup {{r} : r \in Response}]
    BY <2>1 DEF TypeOK, Request
  <2>3. [a \in AssetIds |-> published[a]] \in Response
    BY IdsAreAssets DEF TypeOK, Response
  <2>4. request' \in Request
    BY <2>1, <2>2, <2>3 DEF Request
  <2> QED
    BY <1>3, <2>4 DEF Serve, TypeOK
<1>4. CASE Begin
  BY <1>4 DEF Begin, TypeOK, Steps
<1>5. CASE LookUp
  <2>1. /\ step \in Lookups /\ request = None /\ cache # Empty
        /\ Judge(cache.response, lastAsked, clock)
        /\ UNCHANGED <<clock, published, cache, request, target, lastAsked>>
    BY <1>5 DEF LookUp, Cached, Priced
  <2>2. cache.response \in Response /\ cache.fetchedAt \in Time
    BY <2>1 DEF TypeOK, Entry
  <2>3. lastAsked \in Time
    BY <2>1, <2>2 DEF CacheInv
  <2>4. found' \in [Lookups -> Price \cup {Empty}] /\ step' \in Steps
    BY <2>1, <2>2, <2>3, JudgeTypes DEF TypeOK
  <2> QED
    BY <2>1, <2>4 DEF TypeOK
<1>6. CASE Ask
  <2>1. request' \in Request
    BY <1>6 DEF Ask, TypeOK, Request
  <2> QED
    BY <1>6, <2>1 DEF Ask, TypeOK
<1>7. CASE Receive
  <2>1. PICK response \in request.answer \cup {Failure} :
          /\ cache' = DatedEntry(response)
          /\ Judge(response, request.at, request.at)
    BY <1>7 DEF Receive
  <2>2. /\ request # None /\ request' = None /\ step \in Lookups
        /\ UNCHANGED <<clock, published, target, lastAsked>>
    BY <1>7 DEF Receive, Priced
  <2>3. request \in [at : Time, answer : {{}} \cup {{r} : r \in Response}]
    BY <2>2 DEF TypeOK, Request
  <2>4. response \in Response /\ request.at \in Time
    BY <2>1, <2>3 DEF Response
  <2>5. cache' \in Entry
    BY <2>1, <2>4 DEF DatedEntry, Entry
  <2>6. found' \in [Lookups -> Price \cup {Empty}] /\ step' \in Steps
    BY <2>1, <2>2, <2>4, JudgeTypes
  <2> QED
    BY <2>2, <2>5, <2>6 DEF TypeOK, Request
<1>8. ASSUME Drop
      PROVE  found' \in [Lookups -> Price \cup {Empty}] /\ step' \in Steps
  BY <1>8 DEF Drop, Nothing, Steps
<1>9. CASE Propose
  <2>1. found' \in [Lookups -> Price \cup {Empty}] /\ step' \in Steps
    BY <1>8, <1>9 DEF Propose, TypeOK, Steps
  <2> QED
    BY <1>9, <2>1 DEF Propose, TypeOK
<1>10. CASE Finish
  BY <1>8, <1>10 DEF Finish, TypeOK
<1>12. CASE NoAsset
  BY <1>8, <1>12 DEF NoAsset, TypeOK
<1>13. CASE GasPriceAtHand
  BY <1>9, <1>13 DEF GasPriceAtHand
<1>14. CASE NoGasPrice
  BY <1>8, <1>14 DEF NoGasPrice, TypeOK
<1>15. CASE AskGasPrice
  BY <1>15 DEF AskGasPrice, TypeOK, Steps
<1>16. CASE ReceiveGasPrice
  BY <1>9, <1>16 DEF ReceiveGasPrice
<1>11. CASE UNCHANGED vars
  BY <1>11 DEF vars, TypeOK
<1> QED
  BY <1>1, <1>2, <1>3, <1>4, <1>5, <1>6, <1>7, <1>10, <1>11, <1>12, <1>13, <1>14,
     <1>15, <1>16 DEF Next

(* Every variable keeps its type: in particular, each price a proposal      *)
(* works with has a time stamp (data.rs:149-153).                          *)
THEOREM CacheTypes == Spec => []TypeOK
BY TypesInit, TypesStep, CacheInvariant, PTL DEF Spec

(* A response serves all targets of the run: the request asked for the     *)
(* asset of every lookup (reconcile.rs:362-374).                           *)
THEOREM RequestsCover == Spec => []ResponseServesAll
<1>1. TypeOK => ResponseServesAll
  <2> SUFFICES ASSUME TypeOK, Priced, cache.response # Failure
               PROVE  Asset \in DOMAIN cache.response
    BY DEF ResponseServesAll
  <2>1. cache.response \in Response
    BY DEF TypeOK, Entry, Response, Empty
  <2>2. cache.response \in [AssetIds -> Stamp]
    BY <2>1 DEF Response
  <2> QED
    BY <2>2, AskedFor
<1> QED
  BY <1>1, CacheTypes, PTL
=============================================================================
