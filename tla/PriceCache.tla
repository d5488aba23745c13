----------------------------- MODULE PriceCache -----------------------------
(***************************************************************************)
(* The market data of a run: CoinGeckoPriceAdapter and ProtocolGasAdapter  *)
(* (data.rs) and the order in which compute_proposal (policy.rs) uses      *)
(* them.  One adapter serves all targets of a run, one after the other,    *)
(* and asks CoinGecko for the assets of these targets only; a proposal     *)
(* looks up the origin's asset, then the remote's, then the remote's gas   *)
(* price, and time passes during each request.  Of a price the model keeps *)
(* the time stamp last_updated_at, on which its use depends.               *)
(*                                                                         *)
(* The clock is the wall clock in seconds and is not set back.             *)
(***************************************************************************)
EXTENDS Integers

CONSTANTS
    Assets,         \* CoinGecko's ids of the native tokens
    Chains,         \* names of chains
    Protocol,       \* [Chains -> protocol]
    AssetOf,        \* marketData.assets: the asset of some of the chains
    GasPriced,      \* chains with an rpcUrls entry, or a gasPrice on Cosmos
    Preparations,   \* sets of targets that a run may have read and goes on with
    Ttl,            \* cacheTtlSeconds
    StaleAfter,     \* staleAfterSeconds
    MaxClock,       \* bound of the clock
    NoPrice,        \* an asset without a positive price and a time stamp
    Failure         \* a request that failed, or an answer that cannot be read

\* ReconciliationTarget, as far as it decides what is asked of whom.
Target == [origin : Chains, remote : Chains, mode : {"sample", "preserve"}]

ASSUME PriceCacheAssumption ==
    /\ Ttl \in Nat
    /\ StaleAfter \in Nat
    /\ MaxClock \in Nat
    /\ Protocol \in [Chains -> {"ethereum", "cosmosnative"}]
    /\ \E priced \in SUBSET Chains : AssetOf \in [priced -> Assets]
    /\ GasPriced \subseteq Chains
    /\ Preparations \subseteq SUBSET Target
    /\ {} \notin Preparations

VARIABLES
    clock,
    published,      \* at CoinGecko: when each asset was last updated
    cache,          \* CoinGeckoCacheEntry, if any
    request,        \* the request under way: when asked, and the answer, if any
    prepared,       \* the targets of the run
    target,         \* the target a proposal is computed for
    step,           \* where compute_proposal is
    found,          \* the prices it has: see Price
    lastAsked       \* history: when the last request was sent, or Never

vars == <<clock, published, cache, request, prepared, target, step, found, lastAsked>>

Time == 0..MaxClock
Never == -1 - Ttl

\* Mutant of RequiredPriceChains: the remote chains are forgotten.
OriginChains(targets) == {t.origin : t \in targets}

\* The chains whose prices the targets need.
RequiredPriceChains(targets) == UNION {{t.origin, t.remote} : t \in targets}

\* asset_ids: what CoinGecko is asked for.
AssetIds == {AssetOf[c] : c \in RequiredPriceChains(prepared) \cap DOMAIN AssetOf}

Stamp == Time \cup {NoPrice}
Response == [AssetIds -> Stamp] \cup {Failure}

Empty == [fetchedAt |-> Never, response |-> Failure]
Entry == [fetchedAt : Time, response : Response] \cup {Empty}

None == [at |-> Never, answer |-> {}]
Request == [at : Time, answer : {{}} \cup {{r} : r \in Response}] \cup {None}

\* A price handed to the proposal: its time stamp, when it was asked of
\* CoinGecko, and when the lookup that returned it began.
Price == [updated : Time, asked : Time, began : Time]

Steps == {"idle", "origin", "remote", "gas", "sampling", "proposed"}
Lookups == {"origin", "remote"}

TypeOK ==
    /\ clock \in Time
    /\ published \in [Assets -> Stamp]
    /\ cache \in Entry
    /\ request \in Request
    /\ prepared \in Preparations
    /\ target \in prepared
    /\ step \in Steps
    /\ found \in [Lookups -> Price \cup {Empty}]
    /\ lastAsked \in Time \cup {Never}

Nothing == [s \in Lookups |-> Empty]

Init ==
    /\ clock = 0
    /\ published = [a \in Assets |-> 0]
    /\ cache = Empty
    /\ request = None
    /\ prepared \in Preparations
    /\ target \in prepared
    /\ step = "idle"
    /\ found = Nothing
    /\ lastAsked = Never

-----------------------------------------------------------------------------
(* CoinGecko and time                                                      *)

Tick ==
    /\ clock < MaxClock
    /\ clock' = clock + 1
    /\ UNCHANGED <<published, cache, request, prepared, target, step, found, lastAsked>>

\* An asset gets a new price, or has none for a while.
Publish(a) ==
    /\ \E stamp \in {clock, NoPrice} : published' = [published EXCEPT ![a] = stamp]
    /\ UNCHANGED <<clock, cache, request, prepared, target, step, found, lastAsked>>

\* CoinGecko answers with the assets it was asked for; the answer takes its time.
Serve ==
    /\ request # None
    /\ request.answer = {}
    /\ request' = [request EXCEPT !.answer = {[a \in AssetIds |-> published[a]]}]
    /\ UNCHANGED <<clock, published, cache, prepared, target, step, found, lastAsked>>

-----------------------------------------------------------------------------
(* The adapter                                                             *)

Begin ==
    /\ step = "idle"
    /\ target' \in prepared
    /\ step' = "origin"
    /\ UNCHANGED <<clock, published, cache, request, prepared, found, lastAsked>>

Chain == IF step = "origin" THEN target.origin ELSE target.remote
Asset == AssetOf[Chain]
Priced == step \in Lookups /\ Chain \in DOMAIN AssetOf

\* The proposal is over: an error is returned, or it has been decided on.
Drop ==
    /\ step' = "idle"
    /\ found' = Nothing

Following(s) == IF s = "origin" THEN "remote" ELSE "gas"

\* Mutant of Usable: a stale price passes.
PricedAtAll(response) == response # Failure /\ Asset \in DOMAIN response

\* The response has the asset, with a positive price and
\* a time stamp, and it is not stale.
Usable(response) ==
    /\ response # Failure
    /\ Asset \in DOMAIN response
    /\ response[Asset] # NoPrice
    /\ clock - response[Asset] <= StaleAfter

\* What native_token_price_usd does with a response asked for at that time, in
\* a lookup begun at that time.
Judge(response, asked, began) ==
    IF Usable(response)
    THEN /\ found' = [found EXCEPT ![step] =
                        [updated |-> response[Asset], asked |-> asked, began |-> began]]
         /\ step' = Following(step)
    ELSE Drop

Cached(now) == cache # Empty /\ now - cache.fetchedAt <= Ttl

\* marketData has no asset for the chain.
NoAsset ==
    /\ step \in Lookups
    /\ Chain \notin DOMAIN AssetOf
    /\ Drop
    /\ UNCHANGED <<clock, published, cache, request, prepared, target, lastAsked>>

LookUp ==
    /\ Priced
    /\ request = None
    /\ Cached(clock)
    /\ Judge(cache.response, lastAsked, clock)
    /\ UNCHANGED <<clock, published, cache, request, prepared, target, lastAsked>>

Ask ==
    /\ Priced
    /\ request = None
    /\ ~ Cached(clock)
    /\ request' = [at |-> clock, answer |-> {}]
    /\ lastAsked' = clock
    /\ UNCHANGED <<clock, published, cache, prepared, target, step, found>>

\* Mutant of DatedEntry: the time stamp is taken when the answer is there.
DatedOnReceipt(response) == [fetchedAt |-> clock, response |-> response]

\* Mutant of DatedEntry: failures are not kept.
DatedPrices(response) ==
    IF response = Failure THEN cache ELSE [fetchedAt |-> request.at, response |-> response]

\* The entry carries the time before the request; a failure is kept as well.
DatedEntry(response) == [fetchedAt |-> request.at, response |-> response]

Receive ==
    /\ Priced
    /\ request # None
    /\ \E response \in request.answer \cup {Failure} :
         /\ cache' = DatedEntry(response)
         /\ Judge(response, request.at, request.at)
    /\ request' = None
    /\ UNCHANGED <<clock, published, prepared, target, lastAsked>>

\* The proposal is made, or an amount is negative or too large.
Propose ==
    /\ \/ step' = "proposed" /\ UNCHANGED found
       \/ Drop
    /\ UNCHANGED <<clock, published, cache, request, prepared, target, lastAsked>>

\* The gas price on chain stays, or a Cosmos chain's is in the registry.
GasPriceAtHand ==
    /\ step = "gas"
    /\ \/ target.mode = "preserve"
       \/ target.remote \in GasPriced /\ Protocol[target.remote] = "cosmosnative"
    /\ Propose

\* There is nobody to ask, or nothing in the registry.
NoGasPrice ==
    /\ step = "gas"
    /\ target.mode = "sample"
    /\ target.remote \notin GasPriced
    /\ Drop
    /\ UNCHANGED <<clock, published, cache, request, prepared, target, lastAsked>>

\* eth_gasPrice is sent to the remote chain, and answered or not.
AskGasPrice ==
    /\ step = "gas"
    /\ target.mode = "sample"
    /\ target.remote \in GasPriced
    /\ Protocol[target.remote] = "ethereum"
    /\ step' = "sampling"
    /\ UNCHANGED <<clock, published, cache, request, prepared, target, found, lastAsked>>

ReceiveGasPrice == step = "sampling" /\ Propose

\* The proposal is decided on, and the run goes on to its next target.
Finish ==
    /\ step = "proposed"
    /\ Drop
    /\ UNCHANGED <<clock, published, cache, request, prepared, target, lastAsked>>

Next ==
    \/ Tick
    \/ \E a \in Assets : Publish(a)
    \/ Serve \/ Begin \/ NoAsset \/ LookUp \/ Ask \/ Receive
    \/ GasPriceAtHand \/ NoGasPrice \/ AskGasPrice \/ ReceiveGasPrice \/ Finish

Spec == Init /\ [][Next]_vars

-----------------------------------------------------------------------------
(* Properties                                                              *)

\* All lookups of a cache window share one request, failed ones included:
\* requests are sent more than cacheTtlSeconds apart (data.rs:60-78).
OneRequestPerWindow ==
    [][lastAsked' # lastAsked => lastAsked' - lastAsked > Ttl]_vars

\* The price a lookup returns was asked for at most cacheTtlSeconds before the
\* lookup, however long CoinGecko took to answer (data.rs:61-78, 87-95).
RecentlyAsked ==
    \A s \in Lookups :
        found[s] # Empty => found[s].began - found[s].asked <= Ttl

\* The response to the request of one target serves all targets of the run: the
\* asset a lookup is for is among those that were asked for, or the target would
\* fail for want of a price that CoinGecko has (reconcile.rs:362-374,
\* data.rs:97-102).
ResponseServesAll ==
    Priced /\ cache.response # Failure => Asset \in DOMAIN cache.response

\* What SPEC.md:420-421 asks for: no proposal is made from a stale price.
FreshAtProposal ==
    [][step' = "proposed" =>
         \A s \in Lookups : clock - found'[s].updated <= StaleAfter]_step
=============================================================================
