---------------------------- MODULE MCDiscovery ----------------------------
(* Instances of Discovery for TLC: a Cosmos chain and two EVM chains.      *)
EXTENDS Discovery, TLC

CONSTANTS a, b, c, cel, eth, arb, lost

Plain(kind) == [kind |-> kind]
Chain(name, domain, addresses) ==
  [kind |-> "chain", addresses |-> addresses,
   metadata |-> [name |-> name, domain |-> domain,
                 protocol |-> IF name = cel THEN "cosmosnative" ELSE "ethereum"]]

\* Directory c is the one with surprises: nothing, no chain, a chain like no
\* other, one with a name or a domain that is taken, or one that is broken.
MCSurprises ==
  {Plain(kind) : kind \in {"absent", "file", "bare", "malformed"}}
    \cup {Chain(arb, 3, "missing"), Chain(arb, 3, "malformed"), Chain(arb, 2, "igp"),
          Chain(eth, 3, "igp")}
MCRegistries ==
  {(a :> Chain(cel, 1, "igp")) @@ (b :> Chain(eth, 2, "igp")) @@ (c :> z) : z \in MCSurprises}
    \cup {(a :> Chain(cel, 1, "no_igp")) @@ (b :> Chain(eth, 2, "igp")) @@ (c :> Plain("bare"))}
MCEdits == {Plain("absent"), Chain(arb, 3, "igp"), Chain(eth, 3, "igp"), Chain(arb, 2, "igp")}

Target(origin, domains) == [origin |-> origin, enabled |-> TRUE, domains |-> domains]
MCTargets ==
  <<Target(cel, << >>), Target(eth, <<3, 2, 1, 4>>), Target(arb, << >>),
    Target(cel, <<4, 3>>), [Target(eth, << >>) EXCEPT !.enabled = FALSE]>>

Request(origin, chain, domain) ==
  [origin |-> origin, remoteChain |-> chain, remoteDomain |-> domain]
MCRequests ==
  {Request(NoName, NoName, NoDomain), Request(cel, NoName, NoDomain),
   Request(eth, NoName, NoDomain), Request(lost, NoName, NoDomain),
   Request(NoName, eth, NoDomain), Request(cel, lost, NoDomain), Request(NoName, NoName, 1)}

MCIgps ==
  {[n \in Origins |-> [d \in DomainIds |->
      IF n # cel THEN IF d \in {1, 3} THEN "readable" ELSE "none"
      ELSE IF d \in asked THEN "readable" ELSE "none"]] :
     asked \in {{2}, {1, 3}, {2, 4}}}
=============================================================================
