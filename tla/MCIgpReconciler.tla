-------------------------- MODULE MCIgpReconciler --------------------------
(* Instances of IgpReconciler for TLC: an EVM origin, a Cosmos origin.     *)
EXTENDS IgpReconciler

CONSTANTS p1, p2, evm, cosmos, own, d1, d2, unknown, a1, a2, igpC, ops, other

\* With BPS = 10 and MaxBps = 5 a value may go from 4 to 6 and from 6 to 9 but
\* not from 4 to 9.
MCProtocol == [o \in Origins |-> IF o = evm THEN "ethereum" ELSE "cosmosnative"]
MCDomainOf == [o \in Origins |-> own]
MCDomainOfBoth == [o \in Origins |-> IF o = evm THEN own ELSE d1]
MCHomeEvm == [a \in Oracles |-> evm]
MCHomeCosmos == [a \in Oracles |-> cosmos]
MCHomeBoth == [a \in Oracles |-> IF a = igpC THEN cosmos ELSE evm]
MCIgpOfEvm == [o \in Origins |-> a1]
MCIgpOfCosmos == [o \in Origins |-> igpC]

MCIgpOfBoth == [o \in Origins |-> IF o = evm THEN a1 ELSE igpC]

MCQuotes == {[num |-> n, den |-> 1] : n \in {6, 9}}
MCQuotesCosmos == {[num |-> n, den |-> 1] : n \in {4, 6, 9}}
MCQuotesModes == {[num |-> n, den |-> 1] : n \in {4, 6, 9, 12}}
MCQuotesBothWays == {[num |-> n, den |-> 1] : n \in {2, 6}}

Target(o, domains, mode, profile) ==
  [origin |-> o, enabled |-> TRUE, domains |-> domains,
   gas |-> [mode |-> mode, min |-> 0, max |-> 9], rate |-> [min |-> 0, max |-> 9],
   writeEnabled |-> TRUE,
   method |-> IF o = evm THEN "evm" ELSE "celestia-grpc", signer |-> profile]

MCTargetsEvm == <<Target(evm, <<own, d1>>, "preserve", "evm")>>
MCTargetsModes ==
  <<[Target(evm, <<d1>>, "sample", "evm") EXCEPT !.rate.max = 12],
    [Target(evm, <<>>, "preserve", "evm") EXCEPT !.rate.max = 6, !.writeEnabled = FALSE],
    [Target(evm, <<d2>>, "sample", "evm") EXCEPT !.rate.min = 10],
    [Target(evm, <<d1>>, "sample", "evm") EXCEPT !.enabled = FALSE],
    Target(cosmos, <<>>, "preserve", "cosmos"), Target(cosmos, <<own>>, "sample", "cosmos")>>
MCTargetsCosmos == <<Target(cosmos, <<>>, "preserve", "cosmos")>>

MCSigners ==
  [profile \in {"evm", "cosmos"} |->
     [protocol |-> IF profile = "evm" THEN "ethereum" ELSE "cosmosnative",
      from |-> ops, key |-> ops]]

Request(write, dry, generate, remote) ==
  [write |-> write, dryRun |-> dry, generateOnly |-> generate,
   origin |-> NoOrigin, remote |-> remote, byName |-> FALSE]

MCWrites == {Request(TRUE, FALSE, FALSE, NoDomain)}
MCWritesOne == {Request(TRUE, FALSE, FALSE, r) : r \in {NoDomain, d1}}
MCModes ==
  {[Request(w, d, g, r) EXCEPT !.origin = o] :
     w \in BOOLEAN, d \in BOOLEAN, g \in BOOLEAN, r \in {NoDomain, d1, d2},
     o \in {NoOrigin, cosmos}}
    \cup {[Request(TRUE, FALSE, FALSE, r) EXCEPT !.byName = TRUE] : r \in {d1, unknown}}

ChainWith(oracle, price, rate, account) ==
  [igp |-> [o \in Origins |-> [d \in Domains |-> [oracle |-> oracle, overhead |-> 1]]],
   gasData |-> [a \in Oracles |-> [d \in Domains |->
     [f \in {"gasPrice", "tokenExchangeRate"} |-> IF f = "gasPrice" THEN price ELSE rate]]],
   owner |-> [a \in Oracles |-> account]]

\* The operators run the same program with the same configuration.
MCOperators == Permutations({p1, p2})

MCGenesisEvm == {ChainWith(a1, 4, 4, ops)}
MCGenesisCosmos == {ChainWith(igpC, 4, 4, ops)}
MCGenesisBoth ==
  {[ChainWith(a1, 4, 4, ops) EXCEPT !.igp[cosmos] =
      [d \in Domains |-> [oracle |-> igpC, overhead |-> 1]]]}
=============================================================================
