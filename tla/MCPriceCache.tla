---------------------------- MODULE MCPriceCache ----------------------------
(* Instance of PriceCache for TLC: two assets, four chains.                *)
EXTENDS PriceCache, TLC

CONSTANTS tia, eth, celestia, ethereum, arbitrum, lost

MCProtocol == [c \in Chains |-> IF c = celestia THEN "cosmosnative" ELSE "ethereum"]
MCAssetOf == celestia :> tia @@ ethereum :> eth @@ arbitrum :> eth

From(origin, remote, mode) == [origin |-> origin, remote |-> remote, mode |-> mode]

\* A pair in both directions; two chains with one asset, no gas price to be had
\* on one of them; a chain without an asset.
MCPreparations ==
  {{From(celestia, ethereum, "sample"), From(ethereum, celestia, "sample")},
   {From(celestia, arbitrum, "sample"), From(celestia, ethereum, "preserve")},
   {From(arbitrum, ethereum, "preserve"), From(celestia, lost, "sample")}}
=============================================================================
