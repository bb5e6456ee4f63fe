--------------------------- MODULE MCMarketOverview ---------------------------
(***************************************************************************)
(* MarketOverview for TLC.                                                 *)
(***************************************************************************)
EXTENDS MarketOverview

CONSTANTS k1, k2, k3

\* At time 1 the provider has no complete row of k1.
MCSparse == {[key |-> k1, taken |-> 1]}

MCSectors == {{k1, k2}, {k2}}
=============================================================================
