----------------------------- MODULE MCHistory -----------------------------
(* A small instance of History for TLC: two funds, three days.             *)
EXTENDS History, TLC

CONSTANTS fundA, fundB, a0, a1, b1, ab

MCHoldings == {fundA, fundB}
MCPurchases == {a0, a1, b1}
MCHoldingOf == a0 :> fundA @@ a1 :> fundA @@ b1 :> fundB
MCDayOf == a0 :> 0 @@ a1 :> 1 @@ b1 :> 1
MCTransfers == {ab}
MCOriginOf == ab :> fundA
MCDestinationOf == ab :> fundB
MCMoveDayOf == ab :> 1

=============================================================================
