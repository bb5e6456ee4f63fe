--------------------------- MODULE MCMatchingEngine ---------------------------
(***************************************************************************)
(* Instances of MatchingEngine for TLC.                                    *)
(***************************************************************************)
EXTENDS MatchingEngine, TLC

CONSTANTS RequestQuantities, Sizes

Request(i, side, type, price, quantity) ==
  [id |-> i, side |-> side, type |-> type, price |-> price, quantity |-> quantity]

Malformed(i) ==
  LET p == CHOOSE p \in Prices : TRUE IN
  {Request(ZeroId, "Buy", "Limit", p, 1), Request(i, "Invalid", "Limit", p, 1),
   Request(i, "Buy", "Invalid", p, 1), Request(i, "Buy", "Limit", p, 0),
   Request(i, "Buy", "Limit", None, 1), Request(i, "Buy", "Limit", 0, 1),
   Request(i, "Buy", "Market", p, 1)}

\* Well-formed submits, and one malformed request of each kind.
MCRequests ==
  [id : Ids, side : Sides, type : {"Limit"}, price : Prices, quantity : RequestQuantities]
  \cup [id : Ids, side : Sides, type : {"Market"}, price : {None}, quantity : RequestQuantities]
  \cup UNION {Malformed(i) : i \in Ids}

MCModifyRequests == [price : Prices \cup {None}, quantity : Sizes \cup {None}]
                    \cup {[price |-> 0, quantity |-> None], [price |-> None, quantity |-> 0]}

Symmetry == Permutations(Ids)
=============================================================================
