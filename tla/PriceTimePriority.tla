-------------------------- MODULE PriceTimePriority --------------------------
(***************************************************************************)
(* What the matching engine promises its clients (README.md:156,           *)
(* docs/architecture.md:303-310), without levels, queues, maps or counters *)
(* kept beside the orders: a set of resting orders, each with a rank in    *)
(* time, and at most one incoming order.                                   *)
(*                                                                         *)
(* An incoming order trades with the resting order that is ahead of all    *)
(* others, at the resting order's price, for as long as that price is      *)
(* within its limit.  A resting order keeps its rank when it shrinks; it   *)
(* gets a rank behind everybody's when it grows, and re-enters as an       *)
(* incoming order when its price changes.                                  *)
(***************************************************************************)
EXTENDS Integers, Sequences

CONSTANTS Ids, Prices, MaxQuantity, None

VARIABLES
  book,      \* the resting orders
  incoming,  \* the order being executed, or None
  tape       \* the trades, in the order they happened

auctionVars == <<book, incoming, tape>>

Entries == [id : Ids, side : {"Buy", "Sell"}, type : {"Limit", "Market"},
            price : Prices \cup {0}, rank : Nat, open : 0 .. MaxQuantity]

\* Resting order a is served before resting order b of the same side.
Ahead(a, b) ==
  \/ a.side = "Buy" /\ a.price > b.price
  \/ a.side = "Sell" /\ a.price < b.price
  \/ a.price = b.price /\ a.rank < b.rank

SameSide(m) == {n \in book : n.side = m.side}

\* The resting order m is on the other side and within the limit of o.
Willing(o, m) ==
  /\ m.side # o.side
  /\ \/ o.type = "Market"
     \/ o.side = "Buy" /\ m.price <= o.price
     \/ o.side = "Sell" /\ m.price >= o.price

\* Behind every resting order in time.
Latest(rank) == \A n \in book : n.rank < rank

AuctionInit == book = {} /\ incoming = None /\ tape = <<>>

Arrive ==
  /\ incoming = None
  /\ incoming' # None /\ incoming' \in Entries
  /\ incoming'.open > 0
  /\ \A n \in book : n.id # incoming'.id
  /\ Latest(incoming'.rank)
  /\ UNCHANGED <<book, tape>>

Execute ==
  /\ incoming # None
  /\ incoming.open > 0
  /\ \E m \in book :
       /\ Willing(incoming, m)
       /\ \A n \in SameSide(m) \ {m} : Ahead(m, n)
       /\ LET quantity == IF m.open < incoming.open THEN m.open ELSE incoming.open
              left     == [m EXCEPT !.open = @ - quantity]
          IN
          /\ book' = (book \ {m}) \cup (IF left.open > 0 THEN {left} ELSE {})
          /\ incoming' = [incoming EXCEPT !.open = @ - quantity]
          /\ tape' = Append(tape,
               [buy   |-> IF m.side = "Buy" THEN m.id ELSE incoming.id,
                sell  |-> IF m.side = "Sell" THEN m.id ELSE incoming.id,
                price |-> m.price, quantity |-> quantity])

\* Nothing is left to execute, or nobody is willing: only a limit order rests.
Settle ==
  /\ incoming # None
  /\ incoming.open = 0 \/ \A m \in book : ~Willing(incoming, m)
  /\ book' = IF incoming.open > 0 /\ incoming.type = "Limit"
             THEN book \cup {incoming} ELSE book
  /\ incoming' = None
  /\ UNCHANGED tape

Withdraw ==
  /\ incoming = None
  /\ \E m \in book : book' = book \ {m}
  /\ UNCHANGED <<incoming, tape>>

\* Less, at the same price: the rank is kept.
Shrink ==
  /\ incoming = None
  /\ \E m \in book : \E quantity \in 1 .. (m.open - 1) :
       book' = (book \ {m}) \cup {[m EXCEPT !.open = quantity]}
  /\ UNCHANGED <<incoming, tape>>

\* More, at the same price: behind everybody.
Grow ==
  /\ incoming = None
  /\ \E m \in book : \E n \in book' :
       /\ n.id = m.id
       /\ n = [m EXCEPT !.open = n.open, !.rank = n.rank]
       /\ n.open > m.open
       /\ Latest(n.rank)
       /\ book' = (book \ {m}) \cup {n}
  /\ UNCHANGED <<incoming, tape>>

\* Another price: out of the book and in again.
Reenter ==
  /\ incoming = None
  /\ incoming' # None
  /\ Latest(incoming'.rank)
  /\ \E m \in book :
       /\ book' = book \ {m}
       /\ incoming' = [m EXCEPT !.price = incoming'.price, !.open = incoming'.open,
                                !.rank = incoming'.rank]
  /\ UNCHANGED tape

AuctionNext ==
  \/ Arrive \/ Execute \/ Settle
  \/ Withdraw \/ Shrink \/ Grow \/ Reenter

AuctionSpec == AuctionInit /\ [][AuctionNext]_auctionVars
=============================================================================
