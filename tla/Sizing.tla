------------------------------- MODULE Sizing -------------------------------
(* How much to buy and at which limit: the cash a purchase may cost (risk.py), *)
(* the sizes considered for a contract that lags or whose final value is known *)
(* (strategy.py), and the price ceiling of a seconds entry                     *)
(* (seconds_strategies.py). Cash is in paise, quantities in units; every state *)
(* is one input, and what is decided on it.                                    *)
EXTENDS Integers, FiniteSets, FiniteSetsExt, Functions

CONSTANTS
  Lot, Freeze,                  \* of the contract
  Prices, Quantities,           \* of the asks
  Targets,                      \* what a unit will be worth
  Cash, Caps,                   \* of an allocation
  Bids, Bands,                  \* of a seconds entry
  Brokerage, Rates, Gst, Stamp, Stt,  \* FeeSchedule; a rate is [num, den]
  Rupee, MinimumEdge

Kinds == {"lag", "final", "seconds"}

VARIABLES
  kind, asks, target, remaining, spendable, cap,
  bid, upper,     \* of a seconds entry: the top bid, and the price band, 0 for none
  choice          \* None until decided

vars == <<kind, asks, target, remaining, spendable, cap, bid, upper, choice>>

None == [limit |-> 0, quantity |-> 0, entry |-> 0, edge |-> 0]
FullChild == (Freeze \div Lot) * Lot
InLots(n) == (n \div Lot) * Lot

-----------------------------------------------------------------------------
(* Fees and cash *)

CeilDiv(a, b) == (a + b - 1) \div b

\* FeeSchedule._upper: the part is rounded up, once for every child order.
Part(value, rate, quantum, children) ==
  CeilDiv(value * rate.num, rate.den * quantum) * quantum + (children - 1) * quantum

Common(turnover, children) ==
  LET base == Brokerage * children
              + SumFunctionOnSet([r \in Rates |-> Part(turnover, r, 1, children)], Rates)
  IN base + Part(base, Gst, 1, children)

BuyFees(turnover, children) ==
  Common(turnover, children) + Part(turnover, Stamp, Rupee, children)
SellFees(turnover, children) ==
  Common(turnover, children) + Part(turnover, Stt, Rupee, children)

EntryCash(q, limit, children) == q * limit + BuyFees(q * limit, children)
SaleCash(q, price, children) == q * price - SellFees(q * price, children)

Least(a, b) == IF a < b THEN a ELSE b
Most(a, b) == IF a < b THEN b ELSE a

\* Allocation.permits; a cap of 0 stands for none.
Permits(cash) ==
  cash > 0 /\ cash <= remaining /\ cash <= spendable /\ (cap = 0 \/ cash <= cap)

-----------------------------------------------------------------------------
(* The size of a lag or of a final residual *)

ChildrenOne(q) == 1 \* mutant: the fees of one order
Children(q) == CeilDiv(q, FullChild)

\* ladder_capacity
DepthUpTo(limit) ==
  InLots(SumFunctionOnSet([p \in Prices |-> IF p <= limit THEN asks[p] ELSE 0], Prices))
Available(limit) == Least(DepthUpTo(limit), InLots(Least(remaining, spendable) \div limit))

Entry(q, limit) == EntryCash(q, limit, Children(q))
Edge(q, limit) == SaleCash(q, target, Children(q)) - Entry(q, limit)

\* One turn of the loop; it does nothing once low and high have met.
Halve(ok, i) ==
  LET middle == (i.low + i.high + 1) \div 2
  IN IF i.low >= i.high THEN i
     ELSE IF ok[middle] THEN [i EXCEPT !.low = middle] ELSE [i EXCEPT !.high = middle - 1]
\* The largest n of 0..most for which ok[n], if it holds up to some n: bisection. A turn
\* narrows the interval, so that as many turns as it is wide are enough.
Bisect(ok, most) ==
  LET after[n \in 0..most] ==
        IF n = 0 THEN [low |-> 0, high |-> most] ELSE Halve(ok, after[n - 1])
  IN after[most].low

Maximum(limit) ==
  LET most == Available(limit) \div Lot
  IN Lot * Bisect([n \in 0..most |-> Permits(Entry(n * Lot, limit))], most)

Purchase(q, limit) ==
  [limit |-> limit, quantity |-> q, entry |-> Entry(q, limit), edge |-> Edge(q, limit)]

\* The scores compared: return on the cash, then edge, then size, then the lower
\* limit.
Better(x, y) ==
  LET a == x.edge * y.entry
      b == y.edge * x.entry
  IN \/ a > b
     \/ a = b /\ x.edge > y.edge
     \/ a = b /\ x.edge = y.edge /\ x.quantity > y.quantity
     \/ a = b /\ x.edge = y.edge /\ x.quantity = y.quantity /\ x.limit < y.limit

Offered(limit) == asks[limit] > 0
TopAsk == Min({p \in Prices : Offered(p)})

\* find_opportunity: one lot, all that can be had, and the sizes at which an order
\* is full, or a lot short of it.
Sizes(limit) ==
  LET most == Maximum(limit)
      full == {n * FullChild : n \in 1..Children(most)}
  IN {q \in {Lot, most} \cup full \cup {n - Lot : n \in full} : 0 < q /\ q <= most}

Eligible ==
  IF ~(\E p \in Prices : Offered(p)) \/ asks[TopAsk] < Lot \/ TopAsk + 1 > target THEN {}
  ELSE LET limits == {l \in Prices : Offered(l) /\ l < target}
       IN {x \in UNION {{Purchase(q, l) : q \in Sizes(l)} : l \in limits} :
             Permits(x.entry) /\ x.edge > 0}

\* find_final_opportunity: all that can be had.
FinalChoices ==
  {x \in {Purchase(Maximum(p), p) :
            p \in {l \in Prices : Offered(l) /\ l + 1 <= target /\ Maximum(l) > 0}} :
     x.edge > 0}

-----------------------------------------------------------------------------
(* The ceiling of a seconds entry *)

\* The fees of an exit in three orders are kept back, and the edge must pay for
\* both sides once more.
ExitFees == SellFees(Lot * target, 3)
Ready(price) ==
  LET debit == EntryCash(Lot, price, 1)
      net == Lot * target - ExitFees - debit
  IN /\ remaining > 0 /\ debit + ExitFees <= remaining
     /\ net >= Most(MinimumEdge, BuyFees(Lot * price, 1) + ExitFees)

\* Two ticks above the ask, or the spread if it is wider, within the band; the tick
\* is one.
Lowest == TopAsk + 2
Highest ==
  LET limit == TopAsk + Most(2, TopAsk - bid)
  IN IF upper > 0 THEN Least(limit, upper) ELSE limit

HighestReady ==
  Lowest + Bisect([n \in 0..(Highest - Lowest) |-> Ready(Lowest + n)], Highest - Lowest)

\* entry_assessment: the spread, the depth, the band, and then the highest price
\* that still pays.
Assessment ==
  IF \/ ~(\E p \in Prices : Offered(p))
     \/ asks[TopAsk] < 2 * Lot \/ bid > TopAsk
     \/ Highest < Lowest \/ ~Ready(Lowest)
  THEN {}
  ELSE {[limit |-> HighestReady, quantity |-> Lot,
         entry |-> EntryCash(Lot, HighestReady, 1),
         edge |-> Lot * target - ExitFees - EntryCash(Lot, HighestReady, 1)]}

-----------------------------------------------------------------------------

Init ==
  /\ kind \in Kinds /\ choice = None
  /\ asks \in [Prices -> Quantities]
  /\ target \in Targets
  /\ remaining \in Cash /\ spendable \in Cash /\ cap \in {0} \cup Caps
  /\ IF kind = "seconds" THEN bid \in Bids /\ upper \in {0} \cup Bands ELSE bid = 0 /\ upper = 0
  /\ kind = "seconds" => spendable = remaining /\ cap = 0

\* Nothing to decide.
NoQuestion ==
  /\ kind = "lag" /\ choice = None /\ asks = [p \in Prices |-> 0]
  /\ target = 0 /\ remaining = 0 /\ spendable = 0 /\ cap = 0 /\ bid = 0 /\ upper = 0

\* The best of what there is, if there is any.
Decided(choices) ==
  /\ choice = None
  /\ \E c \in choices : (\A d \in choices \ {c} : Better(c, d)) /\ choice' = c
  /\ UNCHANGED <<kind, asks, target, remaining, spendable, cap, bid, upper>>

Next ==
  \/ kind = "lag" /\ Decided(Eligible)
  \/ kind = "final" /\ Decided(FinalChoices)
  \/ kind = "seconds" /\ Decided(Assessment)

-----------------------------------------------------------------------------
(* What must hold *)

\* Whatever is permitted is no more than what remains.
AllLots == {q \in 1..remaining : q % Lot = 0}
Payable(q, limit) ==
  q <= DepthUpTo(limit) /\ Permits(EntryCash(q, limit, CeilDiv(q, FullChild)))
WithinMeans(c) ==
  /\ c.quantity <= DepthUpTo(c.limit)
  /\ \A k \in 1..CeilDiv(c.quantity, FullChild) : Permits(EntryCash(c.quantity, c.limit, k))
  /\ Permits(EntryCash(Least(c.quantity, FullChild), c.limit, 1))
  /\ SaleCash(c.quantity, target, 1) > c.entry
NothingMissed(c) ==
  \A q \in AllLots :
    Payable(q, c.limit) => q <= IF kind = "lag" THEN Maximum(c.limit) ELSE c.quantity
HighestThatPays(c) == \A p \in Lowest..Highest : Ready(p) <=> p <= c.limit

\* A purchase is what the depth, the allowance and the cash can bear, counting the
\* fees of every child order; the bisection overlooks nothing: no size above what
\* is tried could have been had at that limit, and the seconds ceiling is the
\* highest tick that pays. The first order of it, at most a freeze quantity, can be
\* paid for too (strategy.py 120-191, seconds_strategies.py 75-140).
SizedWithinMeans ==
  choice # None =>
    /\ choice.quantity % Lot = 0 /\ choice.quantity > 0 /\ choice.limit < target
    /\ IF kind = "seconds" THEN HighestThatPays(choice)
       ELSE WithinMeans(choice) /\ NothingMissed(choice)
=============================================================================
