---------------------------- MODULE Candidates ----------------------------
(* Which contract a minute signal buys (DirectionalEngine.candidate) and which  *)
(* a volatility shock buys (select_shock_candidate), and how many lots of it.   *)
(* Every state is one input, and what is decided on it; the fees, which module  *)
(* Sizing has in full, are a brokerage and a part of the turnover.              *)
EXTENDS Integers, FiniteSets, FiniteSetsExt

CONSTANTS
  Contracts,   \* 1..n, at the money first
  Prices, Scenarios,
  Volumes, Depths,     \* in lots, volumes in lots of a twentieth
  Freeze,      \* lots of one order
  Upper,       \* the price band
  Cash,        \* of an allocation
  Brokerage, Share  \* of a turnover, one part in so many

VARIABLES
  signal,   \* "minute" or "shock"
  budget,
  quotes,   \* of each contract
  bought    \* Undecided at first

vars == <<signal, budget, quotes, bought>>

Undecided == [contract |-> -1, quantity |-> 0]
Nothing == [contract |-> 0, quantity |-> 0]
Unknown == -1   \* no minutes
NoAsk == 0      \* no book that is ready

Least(a, b) == IF a < b THEN a ELSE b
CeilDiv(a, b) == (a + b - 1) \div b
Fees(turnover, orders) == orders * Brokerage + CeilDiv(turnover, Share)
EntryCash(q, limit) == q * limit + Fees(q * limit, 1)

-----------------------------------------------------------------------------
(* DirectionalEngine.candidate *)

\* A twentieth above the close, rounded up; the sale may cost what it would at twice
\* the price.
MostPaid(c) == CeilDiv(105 * quotes[c].close, 100)
\* No volume stands for too little of it, or of open interest.
Liquid(c) == quotes[c].volume >= 1
InBand(c) == MostPaid(c) <= Upper
CanPay(c, q) == EntryCash(q, MostPaid(c)) + Fees(q * MostPaid(c) * 2, 3) <= budget

\* A twentieth of the least volume, and what is offered up to the limit.
Capacity(c) ==
  Least(Least(Freeze, quotes[c].volume),
        IF quotes[c].ask <= MostPaid(c) THEN quotes[c].depth ELSE 0)
Quantity(c) == Max({0} \cup {q \in 1..Capacity(c) : \A n \in 1..q : CanPay(c, n)})

\* What the loop makes of a contract: it goes on to the next one, ends without a
\* candidate, or takes it.
Shallow(c) == quotes[c].ask # NoAsk /\ quotes[c].ask <= MostPaid(c) /\ Quantity(c) = 0
PassedBookFirst(c) == \* mutant: a quote must be there before the cash is counted
  /\ quotes[c].volume # Unknown
  /\ ~Liquid(c) \/ ~InBand(c) \/ (quotes[c].ask # NoAsk /\ ~CanPay(c, 1)) \/ Shallow(c)
Passed(c) ==
  /\ quotes[c].volume # Unknown
  /\ ~Liquid(c) \/ ~InBand(c) \/ ~CanPay(c, 1) \/ Shallow(c)
Taken(c) ==
  /\ quotes[c].volume # Unknown /\ Liquid(c) /\ InBand(c) /\ CanPay(c, 1)
  /\ quotes[c].ask # NoAsk /\ Quantity(c) > 0

Candidate ==
  LET reached == {c \in Contracts : \A d \in Contracts : d < c => Passed(d)}
      taken == {c \in reached : ~Passed(c) /\ Taken(c)}
  IN IF taken = {} THEN Nothing
     ELSE [contract |-> Min(taken), quantity |-> Quantity(Min(taken))]

-----------------------------------------------------------------------------
(* select_shock_candidate *)

\* Up to two ticks above the ask, and never 0.4 per cent.
ShockLimit(c) == quotes[c].ask + Least(2, (4 * quotes[c].ask) \div 1000)

\* What is asked up to the limit and what is bid are within what a sale needs.
ShockCapacity(c) == Least(Freeze, Least(quotes[c].depth, quotes[c].bids))
Highest(c) == IF quotes[c].scenario > ShockLimit(c) THEN quotes[c].scenario ELSE ShockLimit(c)
Reserve(c, q) == Fees(q * Highest(c), 3)
Affords(c, q) == EntryCash(q, ShockLimit(c)) + Reserve(c, q) <= budget
ShockQuantity(c) ==
  Max({0} \cup {q \in 1..ShockCapacity(c) : \A n \in 1..q : Affords(c, n)})

Proceeds(c, q) == q * quotes[c].scenario - Fees(q * quotes[c].scenario, 1)
Charges(c, q) == Fees(q * ShockLimit(c), 1) + Fees(q * quotes[c].scenario, 1)
\* The scenario multiplies the cash by 1.8, and its gain is three times the charges.
Pays(c, q) ==
  /\ 10 * Proceeds(c, q) >= 18 * EntryCash(q, ShockLimit(c))
  /\ q * (quotes[c].scenario - ShockLimit(c)) >= 3 * Charges(c, q)
Ending(c, q) == budget - EntryCash(q, ShockLimit(c)) + Proceeds(c, q)

\* The book is fresh, uncrossed and tight, the contract is not about to expire and its
\* volatility is known: without any of them there is no ask.
ShockCandidates ==
  {c \in Contracts : /\ quotes[c].ask # NoAsk /\ ShockLimit(c) <= Upper
                     /\ ShockQuantity(c) > 0 /\ Pays(c, ShockQuantity(c))}
EndsBest(c) ==
  \A d \in ShockCandidates : Ending(d, ShockQuantity(d)) <= Ending(c, ShockQuantity(c))

-----------------------------------------------------------------------------

MinuteQuotes ==
  [volume : Volumes \cup {Unknown}, close : Prices, ask : Prices \cup {NoAsk}, depth : Depths]
ShockQuotes ==
  [ask : Prices \cup {NoAsk}, depth : Depths, bids : Depths, scenario : Scenarios]

Init ==
  /\ signal \in {"minute", "shock"} /\ budget \in Cash /\ bought = Undecided
  /\ quotes \in [Contracts -> IF signal = "minute" THEN MinuteQuotes ELSE ShockQuotes]

\* Nothing to decide.
NoQuestion == signal = "minute" /\ budget = 0 /\ quotes = <<>> /\ bought = Undecided

Next ==
  /\ bought = Undecided
  /\ \/ signal = "minute" /\ bought' = Candidate
     \/ /\ signal = "shock"
        /\ IF ShockCandidates = {} THEN bought' = Nothing
           ELSE \E c \in ShockCandidates :
                  EndsBest(c) /\ bought' = [contract |-> c, quantity |-> ShockQuantity(c)]
  /\ UNCHANGED <<signal, budget, quotes>>

Spec == Init /\ [][Next]_vars

-----------------------------------------------------------------------------
(* What must hold *)

\* Could a lot of it be bought as far as the cash and the exchange go?
Wanted(c) == Liquid(c) /\ InBand(c) /\ CanPay(c, 1)
Buyable(c) ==
  Wanted(c) /\ quotes[c].ask # NoAsk /\ quotes[c].ask <= MostPaid(c) /\ quotes[c].depth > 0

Nearest(b) ==
  /\ b.quantity > 0 =>
       /\ Buyable(b.contract) /\ CanPay(b.contract, b.quantity)
       /\ \A d \in Contracts : d < b.contract =>
            /\ quotes[d].volume # Unknown
            /\ Wanted(d) => quotes[d].depth = 0 /\ quotes[d].ask # NoAsk
  /\ b = Nothing =>
       \A c \in Contracts : Buyable(c) =>
         \E d \in Contracts : d < c /\ (quotes[d].volume = Unknown \/ Wanted(d))
EndsWithMost(b) ==
  \A c \in Contracts : \A q \in 1..Freeze :
    /\ quotes[c].ask # NoAsk /\ ShockLimit(c) <= Upper
    /\ q <= quotes[c].depth /\ q <= quotes[c].bids /\ Affords(c, q) /\ Pays(c, q)
    => b.quantity > 0 /\ Ending(c, q) <= Ending(b.contract, b.quantity)

\* A minute signal takes the contract nearest to the money that can be bought. It
\* hops over one that is too dear or too thin, whatever its quote, but never over
\* one whose minutes or quote are not known or whose limit the market has passed;
\* and nothing else keeps it from a contract that can be bought (directional.py
\* 105-174). All of it can be paid for together with a sale in three orders at twice
\* the limit.
NearestIsTaken == signal = "minute" => Nearest(bought)

\* A shock ends with the most cash that any contract and any quantity of it, within
\* the same limits, would (volatility_shock.py 182-250).
MostIsTaken == signal = "shock" /\ bought # Undecided => EndsWithMost(bought)

CandidateIsRight == NearestIsTaken /\ MostIsTaken
=============================================================================
