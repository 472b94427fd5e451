-------------------------------- MODULE Rates -------------------------------
(* The rate windows of OrderManager._rate_attempt (orders.py): every POST is a *)
(* row of rate_events, and an entry is refused unless what it and the other    *)
(* entries may buy can still be sold inside every window.                      *)
EXTENDS Integers, FiniteSets, FiniteSetsExt, Functions

CONSTANTS
  Windows,     \* records [span, limit]
  Child,       \* lots one sale may carry
  Sizes,       \* lots an entry may ask for
  MaxOrders,   \* bound of intents
  MaxTime      \* bound of the clock

VARIABLES
  now,
  intents,     \* [1..MaxOrders -> record]; an order passed its windows at "at"
  count,       \* number of intents
  held         \* lots of lifecycles that are not closed

vars == <<now, intents, count, held>>

NoIntent == [state |-> "none", side |-> "BUY", lots |-> 0, at |-> 0, filled |-> 0]
Intents == 1..count

Lots(S) == SumFunctionOnSet([i \in S |-> intents[i].lots], S)
Pending(side) == {i \in Intents : intents[i].state = "pending" /\ intents[i].side = side}

\* Rows of rate_events inside a window: aborted intents have none.
Events(w) == {i \in Intents : intents[i].state \in {"pending", "closed"} /\ now - intents[i].at < w.span}
Used(w) == Cardinality(Events(w))

Sales(lots) == (lots + Child - 1) \div Child

PotentialPending(n) == n + Lots(Pending("BUY")) \* mutant
\* The intent itself is pending when the windows are tested.
Potential(n) == n + Lots(Pending("BUY")) + held
Reserve(side, n) == IF side = "BUY" THEN Max({1, Sales(Potential(n))}) ELSE 0

Fits(side, n) == \A w \in Windows : Used(w) + 1 + Reserve(side, n) <= w.limit

Create(side, n) ==
  /\ count < MaxOrders
  /\ count' = count + 1
  /\ intents' = [intents EXCEPT ![count + 1] =
       [state |-> IF Fits(side, n) THEN "pending" ELSE "aborted",
        side |-> side, lots |-> n, at |-> now, filled |-> 0]]
  /\ UNCHANGED <<now, held>>

Buy(n) == n \in Sizes /\ Create("BUY", n)
\* A sale is of what no other sale has asked for, up to a child.
Unreserved == held - Lots(Pending("SELL"))
Sell == Unreserved > 0 /\ Create("SELL", Min({Unreserved, Child}))

\* The order ends and is reconciled; an intent that was never sent ends with nothing.
Resolve(i, n) ==
  /\ i \in Intents /\ intents[i].state = "pending" /\ n \in 0..intents[i].lots
  /\ intents' = [intents EXCEPT ![i].state = "closed", ![i].filled = n]
  /\ held' = IF intents[i].side = "BUY" THEN held + n ELSE held - n
  /\ UNCHANGED <<now, count>>

Tick ==
  /\ now < MaxTime
  /\ now' = now + 1
  /\ UNCHANGED <<intents, count, held>>

Init ==
  /\ now = 0 /\ count = 0 /\ held = 0
  /\ intents = [i \in 1..MaxOrders |-> NoIntent]

Next == (\E n \in Sizes : Buy(n)) \/ Sell \/ Tick
          \/ (\E i \in 1..MaxOrders, n \in 0..Max(Sizes \cup {Child}) : Resolve(i, n))

-----------------------------------------------------------------------------
TypeOK ==
  /\ now \in 0..MaxTime /\ count \in 0..MaxOrders /\ held \in Nat
  /\ intents \in [1..MaxOrders -> [state : {"none", "aborted", "pending", "closed"},
       side : {"BUY", "SELL"}, lots : Nat, at : 0..MaxTime, filled : Nat]]

\* A sale that did not take a whole child off the position has used a place for
\* which an entry reserved none.
Wasted(w) == {i \in Events(w) : intents[i].side = "SELL" /\ intents[i].filled < Child}

\* In every window there is room to sell all that is held or may still be bought,
\* but for the sales that were not filled: no entry takes the place of an exit
\* (orders.py 100-114).
EntriesLeaveRoom ==
  \A w \in Windows : Used(w) + Sales(Potential(0)) <= w.limit + Cardinality(Wasted(w))
=============================================================================
