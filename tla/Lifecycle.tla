----------------------------- MODULE Lifecycle -----------------------------
(***************************************************************************)
(* The life of a CAS position: SessionEngine.cycle and _enter (engine.py)  *)
(* with the allocation of capital, the exit latch, the official final      *)
(* value, expiry, settlement cash and closing, over failed calls and       *)
(* restarts of the process.                                                *)
(*                                                                         *)
(* One security on its expiry day (engine.py enters no other expiry), and  *)
(* at most one order at a time: a pending intent stops every cycle.  An    *)
(* order is placed in one step, ends in one step and becomes known in one  *)
(* step, Refresh; module Oms is what lies behind these steps.  Quantities  *)
(* are lots.  cycle holds engine.lock, so there is one cycle; it is a      *)
(* sequence of actions that meet at its awaits, cyc.                       *)
(***************************************************************************)
EXTENDS Integers, FiniteSets, FiniteSetsExt, Functions

CONSTANTS
  Lives,        \* identities of lifecycles
  NoLife,
  Depth,        \* lots offered by one market snapshot
  Child,        \* freeze quantity: the lots one order may carry
  Price,        \* cash reserved for a lot: its worst-case cost
  Costs,        \* what buying a lot may really cost
  Credits,      \* what selling a lot may bring
  Exercise,     \* what a lot brings at expiry
  CashLevels,   \* what funds() may report as spendable
  Capital,      \* mandate.allocated_capital
  Reinvest,     \* mandate.reinvest_realized_profit
  Limit,        \* the 10,000 of lifecycle_ceiling
  DebitCap,     \* mandate.cumulative_entry_debit_cap, of scope "mandate"
  MaxBooks,     \* bound: market snapshots received
  MaxFaults     \* bound: crashes, failures, disconnects, revisions, late fees

ASSUME ConstantsAssumption ==
  /\ IsFiniteSet(Lives) /\ NoLife \notin Lives
  /\ {Depth, Child, Price, Exercise, Capital, Limit, DebitCap,
      MaxBooks, MaxFaults} \subseteq Nat
  /\ Child > 0 /\ Price > 0
  /\ Costs \subseteq 0..Price
  /\ Credits \subseteq Nat /\ CashLevels \subseteq Nat
  /\ Reinvest \in BOOLEAN

VARIABLES
  \* the ledger
  state,     \* state[l]: lifecycles.state, "none" without a row
  bankroll,  \* bankroll[l]: lifecycles.bankroll, frozen at entry
  bought,    \* bought[l]: lots of the buy fills
  gone,      \* gone[l]: lots of the sell fills and settlements
  debit,     \* debit[l]: cash of the buy fills
  credit,    \* credit[l]: cash of the sell fills and settlements
  fees,      \* fees[l]: charges reported beyond the estimate in debit
  posted,    \* posted[l]: the CLOSED_PNL posting
  exit,      \* exit[l]: has "peaks:" of l an exit reason?
  debits,    \* debits[b]: depth_debits of market snapshot b
  final,     \* metadata final:<date>: the values published so far
  disarmed,  \* metadata disarmed
  \* memory
  cyc,       \* the await the cycle is in, and what it captured
  latched,   \* is exit_reason set?
  snap,      \* netQty of the published account snapshot, Stale unless fresh
  up,        \* is the signal connected and its status known?
  market,    \* is the latest market snapshot usable?
  books,     \* market snapshots received; their number is their identity
  \* the broker and the day
  clock,     \* the phase of the session
  order,     \* the pending order
  hold,      \* hold[l]: the lots of l really held
  flow,      \* flow[l]: the cash l really brought
  receipt,   \* receipt[l]: the lots cleared, and does the statement show it?
  faults,
  \* history
  sent       \* sent[b]: lots of the orders decided on snapshot b

rowVars == <<state, bankroll, posted>>
totalVars == <<bought, gone, debit, credit, fees>>
storeVars == <<exit, debits, final, disarmed>>
feedVars == <<up, market, books>>
worldVars == <<clock, order, hold, flow, receipt, faults, sent>>
vars == <<state, bankroll, bought, gone, debit, credit, fees, posted, exit,
          debits, final, disarmed, cyc, latched, snap, up, market, books,
          clock, order, hold, flow, receipt, faults, sent>>

----------------------------------------------------------------------------
(* Vocabulary *)

Books == 1..MaxBooks
Stale == -1
Phases == {"auction", "stopped", "timeexit", "expired"}

NoOrder == [st |-> "none", l |-> NoLife, side |-> "BUY", lots |-> 0,
            filled |-> 0, cash |-> 0]
Buying(l, n) ==
  [NoOrder EXCEPT !.st = "live", !.l = l, !.lots = n]
Selling(l, n) ==
  [NoOrder EXCEPT !.st = "live", !.l = l, !.side = "SELL", !.lots = n]

Idle == [pc |-> "idle", l |-> NoLife, ok |-> FALSE, n |-> 0]

\* lifecycle_totals: quantity, reserved.
Held(l) == bought[l] - gone[l]
Reserved(l) ==
  IF order.st # "none" /\ order.l = l /\ order.side = "BUY"
  THEN order.lots * Price ELSE 0

\* entry_debit and reserved, and what a lifecycle has lost.
Spent(l) == debit[l] + fees[l] + Reserved(l)
Loss(l)  == debit[l] + fees[l] - credit[l]
Losses == [l \in Lives |-> Loss(l)]

\* SessionEngine.active.
Open(l)  == state[l] = "OPEN"
NoneOpen == \A l \in Lives : ~Open(l)

\* netQty of the security, as GET /positions reports it.
BrokerNet == SumFunctionOnSet(hold, Lives)

Pending == order # NoOrder

CallFails ==
  /\ faults < MaxFaults
  /\ faults' = faults + 1

----------------------------------------------------------------------------
(* _allocation and risk.py *)

\* Mutant: realized profit from the cash postings.
PnlPosted == SumFunctionOnSet(posted, {l \in Lives : state[l] = "CLOSED"})

\* Realized profit, from the totals: charges reported after closing count.
Pnl == -SumFunctionOnSet(Losses, {l \in Lives : state[l] = "CLOSED"})

Bankroll(cash) ==
  LET allocation == Capital + (IF Reinvest THEN Pnl ELSE Min({0, Pnl}))
  IN Max({0, Min({allocation, cash})})

Ceiling(b) ==
  IF b <= 0 THEN 0 ELSE IF b < 4 * Limit THEN Min({b, Limit}) ELSE b \div 4

\* Mutant: what partial sales returned may be spent again.
RemainingRecycled(l, b) == Ceiling(b) - Spent(l) + credit[l]
Remaining(l, b) == Ceiling(b) - Spent(l)

\* Mutant: only unresolved lifecycles count.
CapRemainingOpen ==
  DebitCap - SumFunctionOnSet([l \in Lives |-> Spent(l)], {l \in Lives : Open(l)})
CapRemaining == DebitCap - SumFunctionOnSet([l \in Lives |-> Spent(l)], Lives)

Permits(l, b, cash, n) ==
  n * Price <= Min({Remaining(l, b), cash, CapRemaining})

----------------------------------------------------------------------------
(* The cycle.  It returns at once unless the account snapshot is fresh, and *)
(* waits while an intent is pending.                                        *)

\* Mutant: pending intents are not waited for.
CanCyclePending == cyc = Idle /\ snap # Stale
CanCycle == cyc = Idle /\ snap # Stale /\ ~Pending

\* An exception leaves the cycle; the main loop invalidates the account.
Raised ==
  /\ cyc' = Idle
  /\ snap' = Stale

\* Posting an order: account_changed.
Posted(o) ==
  /\ order' = o
  /\ snap' = Stale

\* Mutant: a mismatch with the broker is waited out first.
GoneReconciled(l) == snap = 0 /\ Held(l) = snap
\* The position has gone from the broker, not from the ledger.
Gone(l) == snap = 0 /\ Held(l) > 0

\* Settlement of an expired position: await ledger_report().
SettleStart(l) ==
  /\ CanCycle /\ Open(l)
  /\ clock = "expired" /\ final > 0
  /\ Gone(l)
  /\ cyc' = [Idle EXCEPT !.pc = "report", !.l = l, !.n = Held(l)]
  /\ UNCHANGED <<rowVars, totalVars, storeVars, latched, snap, feedVars,
                 worldVars>>

\* match_settlement: the cash must be that of the whole quantity.  Each lot brings
\* Exercise under every final value, so cash is compared by its lots; what an amount
\* that fits none does, a statement that does not show the receipt does here.
Match(l) == receipt[l].shown /\ receipt[l].lots = cyc.n

SettleMatched(l) ==
  /\ cyc.pc = "report" /\ cyc.l = l
  /\ Match(l)
  /\ cyc' = [cyc EXCEPT !.pc = "cash"]
  /\ UNCHANGED <<rowVars, totalVars, storeVars, latched, snap, feedVars,
                 worldVars>>

SettleUnmatched(l) ==
  /\ cyc.pc = "report" /\ cyc.l = l
  /\ ~Match(l)
  /\ cyc' = Idle
  /\ UNCHANGED <<rowVars, totalVars, storeVars, latched, snap, feedVars,
                 worldVars>>

\* funds() answered: the settlement row, new totals, then closing.
SettleRecord(l) ==
  /\ cyc.pc = "cash" /\ cyc.l = l
  /\ gone' = [gone EXCEPT ![l] = @ + cyc.n]
  /\ credit' = [credit EXCEPT ![l] = @ + cyc.n * Exercise]
  /\ cyc' = [cyc EXCEPT !.pc = "closing", !.n = -Loss(l) + cyc.n * Exercise]
  /\ UNCHANGED <<rowVars, bought, debit, fees, storeVars, latched, snap,
                 feedVars, worldVars>>

\* Nothing is held and nothing pending: await funds() with these totals.
CloseStart(l) ==
  /\ CanCycle /\ Open(l)
  /\ Held(l) = 0 /\ snap = 0
  /\ cyc' = [Idle EXCEPT !.pc = "closing", !.l = l, !.n = -Loss(l)]
  /\ UNCHANGED <<rowVars, totalVars, storeVars, latched, snap, feedVars,
                 worldVars>>

\* One transaction posts the profit and closes the row.  The cycle goes on to
\* an entry; that is EntryStart.
Close(l) ==
  /\ cyc.pc = "closing" /\ cyc.l = l
  /\ posted' = [posted EXCEPT ![l] = cyc.n]
  /\ state' = [state EXCEPT ![l] = "CLOSED"]
  /\ latched' = FALSE
  /\ cyc' = Idle
  /\ UNCHANGED <<bankroll, totalVars, storeVars, snap, feedVars, worldVars>>

\* An open position that the broker reports as the ledger has it.
Managed(l) ==
  /\ CanCycle /\ Open(l)
  /\ Held(l) > 0 /\ snap = Held(l)
  /\ clock # "expired"

\* ExitManager.reduce and OrderManager.submit.  A sale beyond the broker's
\* position, and any other failure before the POST, raises.
Sell(l, n) ==
  \/ /\ n <= BrokerNet
     /\ Posted(Selling(l, n))
     /\ UNCHANGED <<cyc, faults>>
  \/ /\ CallFails
     /\ Raised
     /\ UNCHANGED order

\* With the final value known: sell the slice that brings more than exercise.
SellSlice(l) ==
  /\ Managed(l) /\ final > 0 /\ ~latched /\ market
  /\ \E n \in 1..Min({Held(l), Child}) : Sell(l, n)
  /\ UNCHANGED <<rowVars, totalVars, storeVars, latched, feedVars, clock,
                 hold, flow, receipt, sent>>

ExitAllowed(l) == Managed(l)

\* Some reason to exit, of the market or of MustExit: latched in the ledger
\* and in memory, then all that is held is offered.
Exit(l) ==
  /\ ExitAllowed(l)
  /\ exit' = [exit EXCEPT ![l] = TRUE]
  /\ latched' = TRUE
  /\ Sell(l, Min({Held(l), Child}))
  /\ UNCHANGED <<rowVars, totalVars, debits, final, disarmed, feedVars,
                 clock, hold, flow, receipt, sent>>

\* Mutant: the latch in the ledger is not read back.
MustExitFromMemory(l) ==
  \/ latched
  \/ ~market \/ ~up
  \/ clock = "timeexit"
  \/ clock = "stopped" /\ final = 0

\* The reasons that do not depend on prices.
MustExit(l) ==
  \/ latched \/ exit[l]
  \/ ~market \/ ~up
  \/ clock = "timeexit"
  \/ clock = "stopped" /\ final = 0

----------------------------------------------------------------------------
(* _enter: a new lifecycle, or more lots for an open one *)

InWindow ==
  \/ clock = "auction"
  \/ clock = "stopped" /\ final > 0

PermitEntry == snap # Stale /\ ~disarmed

\* No position: a new lifecycle.  A position with a known final value: more
\* lots when exercise pays more than a sale.  Otherwise only without a reason
\* to exit.
EntryStart(l) ==
  /\ CanCycle /\ PermitEntry
  /\ InWindow /\ up /\ market
  /\ \/ NoneOpen /\ l = NoLife /\ snap = 0
     \/ l \in Lives /\ Managed(l) /\ ((final > 0 /\ ~latched) \/ ~MustExit(l))
  /\ cyc' = [pc |-> "entering", l |-> l, ok |-> TRUE, n |-> 0]
  /\ UNCHANGED <<rowVars, totalVars, storeVars, latched, snap, feedVars,
                 worldVars>>

\* Mutant: the inputs are not looked at again after funds().
InputsAsBefore == market
\* After funds(): status, final value and permission are as before.
InputsUnchanged == cyc.ok /\ PermitEntry /\ market

EntryDropped ==
  /\ cyc.pc = "entering"
  /\ cyc' = Idle
  /\ UNCHANGED <<rowVars, totalVars, storeVars, latched, snap, feedVars,
                 worldVars>>

\* Mutant: depth is debited when a lifecycle is opened only.
DebitDepthOnce(b, l, n) ==
  debits' = [debits EXCEPT ![b] = IF Open(l) THEN @ ELSE @ + n]
DebitDepth(b, l, n) == debits' = [debits EXCEPT ![b] = @ + n]

\* Mutant: depth taken before is forgotten.
DepthLeftAll(b) == Depth
DepthLeft(b) == Depth - debits[b]

\* The lifecycle row and the depth debit are one transaction; then the order
\* is submitted.  current_inputs (the time, here) or the order manager may
\* refuse it, and the row stays.
Enter(l) ==
  /\ cyc.pc = "entering" /\ InputsUnchanged
  /\ IF cyc.l = NoLife THEN state[l] = "none" ELSE l = cyc.l
  /\ \E cash \in CashLevels, n \in 1..Min({Child, DepthLeft(books)}) :
       LET b == IF Open(l) THEN bankroll[l] ELSE Bankroll(cash) IN
       /\ Permits(l, b, cash, n)
       /\ bankroll' = [bankroll EXCEPT ![l] = b]
       /\ DebitDepth(books, l, n)
       /\ \/ /\ InWindow
             /\ Posted(Buying(l, n))
             /\ sent' = [sent EXCEPT ![books] = @ + n]
             /\ UNCHANGED faults
          \/ /\ \/ ~InWindow /\ UNCHANGED faults
                \/ CallFails
             /\ snap' = Stale
             /\ UNCHANGED <<order, sent>>
  /\ state' = [state EXCEPT ![l] = "OPEN"]
  /\ cyc' = Idle
  /\ UNCHANGED <<posted, totalVars, exit, final, disarmed, latched, feedVars,
                 clock, hold, flow, receipt>>

\* A call the cycle awaits fails.
CycleFails ==
  /\ cyc # Idle
  /\ CallFails
  /\ Raised
  /\ UNCHANGED <<rowVars, totalVars, storeVars, latched, feedVars, clock,
                 order, hold, flow, receipt, sent>>

----------------------------------------------------------------------------
(* The account *)

\* A refresh, repeated every few seconds: an order that ended is resolved with
\* its fills; the snapshot is fresh.
Refresh ==
  LET l == order.l IN
  /\ snap # BrokerNet \/ order.st = "ended"
  /\ snap' = BrokerNet
  /\ IF order.st = "ended"
     THEN /\ order' = NoOrder
          /\ IF order.side = "BUY"
             THEN /\ bought' = [bought EXCEPT ![l] = @ + order.filled]
                  /\ debit' = [debit EXCEPT ![l] = @ + order.cash]
                  /\ UNCHANGED <<gone, credit>>
             ELSE /\ gone' = [gone EXCEPT ![l] = @ + order.filled]
                  /\ credit' = [credit EXCEPT ![l] = @ + order.cash]
                  /\ UNCHANGED <<bought, debit>>
     ELSE UNCHANGED <<bought, gone, debit, credit, order>>
  /\ UNCHANGED <<rowVars, fees, storeVars, cyc, latched, feedVars, clock,
                 hold, flow, receipt, faults, sent>>

\* The snapshot ages, or an order event invalidates it.
Age ==
  /\ snap # Stale
  /\ snap' = Stale
  /\ UNCHANGED <<rowVars, totalVars, storeVars, cyc, latched, feedVars,
                 worldVars>>

\* The broker reports higher charges for a fill, at any time.
LateCharge(l) ==
  /\ bought[l] > 0
  /\ CallFails
  /\ fees' = [fees EXCEPT ![l] = @ + 1]
  /\ UNCHANGED <<rowVars, bought, gone, debit, credit, storeVars, cyc,
                 latched, snap, feedVars, clock, order, hold, flow, receipt,
                 sent>>

----------------------------------------------------------------------------
(* The broker *)

\* An IOC order ends with some of its lots traded.
End ==
  /\ order.st = "live"
  /\ \E n \in 0..order.lots,
        c \in IF order.side = "BUY" THEN Costs ELSE Credits :
       LET sign == IF order.side = "BUY" THEN 1 ELSE -1 IN
       /\ order' = [order EXCEPT !.st = "ended", !.filled = n, !.cash = n * c]
       /\ hold' = [hold EXCEPT ![order.l] = @ + sign * n]
       /\ flow' = [flow EXCEPT ![order.l] = @ - sign * n * c]
  /\ UNCHANGED <<rowVars, totalVars, storeVars, cyc, latched, snap, feedVars,
                 clock, receipt, faults, sent>>

\* The POST never arrives and the order is never found: it stays pending.
Lose ==
  /\ order.st = "live"
  /\ CallFails
  /\ order' = [order EXCEPT !.st = "lost"]
  /\ UNCHANGED <<rowVars, totalVars, storeVars, cyc, latched, snap, feedVars,
                 clock, hold, flow, receipt, sent>>

\* Clearing: the position disappears.
Clear(l) ==
  /\ clock = "expired" /\ order.st # "live"
  /\ hold[l] > 0
  /\ hold' = [hold EXCEPT ![l] = 0]
  /\ flow' = [flow EXCEPT ![l] = @ + hold[l] * Exercise]
  /\ receipt' = [receipt EXCEPT ![l].lots = hold[l]]
  /\ UNCHANGED <<rowVars, totalVars, storeVars, cyc, latched, snap, feedVars,
                 clock, order, faults, sent>>

\* Later, the statement shows the cash.
Show(l) ==
  /\ receipt[l].lots > 0 /\ ~receipt[l].shown
  /\ receipt' = [receipt EXCEPT ![l].shown = TRUE]
  /\ UNCHANGED <<rowVars, totalVars, storeVars, cyc, latched, snap, feedVars,
                 clock, order, hold, flow, faults, sent>>

----------------------------------------------------------------------------
(* Feeds, the clock, the final value, restarts *)

\* The status the cycle in progress admitted is no longer the status.
StatusChanged == cyc' = [cyc EXCEPT !.ok = FALSE]

SignalLost ==
  /\ up /\ CallFails
  /\ up' = FALSE
  /\ StatusChanged
  /\ UNCHANGED <<rowVars, totalVars, storeVars, latched, snap, market, books,
                 clock, order, hold, flow, receipt, sent>>

SignalUp ==
  /\ ~up
  /\ up' = TRUE
  /\ StatusChanged
  /\ UNCHANGED <<rowVars, totalVars, storeVars, latched, snap, market, books,
                 worldVars>>

MarketLost ==
  /\ market /\ CallFails
  /\ market' = FALSE
  /\ UNCHANGED <<rowVars, totalVars, storeVars, cyc, latched, snap, up, books,
                 clock, order, hold, flow, receipt, sent>>

NewBook ==
  /\ books < MaxBooks
  /\ books' = books + 1
  /\ market' = TRUE
  /\ UNCHANGED <<rowVars, totalVars, storeVars, cyc, latched, snap, up,
                 worldVars>>

\* Collection stops (a status), 15:38:30 to 15:39, 15:40.
Tick ==
  /\ \/ clock = "auction" /\ clock' = "stopped" /\ StatusChanged
     \/ clock = "stopped" /\ clock' = "timeexit" /\ UNCHANGED cyc
     \/ clock = "timeexit" /\ clock' = "expired" /\ UNCHANGED cyc
  /\ UNCHANGED <<rowVars, totalVars, storeVars, latched, snap, feedVars,
                 order, hold, flow, receipt, faults, sent>>

\* on_final, after collection stopped, or on a day after the expiry.  A
\* second, different value disarms and latches.
OnFinal ==
  /\ clock # "auction" /\ (up \/ clock = "expired") /\ final < 2
  /\ final' = final + 1
  /\ StatusChanged
  /\ IF final = 0
     THEN UNCHANGED <<disarmed, latched, faults>>
     ELSE CallFails /\ disarmed' = TRUE /\ latched' = TRUE
  /\ UNCHANGED <<rowVars, totalVars, exit, debits, snap, feedVars, clock,
                 order, hold, flow, receipt, sent>>

\* The process stops and starts again; the final value is restored.
Crash ==
  /\ CallFails
  /\ Raised
  /\ latched' = FALSE
  /\ up' = FALSE /\ market' = FALSE
  /\ UNCHANGED <<rowVars, totalVars, storeVars, books, clock, order, hold,
                 flow, receipt, sent>>

----------------------------------------------------------------------------
Zeros == [l \in Lives |-> 0]

Init ==
  /\ state = [l \in Lives |-> "none"]
  /\ bankroll = Zeros /\ posted = Zeros
  /\ bought = Zeros /\ gone = Zeros
  /\ debit = Zeros /\ credit = Zeros /\ fees = Zeros
  /\ exit = [l \in Lives |-> FALSE]
  /\ debits = [b \in Books |-> 0]
  /\ final = 0 /\ disarmed = FALSE
  /\ cyc = Idle /\ latched = FALSE /\ snap = Stale
  /\ up = FALSE /\ market = FALSE /\ books = 0
  /\ clock = "auction" /\ order = NoOrder
  /\ hold = Zeros /\ flow = Zeros
  /\ receipt = [l \in Lives |-> [lots |-> 0, shown |-> FALSE]]
  /\ faults = 0
  /\ sent = [b \in Books |-> 0]

SettleNext ==
  \E l \in Lives : \/ SettleStart(l) \/ SettleMatched(l) \/ SettleUnmatched(l)
                   \/ SettleRecord(l) \/ CloseStart(l) \/ Close(l)
ExitNext == \E l \in Lives : SellSlice(l) \/ Exit(l)
EntryNext ==
  \/ \E l \in Lives \cup {NoLife} : EntryStart(l)
  \/ \E l \in Lives : Enter(l)
  \/ EntryDropped
AccountNext ==
  Refresh \/ Age \/ (\E l \in Lives : LateCharge(l)) \/ CycleFails
BrokerNext == End \/ Lose \/ (\E l \in Lives : Clear(l) \/ Show(l))
OutsideNext ==
  SignalLost \/ SignalUp \/ MarketLost \/ NewBook \/ Tick \/ OnFinal \/ Crash

Next ==
  \/ SettleNext \/ ExitNext \/ EntryNext
  \/ AccountNext \/ BrokerNext \/ OutsideNext

Spec == Init /\ [][Next]_vars

----------------------------------------------------------------------------
(* Properties *)

Cycles == [pc : {"idle", "report", "cash", "closing", "entering"},
           l : Lives \cup {NoLife}, ok : BOOLEAN, n : Int]
Orders == [st : {"none", "live", "ended", "lost"}, l : Lives \cup {NoLife},
           side : {"BUY", "SELL"}, lots : Nat, filled : Nat, cash : Nat]
Receipts == [lots : Nat, shown : BOOLEAN]

\* The types; the ledger is never short and a snapshot's depth is not exceeded
\* in the books (lifecycle_totals, _enter).
TypeOK ==
  /\ state \in [Lives -> {"none", "OPEN", "CLOSED"}] /\ exit \in [Lives -> BOOLEAN]
  /\ bankroll \in [Lives -> Nat] /\ posted \in [Lives -> Int]
  /\ bought \in [Lives -> Nat] /\ gone \in [Lives -> Nat]
  /\ debit \in [Lives -> Nat] /\ credit \in [Lives -> Nat] /\ fees \in [Lives -> Nat]
  /\ hold \in [Lives -> Nat] /\ flow \in [Lives -> Int] /\ receipt \in [Lives -> Receipts]
  /\ \A l \in Lives : Held(l) >= 0
  /\ debits \in [Books -> 0..Depth] /\ sent \in [Books -> Nat]
  /\ final \in 0..2 /\ disarmed \in BOOLEAN /\ latched \in BOOLEAN
  /\ up \in BOOLEAN /\ market \in BOOLEAN /\ books \in 0..MaxBooks
  /\ cyc \in Cycles /\ snap \in Nat \cup {Stale} /\ clock \in Phases
  /\ order \in Orders /\ faults \in 0..MaxFaults

\* A closed lifecycle is over at the broker too: nothing is held or on order,
\* and what was posted is the cash it really brought, up to the charges
\* (cycle reads totals, awaits funds(), and closes; the settlement is counted
\* once).
ClosedIsOver ==
  \A l \in Lives : state[l] = "CLOSED" =>
    /\ hold[l] = 0 /\ Held(l) = 0
    /\ order.l # l
    /\ flow[l] - fees[l] <= posted[l] /\ posted[l] <= flow[l]

\* However many purchases are made, and whatever partial sales return: those of a
\* lifecycle stay within the ceiling of its frozen bankroll, all of them within
\* the mandate's cumulative cap, and the depth shown by one market snapshot is not
\* bought twice, refused dispatches included.
PurchasesWithinBounds ==
  /\ \A l \in Lives : debit[l] + Reserved(l) <= Ceiling(bankroll[l])
  /\ SumFunctionOnSet([l \in Lives |-> debit[l] + Reserved(l)], Lives) <= DebitCap
  /\ \A b \in Books : sent[b] <= Depth

\* When a lifecycle is opened, the losses of all the others with the cash its
\* order reserves do not exceed the allocated capital: charges that arrived
\* after a close have reduced the bankroll.
OpensWithinCapital ==
  \A l \in Lives : state[l] = "none" /\ state'[l] = "OPEN" =>
    SumFunctionOnSet(Losses', Lives) + Reserved(l)' <= Capital

\* A position that is being exited is not added to: not while exit_reason is
\* set, nor when the ledger has the exit, unless the official value is known.
\* (Once it is, a restarted engine looks at exit_reason only, engine.py
\* 292-300.)
NotEnlarged ==
  \A l \in Lives :
    order = NoOrder /\ order'.st = "live" /\ order'.l = l /\ order'.side = "BUY"
    => ~latched /\ (exit[l] => final > 0)

\* What is bought keeps to the capital, and no exit is bought against.
CapitalIsGuarded == [][OpensWithinCapital /\ NotEnlarged]_vars

----------------------------------------------------------------------------
(* Liveness.  The main loop runs a cycle at every wake-up and the refresh   *)
(* loop wakes it with a fresh snapshot; calls end (timeouts), failures are  *)
(* faults.  Clearing follows expiry, the final value is polled for.         *)

Fairness ==
  /\ WF_vars(Refresh) /\ WF_vars(End)
  /\ \A l \in Lives :
       /\ WF_vars(Clear(l)) /\ WF_vars(Show(l))
       /\ SF_vars(Exit(l) /\ MustExit(l))
       /\ SF_vars(SettleStart(l)) /\ SF_vars(CloseStart(l))
       /\ WF_vars(SettleMatched(l)) /\ WF_vars(SettleUnmatched(l))
       /\ WF_vars(SettleRecord(l)) /\ WF_vars(Close(l))
  /\ WF_vars(EntryDropped)

FairSpec == Spec /\ Fairness

Lost == order.st = "lost"

\* A position that expired with a known official value is settled and closed,
\* whatever was in flight, unless an order is lost.
ExpiredIsClosed ==
  \A l \in Lives :
    Open(l) /\ clock = "expired" /\ final > 0 ~> state[l] = "CLOSED" \/ Lost

\* An exit, once latched, is offered again after every partial or empty fill,
\* failure or restart, with or without a signal or a book.
ExitIsRetried ==
  \A l \in Lives :
    Open(l) /\ exit[l] /\ hold[l] > 0
      ~> \/ order.side = "SELL" /\ Pending
         \/ clock = "expired" \/ final > 0 \/ Lost

\* Every position ends, before its expiry or with it (engine.py 226-305).
PositionsEnd == ExpiredIsClosed /\ ExitIsRetried
=============================================================================
