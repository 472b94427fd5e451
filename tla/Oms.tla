-------------------------------- MODULE Oms --------------------------------
(***************************************************************************)
(* The order management core: OrderManager.submit and                      *)
(* OrderManager.reconcile (orders.py) over the SQLite ledger (ledger.py),  *)
(* the account refresh loop that drives reconciliation                     *)
(* (account_refresh.py), and the broker they talk to.                      *)
(*                                                                         *)
(* One security and one trading day.  Every order is an IOC limit order    *)
(* placed for one intent; the quantity of an intent is a set of lots, so   *)
(* that "how much was traded" is a set of lots and a position is a         *)
(* difference of two cardinalities.                                        *)
(*                                                                         *)
(* The process is one asyncio loop: code between two awaits is one action. *)
(* A crash can also fall between two SQLite transactions of such a stretch;*)
(* those crashes are actions of their own.                                 *)
(***************************************************************************)
EXTENDS Integers, FiniteSets

CONSTANTS
  Intents,        \* the order intents the strategy may ever submit
  Lots,           \* the lots of all the intents
  Owner,          \* Owner[l]: the intent lot l belongs to
  Side,           \* Side[i]: "BUY" or "SELL"
  RowsLag,        \* may an order row be older than the order it describes?
  ReportsFilled,  \* does the broker's order row carry filledQty?
  MaxFaults       \* bound: crashes, failed reads and order notifications

ASSUME ConstantsAssumption ==
  /\ IsFiniteSet(Intents)
  /\ IsFiniteSet(Lots)
  /\ Owner \in [Lots -> Intents]
  /\ Side \in [Intents -> {"BUY", "SELL"}]
  /\ RowsLag \in BOOLEAN
  /\ ReportsFilled \in BOOLEAN
  /\ MaxFaults \in Nat

VARIABLES
  wire,     \* POSTs that left the process and that the broker has not seen
  bk,       \* bk[i]: the broker's order for intent i
  traded,   \* the lots executed at the exchange
  led,      \* led[i]: the intent's state in the ledger ("none": no row)
  born,     \* born[i]: rank of i in ORDER BY created_at (0: no row)
  saved,    \* saved[i]: the state in the ledger's orders row
  fills,    \* the lots in the ledger's fills table
  sub,      \* the submit holding order_lock
  rec,      \* the reconcile holding reconcile_lock
  account,  \* the published account snapshot: "stale" unless fresh
  faults    \* faults so far

brokerVars == <<wire, bk, traded>>
ledgerVars == <<led, born, saved, fills>>
vars == <<wire, bk, traded, led, born, saved, fills, sub, rec, account, faults>>

----------------------------------------------------------------------------
(* Vocabulary *)

LotsOf(i)  == {l \in Lots : Owner[l] = i}
Qty(i)     == Cardinality(LotsOf(i))
BuyLots    == {l \in Lots : Side[Owner[l]] = "BUY"}
SellLots   == {l \in Lots : Side[Owner[l]] = "SELL"}

\* TERMINAL of orders.py (EXPIRED behaves as CANCELLED and is folded into it).
Terminal == {"TRADED", "CANCELLED", "REJECTED"}
OrderStates == {"none", "live"} \cup Terminal

\* The intent states pending_intents leaves out.
Closed == {"FILLED", "CANCELLED", "REJECTED", "ABORTED"}
IntentStates ==
  {"none", "PENDING_SEND", "SEND_UNKNOWN", "SENT", "TRADED"} \cup Closed
Pending(i) == led[i] \notin Closed \cup {"none"}
PendingSellLots == {l \in SellLots : Pending(Owner[l])}

\* What GET /positions reports as netQty.
BrokerNet ==
  Cardinality(traded \cap BuyLots) - Cardinality(traded \cap SellLots)

\* An order row as GET /orders reports it.
Rows == [st : OrderStates, n : Nat]
NoRow == [st |-> "none", n |-> 0]
RowOf(i) == [st |-> bk[i], n |-> Cardinality(traded \cap LotsOf(i))]

\* The rows order i has had.  An order the ledger has seen end stays listed.
PastRows(i) ==
  {[st |-> "live", n |-> k] : k \in 0..Cardinality(traded \cap LotsOf(i))}
    \cup (IF saved[i] \in Terminal THEN {} ELSE {NoRow})
ServedRows(i) ==
  {RowOf(i)} \cup (IF RowsLag /\ bk[i] # "none" THEN PastRows(i) ELSE {})
NoRows == [i \in Intents |-> NoRow]

IdleSub == [pc |-> "idle", todo |-> {}, pending |-> 0, held |-> 0]
IdleRec == [pc |-> "idle", stale |-> FALSE, reads |-> {}, rows |-> NoRows,
            trades |-> {}, was |-> [i \in Intents |-> "none"], need |-> {}]
Reads == {"orders", "trades"}

\* Mutant: the published snapshot stays fresh.
AccountChangedNoRefresh ==
  /\ rec' = [rec EXCEPT !.stale = rec.pc # "idle"]
  /\ UNCHANGED account

\* account_changed: bump account_revision and request a refresh.  Only
\* equality of revisions is ever tested, so it is kept as two facts: the
\* revision an active reconcile captured, and the one of the published
\* snapshot, are no longer the ledger's.
AccountChanged ==
  /\ rec' = [rec EXCEPT !.stale = rec.pc # "idle"]
  /\ account' = "stale"

----------------------------------------------------------------------------
(* The broker *)

Accept(i) ==
  /\ i \in wire
  /\ wire' = wire \ {i}
  /\ bk' = [bk EXCEPT ![i] = "live"]
  /\ UNCHANGED <<traded, ledgerVars, sub, rec, account, faults>>

\* The POST is lost, or answered by an error and no order.
Discard(i) ==
  /\ i \in wire
  /\ wire' = wire \ {i}
  /\ UNCHANGED <<bk, traded, ledgerVars, sub, rec, account, faults>>

Trade(l) ==
  /\ bk[Owner[l]] = "live"
  /\ l \notin traded
  /\ traded' = traded \cup {l}
  /\ UNCHANGED <<wire, bk, ledgerVars, sub, rec, account, faults>>

\* An IOC order ends: wholly traded, its remainder cancelled, or rejected.
Finish(i) ==
  /\ bk[i] = "live"
  /\ \E st \in Terminal :
       /\ (st = "TRADED") <=> (LotsOf(i) \subseteq traded)
       /\ st = "REJECTED" => traded \cap LotsOf(i) = {}
       /\ bk' = [bk EXCEPT ![i] = st]
  /\ UNCHANGED <<wire, traded, ledgerVars, sub, rec, account, faults>>

----------------------------------------------------------------------------
(* OrderManager.submit, under order_lock *)

LockFree == sub.pc = "idle"

\* create_intent inserts the row.
Created == {i \in Intents : born[i] # 0}
Insert(i) == born' = [born EXCEPT ![i] = Cardinality(Created) + 1]

\* create_intent, _rate_attempt and record_attempt STARTED committed,
\* account_changed called, the POST on its way.
Dispatch(i) ==
  /\ Insert(i)
  /\ led' = [led EXCEPT ![i] = "SEND_UNKNOWN"]
  /\ wire' = wire \cup {i}
  /\ sub' = [pc |-> "posting", todo |-> {i}, pending |-> 0, held |-> 0]
  /\ AccountChanged

\* No room in a rate window: the new intent is ABORTED and submit raises.
RateAbort(i) ==
  /\ Insert(i)
  /\ led' = [led EXCEPT ![i] = "ABORTED"]
  /\ sub' = IdleSub
  /\ UNCHANGED <<wire, rec, account>>

\* The caller's pre_dispatch passed; a buy has nothing to await first.
SubmitBuy(i) ==
  /\ LockFree
  /\ Side[i] = "BUY" /\ led[i] = "none"
  /\ Dispatch(i) \/ RateAbort(i)
  /\ UNCHANGED <<bk, traded, saved, fills, faults>>

\* A sale adds up the pending sells of the ledger, then awaits positions().
SubmitSell(i) ==
  /\ LockFree
  /\ Side[i] = "SELL" /\ led[i] = "none"
  /\ sub' = [pc |-> "positions", todo |-> {i},
             pending |-> Cardinality(PendingSellLots), held |-> 0]
  /\ UNCHANGED <<brokerVars, ledgerVars, rec, account, faults>>

ServePositions ==
  /\ sub.pc = "positions"
  /\ sub' = [sub EXCEPT !.pc = "held", !.held = BrokerNet]
  /\ UNCHANGED <<brokerVars, ledgerVars, rec, account, faults>>

\* Mutant: pending sells forgotten.
CoversSaleNoPending(i) == Qty(i) <= sub.held
CoversSale(i) == Qty(i) + sub.pending <= sub.held

SellDispatch(i) ==
  /\ sub.pc = "held" /\ i \in sub.todo
  /\ CoversSale(i)
  /\ Dispatch(i) \/ RateAbort(i)
  /\ UNCHANGED <<bk, traded, saved, fills, faults>>

\* "sale exceeds unreserved broker long quantity".
SellRefused(i) ==
  /\ sub.pc = "held" /\ i \in sub.todo
  /\ ~CoversSale(i)
  /\ sub' = IdleSub
  /\ UNCHANGED <<brokerVars, ledgerVars, rec, account, faults>>

\* positions() raised, or the task was cancelled in it.
PositionsFailed ==
  /\ sub.pc = "positions" /\ faults < MaxFaults
  /\ sub' = IdleSub
  /\ faults' = faults + 1
  /\ UNCHANGED <<brokerVars, ledgerVars, rec, account>>

\* The response names the order: attempt ACCEPTED, then record_order with the
\* state the order had when the broker answered.
SubmitAck(i) ==
  /\ sub.pc = "posting" /\ i \in sub.todo
  /\ bk[i] # "none"
  /\ \E st \in {"live", bk[i]} : saved' = [saved EXCEPT ![i] = st]
  /\ led' = [led EXCEPT ![i] = "SENT"]
  /\ sub' = IdleSub
  /\ AccountChanged
  /\ UNCHANGED <<brokerVars, born, fills, faults>>

\* Timeout, HTTP error, cancellation, or a response without orderId: attempt
\* UNKNOWN.  The POST may still be on the wire.
SubmitUnknown(i) ==
  /\ sub.pc = "posting" /\ i \in sub.todo
  /\ led' = [led EXCEPT ![i] = "SEND_UNKNOWN"]
  /\ sub' = IdleSub
  /\ AccountChanged
  /\ UNCHANGED <<brokerVars, born, saved, fills, faults>>

----------------------------------------------------------------------------
(* OrderManager.reconcile, driven by AccountRefresh.run, under              *)
(* reconcile_lock.  Its third read, positions, goes into the snapshot only. *)

RecStart ==
  /\ rec.pc = "idle"
  /\ rec' = [IdleRec EXCEPT !.pc = "reading"]
  /\ UNCHANGED <<brokerVars, ledgerVars, sub, account, faults>>

\* The broker serves the concurrent GETs one by one, in any order.
ServeOrders ==
  /\ rec.pc = "reading" /\ "orders" \notin rec.reads
  /\ \E rows \in [Intents -> UNION {ServedRows(i) : i \in Intents}] :
       /\ \A i \in Intents : rows[i] \in ServedRows(i)
       /\ rec' = [rec EXCEPT !.reads = @ \cup {"orders"}, !.rows = rows]
  /\ UNCHANGED <<brokerVars, ledgerVars, sub, account, faults>>

ServeTrades ==
  /\ rec.pc = "reading" /\ "trades" \notin rec.reads
  /\ rec' = [rec EXCEPT !.reads = @ \cup {"trades"}, !.trades = traded]
  /\ UNCHANGED <<brokerVars, ledgerVars, sub, account, faults>>

\* gather returned: read the intent rows, and list the intents to look up by
\* correlation id because the order book does not show them.
Gather ==
  /\ rec.pc = "reading" /\ rec.reads = Reads
  /\ rec' = [rec EXCEPT !.pc = "ready", !.was = led,
       !.need = {i \in Intents : /\ rec.rows[i].st = "none"
                                 /\ led[i] \notin Closed
                                 /\ led[i] \notin {"none", "PENDING_SEND"}}]
  /\ UNCHANGED <<brokerVars, ledgerVars, sub, account, faults>>

ServeLookup(i) ==
  /\ rec.pc = "ready" /\ i \in rec.need
  /\ \E row \in ServedRows(i) :
       rec' = [rec EXCEPT !.need = @ \ {i}, !.rows[i] = row]
  /\ UNCHANGED <<brokerVars, ledgerVars, sub, account, faults>>

\* A read raised: the batch is dropped and the snapshot is no longer healthy.
ReadFailed ==
  /\ rec.pc # "idle" /\ faults < MaxFaults
  /\ rec' = IdleRec
  /\ account' = "stale"
  /\ faults' = faults + 1
  /\ UNCHANGED <<brokerVars, ledgerVars, sub>>

\* Mutant: the latest answer wins.
SavedAfterLatest(i) ==
  IF rec.rows[i].st = "none" THEN saved[i] ELSE rec.rows[i].st

\* record_order: a terminal order row is never replaced by a live one.
SavedAfter(i) ==
  IF \/ rec.rows[i].st = "none"
     \/ saved[i] \in Terminal /\ rec.rows[i].st \notin Terminal
  THEN saved[i] ELSE rec.rows[i].st

\* The trades of an order row, added by record_fill_once.
Seen(i) == IF rec.rows[i].st = "none" THEN {} ELSE rec.trades \cap LotsOf(i)

FilledAfter(i) == Cardinality((fills \cup Seen(i)) \cap LotsOf(i))

\* Mutant: an order is complete only when all of it was traded.
ExpectedWhole(i) == Qty(i)

Expected(i) ==
  IF ReportsFilled THEN rec.rows[i].n
  ELSE IF SavedAfter(i) = "TRADED" THEN Qty(i) ELSE FilledAfter(i)

\* Mutant: the state of the order row is taken over unconditionally.
LedAfterRaw(i) == IF rec.rows[i].st = "none" THEN led[i] ELSE rec.rows[i].st

\* Mutant: an order that was not found is taken as never sent.
LedAfterBlind(i) ==
  IF rec.rows[i].st = "none"
  THEN IF rec.was[i] \in {"PENDING_SEND", "SEND_UNKNOWN"}
       THEN "ABORTED" ELSE led[i]
  ELSE IF rec.was[i] # "none" /\ SavedAfter(i) \in Terminal
                              /\ FilledAfter(i) >= Expected(i)
       THEN IF FilledAfter(i) = Qty(i) THEN "FILLED" ELSE SavedAfter(i)
       ELSE led[i]

\* A row is closed only when its order ended and all its fills are recorded;
\* an order that was not found is ABORTED only when no attempt was recorded
\* (record_attempt moves the intent out of PENDING_SEND).
LedAfter(i) ==
  IF rec.rows[i].st = "none"
  THEN IF rec.was[i] = "PENDING_SEND" /\ led[i] = "PENDING_SEND"
       THEN "ABORTED" ELSE led[i]
  ELSE IF rec.was[i] # "none" /\ SavedAfter(i) \in Terminal
                              /\ FilledAfter(i) >= Expected(i)
       THEN IF FilledAfter(i) = Qty(i) THEN "FILLED" ELSE SavedAfter(i)
       ELSE led[i]

\* The rows reconcile walks: those it read before the lookups.
Walked == {i \in Intents : rec.was[i] # "none"}

\* The fence: order_lock is free and the revision is the one captured.
Resolved == rec.pc = "ready" /\ rec.need = {}

\* Mutant: no revision fence.
NoFence == TRUE
Fence == ~rec.stale

RecApply ==
  /\ Resolved /\ LockFree /\ Fence
  /\ saved' = [i \in Intents |-> IF i \in Walked THEN SavedAfter(i) ELSE saved[i]]
  /\ fills' = fills \cup UNION {Seen(i) : i \in Walked}
  /\ led' = [i \in Intents |-> IF i \in Walked THEN LedAfter(i) ELSE led[i]]
  /\ rec' = IdleRec
  /\ account' = IF \E i \in Intents : led'[i] \notin Closed \cup {"none"}
                THEN "unresolved" ELSE "clear"
  /\ UNCHANGED <<brokerVars, born, sub, faults>>

\* ReconciliationChanged: discard the batch and read again.
RecChanged ==
  /\ Resolved /\ LockFree /\ ~Fence
  /\ rec' = IdleRec
  /\ account' = "stale"
  /\ UNCHANGED <<brokerVars, ledgerVars, sub, faults>>

----------------------------------------------------------------------------
(* Notifications and crashes *)

\* A new order_event, or the order socket connecting or disconnecting.
Notified ==
  /\ faults < MaxFaults
  /\ faults' = faults + 1
  /\ AccountChanged
  /\ UNCHANGED <<brokerVars, ledgerVars, sub>>

\* The process stops and starts again: memory is lost, the ledger is not.
Restart ==
  /\ faults < MaxFaults
  /\ faults' = faults + 1
  /\ sub' = IdleSub
  /\ rec' = IdleRec
  /\ account' = "stale"

Crash ==
  /\ Restart
  /\ UNCHANGED <<brokerVars, ledgerVars>>

\* Between create_intent and the first record_attempt.
CrashAfterCreate(i) ==
  /\ led[i] = "none"
  /\ \/ Side[i] = "BUY" /\ LockFree
     \/ sub.pc = "held" /\ i \in sub.todo /\ CoversSale(i)
  /\ Restart
  /\ led' = [led EXCEPT ![i] = "PENDING_SEND"]
  /\ Insert(i)
  /\ UNCHANGED <<brokerVars, saved, fills>>

\* Between record_attempt ACCEPTED and record_order.
CrashAfterAccepted(i) ==
  /\ sub.pc = "posting" /\ i \in sub.todo
  /\ bk[i] # "none"
  /\ Restart
  /\ led' = [led EXCEPT ![i] = "SENT"]
  /\ UNCHANGED <<brokerVars, born, saved, fills>>

\* Mutant: the rows are walked newest first.
CrashInApplyNewestFirst(i) ==
  LET done == {j \in Walked : born[j] > born[i]} IN
  /\ Resolved /\ LockFree /\ Fence
  /\ i \in Walked
  /\ Restart
  /\ saved' = [j \in Intents |->
                 IF j \in done \cup {i} THEN SavedAfter(j) ELSE saved[j]]
  /\ \E some \in SUBSET Seen(i) :
       fills' = fills \cup some \cup UNION {Seen(j) : j \in done}
  /\ led' = [j \in Intents |-> IF j \in done THEN LedAfter(j) ELSE led[j]]
  /\ UNCHANGED <<brokerVars, born>>

\* Inside reconcile's loop: the rows created before i are applied, and of row
\* i the order and some of its fills.
CrashInApply(i) ==
  LET done == {j \in Walked : born[j] < born[i]} IN
  /\ Resolved /\ LockFree /\ Fence
  /\ i \in Walked
  /\ Restart
  /\ saved' = [j \in Intents |->
                 IF j \in done \cup {i} THEN SavedAfter(j) ELSE saved[j]]
  /\ \E some \in SUBSET Seen(i) :
       fills' = fills \cup some \cup UNION {Seen(j) : j \in done}
  /\ led' = [j \in Intents |-> IF j \in done THEN LedAfter(j) ELSE led[j]]
  /\ UNCHANGED <<brokerVars, born>>

----------------------------------------------------------------------------
Init ==
  /\ wire = {}
  /\ bk = [i \in Intents |-> "none"]
  /\ traded = {}
  /\ led = [i \in Intents |-> "none"]
  /\ born = [i \in Intents |-> 0]
  /\ saved = [i \in Intents |-> "none"]
  /\ fills = {}
  /\ sub = IdleSub
  /\ rec = IdleRec
  /\ account = "stale"
  /\ faults = 0

BrokerNext ==
  \/ \E i \in Intents : Accept(i) \/ Discard(i) \/ Finish(i)
  \/ \E l \in Lots : Trade(l)

SubmitNext ==
  \/ \E i \in Intents : SubmitBuy(i) \/ SubmitSell(i) \/ SellDispatch(i)
  \/ \E i \in Intents : SellRefused(i) \/ SubmitAck(i) \/ SubmitUnknown(i)
  \/ ServePositions \/ PositionsFailed

RecNext ==
  \/ RecStart \/ ServeOrders \/ ServeTrades \/ Gather
  \/ \E i \in Intents : ServeLookup(i)
  \/ ReadFailed \/ RecApply \/ RecChanged

FaultNext ==
  \/ Notified \/ Crash
  \/ \E i \in Intents :
       CrashAfterCreate(i) \/ CrashAfterAccepted(i) \/ CrashInApply(i)

Next == BrokerNext \/ SubmitNext \/ RecNext \/ FaultNext

Spec == Init /\ [][Next]_vars

\* Weak fairness for what must end: every HTTP call is answered or times out,
\* the broker ends an IOC order, and AccountRefresh.run never stops reading.
\* Strong fairness for taking order_lock, an asyncio.Lock that is first in,
\* first out.  New submissions and faults are never owed.
Fairness ==
  /\ \A i \in Intents :
       /\ WF_vars(Accept(i) \/ Discard(i))
       /\ WF_vars(Finish(i))
       /\ WF_vars(SellDispatch(i) \/ SellRefused(i))
       /\ WF_vars(SubmitAck(i) \/ SubmitUnknown(i))
       /\ WF_vars(ServeLookup(i))
  /\ WF_vars(ServePositions)
  /\ WF_vars(RecStart) /\ WF_vars(ServeOrders) /\ WF_vars(ServeTrades)
  /\ WF_vars(Gather)
  /\ SF_vars(RecApply \/ RecChanged)

FairSpec == Spec /\ Fairness

----------------------------------------------------------------------------
(* Properties *)

TypeOK ==
  /\ wire \subseteq Intents
  /\ bk \in [Intents -> OrderStates]
  /\ traded \subseteq Lots
  /\ led \in [Intents -> IntentStates]
  /\ born \in [Intents -> Nat]
  /\ saved \in [Intents -> OrderStates]
  /\ fills \subseteq Lots
  /\ sub \in [pc : {"idle", "positions", "held", "posting"},
             todo : SUBSET Intents, pending : Nat, held : Int]
  /\ rec \in [pc : {"idle", "reading", "ready"}, stale : BOOLEAN,
             reads : SUBSET Reads, rows : [Intents -> Rows],
             trades : SUBSET Lots, was : [Intents -> IntentStates],
             need : SUBSET Intents]
  /\ account \in {"stale", "unresolved", "clear"}
  /\ faults \in Nat

\* Sale lots that are executed or that the exchange may still execute.
CommittedSells ==
  {l \in SellLots : \/ l \in traded
                    \/ Owner[l] \in wire
                    \/ bk[Owner[l]] = "live"}

\* Whatever the ledger knows, and wherever the process crashed, the exchange
\* can never be left executing a sale of lots that were not bought
\* ("Never permit an exit to sell more than verified remaining long quantity
\* after all pending sells", orders.py 123-128).
NoOversell ==
  Cardinality(CommittedSells) <= Cardinality(traded \cap BuyLots)

\* The order manager implements Exposure: every POST of a sale that leaves the
\* process is one Exposure would allow, although submit decides on a ledger
\* that lags the exchange and on a position read before the POST
\* (orders.py 120-155).
Abstract == INSTANCE Exposure WITH
  bought <- traded \cap BuyLots,
  sold <- traded \cap SellLots,
  reserved <- CommittedSells \ traded
ImplementsExposure == Abstract!Spec

\* An intent leaves pending_intents only when its order has ended at the
\* broker and the ledger holds every one of its fills (orders.py 232-238).
ClosedIsSettled ==
  \A i \in Intents :
    led[i] \in Closed \ {"ABORTED"} =>
      /\ i \notin wire
      /\ bk[i] \in Terminal
      /\ fills \cap LotsOf(i) = traded \cap LotsOf(i)

\* ABORTED frees the reservation of an intent; no POST of it may exist
\* (orders.py 131-135 and 201-206).
AbortedNeverSent ==
  \A i \in Intents : led[i] = "ABORTED" => i \notin wire /\ bk[i] = "none"

\* A fresh snapshot that reports nothing unresolved is the truth about the
\* account although its reads were served at different moments: nothing is in
\* flight and the ledger's fills are the exchange's (account_refresh.py 34-38,
\* orders.py 196-198).
ClearIsTrue ==
  account = "clear" =>
    /\ wire = {} /\ \A i \in Intents : bk[i] # "live"
    /\ fills = traded

\* The ledger never shows more sold than bought, also not after a crash in the
\* middle of reconcile's loop: lifecycle_totals would raise (ledger.py 219).
LedgerNotShort ==
  Cardinality(fills \cap SellLots) <= Cardinality(fills \cap BuyLots)

\* Late, repeated and reordered answers never undo what the ledger has: a
\* terminal order row stays, fills stay, a closed intent stays closed
\* (ledger.py 99-104, orders.py 237).
LedgerNeverForgets ==
  [][/\ fills \subseteq fills'
     /\ \A i \in Intents :
          /\ saved[i] \in Terminal => saved'[i] = saved[i]
          /\ led[i] \in Closed => led'[i] = led[i]]_vars

\* Every order the broker accepted is eventually closed in the ledger, after
\* any loss of responses, crash or failed read.
AcceptedIsResolved ==
  \A i \in Intents : bk[i] # "none" ~> led[i] \in Closed

----------------------------------------------------------------------------
(* The inductive invariant behind the safety properties (see the proof      *)
(* modules).                                                                *)

\* A submit works for one intent, which has no ledger row before its dispatch
\* and is SEND_UNKNOWN while its POST is awaited.
SubmitShape ==
  sub.pc # "idle" =>
    \E i \in Intents :
      /\ sub.todo = {i}
      /\ sub.pc \in {"positions", "held"} => led[i] = "none" /\ Side[i] = "SELL"
      /\ sub.pc = "posting" => led[i] = "SEND_UNKNOWN"

\* Whatever may trade or has traded is an intent the ledger has as sent.
SentIsRecorded ==
  /\ \A i \in Intents :
       /\ i \in wire => bk[i] = "none"
       /\ i \in wire \/ bk[i] # "none" =>
            led[i] \notin {"none", "PENDING_SEND", "ABORTED"}
  /\ \A l \in traded : bk[Owner[l]] # "none"

\* What the process knows of an order is something the order was.
KnownIsTrue ==
  \A i \in Intents :
    /\ saved[i] # "none" => bk[i] # "none"
    /\ saved[i] \in Terminal => bk[i] = saved[i]
    /\ rec.rows[i].st # "none" => bk[i] # "none"
    /\ rec.rows[i].st \in Terminal => bk[i] = rec.rows[i].st

\* Only an order that ended is closed.
ClosedIsEnded ==
  \A i \in Intents : led[i] \in Closed \ {"ABORTED"} => bk[i] \in Terminal

\* The position read covers the sales the ledger does not count as pending.
HeldCovers ==
  /\ sub.pc \in {"positions", "held"} =>
       sub.pending = Cardinality(PendingSellLots)
  /\ sub.pc = "held" =>
       sub.held + Cardinality(CommittedSells \ PendingSellLots)
         <= Cardinality(traded \cap BuyLots)

SafeInv ==
  /\ TypeOK /\ SubmitShape /\ SentIsRecorded /\ KnownIsTrue /\ ClosedIsEnded
  /\ HeldCovers /\ NoOversell

\* The fills the ledger has, and those a reconcile has read, are real.
FillsAreReal == fills \subseteq traded /\ rec.trades \subseteq traded

\* An ended order's row carries its true filled quantity; and when the ledger
\* had the order as ended before the batch, the batch's trades have all its
\* fills, even if its row lags.
BatchIsComplete ==
  /\ rec.pc = "idle" => rec.reads = {}
  /\ rec.pc = "ready" => "trades" \in rec.reads
  /\ \A i \in Intents :
       /\ rec.rows[i].st \in Terminal =>
            rec.rows[i].n = Cardinality(traded \cap LotsOf(i))
       /\ "trades" \in rec.reads /\ ~rec.stale /\ saved[i] \in Terminal =>
            traded \cap LotsOf(i) \subseteq rec.trades

\* Closed in the ledger: all fills known, and the state says which way it
\* ended.
ClosedHasFills ==
  \A i \in Intents :
    /\ led[i] \in Closed \ {"ABORTED"} => traded \cap LotsOf(i) \subseteq fills
    /\ led[i] = "FILLED" => LotsOf(i) \subseteq fills
    /\ led[i] \in {"CANCELLED", "REJECTED"} =>
         saved[i] = led[i] /\ ~(LotsOf(i) \subseteq traded)

ClearIsClosed ==
  account = "clear" => \A i \in Intents : led[i] \in Closed \cup {"none"}

\* An intent whose POST is awaited has no order row yet.
PostingIsNew == sub.pc = "posting" => \A i \in sub.todo : saved[i] = "none"

SettledInv ==
  /\ FillsAreReal /\ BatchIsComplete /\ ClosedHasFills /\ ClearIsClosed
  /\ PostingIsNew

\* The rows in the order reconcile walks them: an intent has a rank from the
\* moment it has a row, and no rank is above the number of rows.
BornInOrder ==
  \A i \in Intents :
    /\ born[i] <= Cardinality(Created)
    /\ born[i] = 0 <=> led[i] = "none"

\* A batch ready to be applied shows the order of each trade it brings that
\* the ledger lacks, or is about to look it up.
BatchShows ==
  rec.pc = "ready" =>
    \A l \in rec.trades \ fills :
      /\ rec.was[Owner[l]] # "none"
      /\ rec.rows[Owner[l]].st # "none" \/ Owner[l] \in rec.need

\* The trades of a set of lots that belong to rows older than rank n.
OlderThan(S, n) == {l \in S : born[Owner[l]] < n}
Ranks == 0..(Cardinality(Intents) + 1)

\* What may come to be recorded as sold, when a batch is applied up to rank j
\* and the exchange is seen up to rank k, is covered by what that leaves
\* recorded as bought.  j and k differ: the batch is older than the exchange.
SoldUpTo(j, k) ==
  (fills \cap SellLots) \cup OlderThan(rec.trades \cap SellLots, j + 1)
    \cup OlderThan(CommittedSells, k + 1)
BoughtBefore(j, k) ==
  (fills \cap BuyLots) \cup OlderThan(rec.trades \cap BuyLots, j)
    \cup OlderThan(traded \cap BuyLots, k)
SalesFollowBuys ==
  \A j, k \in Ranks :
    Cardinality(SoldUpTo(j, k)) <= Cardinality(BoughtBefore(j, k))

WalkInv == BornInOrder /\ BatchShows /\ SalesFollowBuys
=============================================================================
