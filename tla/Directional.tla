---------------------------- MODULE Directional ----------------------------
(* The owner of directional positions: directional.py with its two adapters    *)
(* shock_engine.py and seconds_engine.py. Evaluations arrive from the input    *)
(* worker at any time; the main loop enters, manages and closes one position,  *)
(* and awaits funds() in between. Time is counted in ticks of half a minute,   *)
(* so that a minute evaluation is due two ticks later and stays due for one.   *)
(* One trading day, one contract; orders are placed, end and are reconciled in *)
(* three steps (module Oms is what lies behind them).                          *)
EXTENDS Integers, FiniteSets

CONSTANTS
  Keys,        \* what directional-signal:<day>:<strategy>[:<episode>] can name
  Kind,        \* [Keys -> {"minute", "rebound", "seconds", "shock"}]
  Family,      \* [Keys -> the family an entry consumes]
  Bucket,      \* [Keys -> the tick in which a seconds episode lives]
  ExitAt,      \* [Keys -> the tick of TIME_EXIT]
  Configs,     \* <<enabled keys, tick at which the contract expires>>
  Carried,     \* the key of a position carried over from yesterday
  MaxLives,    \* bound of the lifecycle rows
  Lots,        \* lots an entry may ask for
  Child,       \* lots one sale may carry (freeze quantity)
  NetLevels,   \* levels of the net liquidation profit, naturals on a scale of their own
  Arm,         \* the profit at which the floor is armed
  Stop,        \* the loss at which the premium stop of a shock binds
  Cooldown,    \* ticks between the end of a shock position and the next entry
  MaxTime,     \* bound of the clock
  MaxFaults,   \* bound of crashes, failed calls, failed inputs and disconnects
  None         \* no key, no lifecycle

\* The rows of a family and of an episode carry the day: yesterday's position
\* shares its family with no key of today.
ASSUME ConstantsAssumption ==
  /\ Kind \in [Keys -> {"minute", "rebound", "seconds", "shock"}]
  /\ DOMAIN Family = Keys
  /\ Bucket \in [Keys -> Nat] /\ ExitAt \in [Keys -> Nat]
  /\ Configs \subseteq (SUBSET Keys) \X Nat
  /\ Carried \in Keys
  /\ \A c \in Configs, k \in Keys : k \in c[1] => Family[k] # Family[Carried]
  /\ MaxLives \in Nat \ {0} /\ {Child, MaxTime, MaxFaults} \subseteq Nat
  /\ Lots \subseteq Nat /\ NetLevels \subseteq Nat
  /\ {Arm, Stop} \subseteq Int
  /\ None \notin Keys /\ None \notin 1..MaxLives

VARIABLES
  clock, expiry, enabled, faults,
  \* ledger
  recorded,    \* tick of the evaluation kept in directional-signal / shock-first
  consumed,    \* keys with a :consumed row
  families,    \* families with a directional-family row
  bar,         \* shock-episode: the last completed bar
  life,        \* lifecycles and their totals
  exit,        \* directional-exit: the tick from which the exit is due
  guard,       \* profit-exit / shock-exit: the ratchet
  reboundExited, lastClosed,
  \* memory
  signals,     \* DirectionalEngine.signals
  samples,     \* SecondsEngine.evaluations that are signals now
  sample,      \* ShockEngine.sample
  inputs,      \* "none", "ok" or "bad" (an error)
  feed,        \* the signal, market and future sockets
  fresh,       \* AccountRefresh.fresh
  cyc,         \* the await the main loop is in
  \* broker
  hold, order,
  \* history, read by properties only
  first,       \* tick at which a signal was first evaluated
  dropped,     \* episodes that were held when a feed dropped
  best, breached, closedAt

ledgerVars == <<recorded, consumed, families, bar, life, exit, guard, reboundExited, lastClosed>>
memory == <<signals, samples, sample, inputs, feed, fresh, cyc>>
broker == <<hold, order>>
history == <<first, dropped, best, breached, closedAt>>
world == <<clock, expiry, enabled, faults>>
vars == <<world, ledgerVars, memory, broker, history>>

Time == 0..MaxTime
Lives == 1..MaxLives
Minutes == {t \in Time : t % 2 = 0}
NoTime == -1
MaybeTime == Time \cup {NoTime}
NoQuote == -1
NoGuard == [peak |-> NoQuote, triggered |-> FALSE]
NoBar == [at |-> NoTime, qualifying |-> FALSE, key |-> None, conflicted |-> FALSE]
NoLife == [state |-> "NONE", key |-> None, bought |-> 0, sold |-> 0]
NoOrder == [state |-> "none", side |-> "BUY", life |-> None, lots |-> 0, filled |-> 0]
Idle == [at |-> "idle", now |-> 0, keys |-> {}, life |-> None]

-----------------------------------------------------------------------------
(* What the ledger and the inputs say *)

Held(l) == life[l].bought - life[l].sold
Active == {l \in Lives : life[l].state = "OPEN"}
Sole == \E k \in enabled : Kind[k] = "shock"

InputReady == inputs = "ok"
SecondsReady == inputs # "none" /\ feed
Ready(k) == IF Kind[k] = "seconds" THEN SecondsReady ELSE InputReady

\* A seconds evaluation is of the moment it is read, the others of their bar.
Evaluated(k, now) == IF Kind[k] = "seconds" THEN now ELSE recorded[k]
DueAt(k, now) == IF Kind[k] \in {"minute", "rebound"} THEN recorded[k] + 2 ELSE Evaluated(k, now)
\* The ticks in which an entry on an evaluation of tick e may be dispatched.
Window(k, e) ==
  CASE Kind[k] \in {"minute", "rebound"} -> {e + 2}
    [] Kind[k] = "seconds" -> {e}
    [] Kind[k] = "shock" -> {e, e + 1}

FamilyKeyPerStrategy(k) == k \* mutant
FamilyKey(k) == Family[k]

Unconsumed == {k \in (signals \cup samples) \cap enabled :
                 Ready(k) /\ k \notin consumed /\ FamilyKey(k) \notin families}
Blocked(k) == Kind[k] = "rebound" /\ reboundExited
Missed(now) == {k \in Unconsumed : now > DueAt(k, now) \/ (now = DueAt(k, now) /\ Blocked(k))}
Due(now) == {k \in Unconsumed : now = DueAt(k, now) /\ ~Blocked(k)}

\* A shock signal is valid: ShockEngine.valid.
Valid(k) ==
  /\ InputReady /\ feed
  /\ sample = k
  /\ clock \in Window(k, recorded[k])

\* Nothing is open, in flight or held: the head of both enter_locked.
MayEnter ==
  /\ cyc.at = "idle" /\ fresh
  /\ Active = {} /\ order.state = "none" /\ hold = 0

Fault == faults < MaxFaults /\ faults' = faults + 1

-----------------------------------------------------------------------------
(* Evaluations: DirectionalEngine.update and ShockEngine.update *)

\* The first evaluation of a minute strategy is kept; another one is ignored.
Keeps(k, e) == recorded[k] \in {NoTime, e}

UpdateMinute(k, e) ==
  /\ k \in enabled /\ Kind[k] \in {"minute", "rebound"}
  /\ e <= clock /\ clock - e <= 3
  /\ inputs' = "ok"
  /\ first' = [first EXCEPT ![k] = IF @ = NoTime THEN e ELSE @]
  /\ IF k \notin signals /\ Keeps(k, e)
     THEN signals' = signals \cup {k} /\ recorded' = [recorded EXCEPT ![k] = e]
     ELSE UNCHANGED <<signals, recorded>>
  /\ UNCHANGED <<world, consumed, families, bar, life, exit, guard, reboundExited, lastClosed,
                 samples, sample, feed, fresh, cyc, broker, dropped, best, breached, closedAt>>

\* The tape of quotes projects a signal; it lives in its bucket only.
TapeSignals(k) ==
  /\ k \in enabled /\ Kind[k] = "seconds" /\ k \notin samples
  /\ clock = Bucket[k] /\ SecondsReady
  /\ samples' = samples \cup {k}
  /\ first' = [first EXCEPT ![k] = IF @ = NoTime THEN clock ELSE @]
  /\ UNCHANGED <<world, ledgerVars, signals, sample, inputs, feed, fresh, cyc, broker,
                 dropped, best, breached, closedAt>>

TapeMoves(k) ==
  /\ k \in samples
  /\ samples' = samples \ {k}
  /\ UNCHANGED <<world, ledgerVars, signals, sample, inputs, feed, fresh, cyc, broker, history>>

InvalidatedMemory == consumed \* mutant
\* Drops the shock sample and, if its episode was not consumed yet, consumes it.
Invalidated == IF sample = None THEN consumed ELSE consumed \cup {sample}

UnusedShock == {k \in enabled : Kind[k] = "shock" /\ recorded[k] = NoTime}
\* An episode continues while bars qualify without a gap.
Episode(q) == IF q /\ bar.qualifying THEN {bar.key} ELSE IF q THEN UnusedShock ELSE {None}

\* A bar later than the last one; q says whether it satisfies the rule.
ShockBar(q, b) ==
  /\ Sole /\ b <= clock /\ clock - b <= 1 /\ b > bar.at
  /\ inputs' = "ok"
  /\ \E k \in Episode(q) :
       /\ bar' = [at |-> b, qualifying |-> q, key |-> k, conflicted |-> FALSE]
       /\ sample' = k
       /\ recorded' = IF q /\ recorded[k] = NoTime THEN [recorded EXCEPT ![k] = b] ELSE recorded
       /\ first' = IF q /\ first[k] = NoTime THEN [first EXCEPT ![k] = b] ELSE first
  /\ UNCHANGED <<world, consumed, families, life, exit, guard, reboundExited, lastClosed,
                 signals, samples, feed, fresh, cyc, broker, dropped, best, breached, closedAt>>

\* The same bar again: it must say what it said before.
ShockRetry(q) ==
  /\ Sole /\ bar.at # NoTime /\ clock - bar.at <= 1
  /\ inputs' = "ok"
  /\ IF bar.conflicted \/ q # bar.qualifying
     THEN /\ consumed' = Invalidated
          /\ sample' = None
          /\ bar' = [bar EXCEPT !.conflicted = TRUE]
     ELSE sample' = bar.key /\ UNCHANGED <<consumed, bar>>
  /\ UNCHANGED <<world, recorded, families, life, exit, guard, reboundExited, lastClosed,
                 signals, samples, feed, fresh, cyc, broker, history>>

\* An update that brings no new signal.
InputsArrive ==
  /\ inputs # "ok"
  /\ inputs' = "ok"
  /\ UNCHANGED <<world, ledgerVars, signals, samples, sample, feed, fresh, cyc, broker, history>>

InputsFail ==
  /\ inputs = "ok" /\ Fault
  /\ inputs' = "bad"
  /\ UNCHANGED <<clock, expiry, enabled, ledgerVars, signals, samples, sample, feed, fresh, cyc,
                 broker, history>>

Disconnect ==
  /\ feed /\ Fault
  /\ feed' = FALSE /\ samples' = {} /\ sample' = None
  /\ consumed' = Invalidated
  /\ dropped' = IF sample = None THEN dropped ELSE dropped \cup {sample}
  /\ UNCHANGED <<clock, expiry, enabled, recorded, families, bar, life, exit, guard, reboundExited,
                 lastClosed, signals, inputs, fresh, cyc, broker, first, best, breached, closedAt>>

Connect ==
  /\ ~feed
  /\ feed' = TRUE
  /\ UNCHANGED <<world, ledgerVars, signals, samples, sample, inputs, fresh, cyc, broker, history>>

-----------------------------------------------------------------------------
(* Entries: DirectionalEngine.enter_locked and ShockEngine.enter_locked *)

\* The ranking is walked: what is missed is consumed as it is met, and the first
\* signal that is due awaits funds(). The clock is read once, before the walk.
EnterStart ==
  /\ ~Sole /\ MayEnter /\ Due(clock) # {}
  /\ \E met \in SUBSET Missed(clock) : consumed' = consumed \cup met
  /\ cyc' = [Idle EXCEPT !.at = "entering", !.now = clock, !.keys = signals \cup samples]
  /\ UNCHANGED <<world, recorded, families, bar, life, exit, guard, reboundExited, lastClosed,
                 signals, samples, sample, inputs, feed, fresh, broker, history>>

EnterMissed ==
  /\ ~Sole /\ MayEnter /\ Due(clock) = {} /\ Missed(clock) # {}
  /\ consumed' = consumed \cup Missed(clock)
  /\ UNCHANGED <<world, recorded, families, bar, life, exit, guard, reboundExited, lastClosed,
                 memory, broker, history>>

Cooled(now) == lastClosed = NoTime \/ now - lastClosed >= Cooldown

EnterShockStart ==
  /\ Sole /\ sample # None /\ sample \notin consumed
  /\ MayEnter /\ Cooled(clock) /\ Valid(sample)
  /\ cyc' = [Idle EXCEPT !.at = "entering", !.now = clock, !.keys = {sample}]
  /\ UNCHANGED <<world, ledgerVars, signals, samples, sample, inputs, feed, fresh, broker, history>>

EnterShockMissed ==
  /\ Sole /\ cyc.at = "idle" /\ sample # None /\ sample \notin consumed
  /\ clock > recorded[sample] + 1
  /\ consumed' = consumed \cup {sample}
  /\ UNCHANGED <<world, recorded, families, bar, life, exit, guard, reboundExited, lastClosed,
                 memory, broker, history>>

\* Rows are taken in order.
NewLife(l) ==
  /\ life[l].state = "NONE"
  /\ \A m \in Lives : m < l => life[m].state # "NONE"

\* What the rest of the walk meets; the list was made before the await.
Met == IF Sole THEN {} ELSE Missed(cyc.now) \cap cyc.keys

\* The transaction of a decision: lifecycle, :consumed and family rows, which are
\* inserted and so must not exist.
Decided(k, l) ==
  /\ NewLife(l)
  /\ life' = [life EXCEPT ![l] = [NoLife EXCEPT !.state = "OPEN", !.key = k]]
  /\ consumed' = consumed \cup {k} \cup Met
  /\ families' = families \cup {FamilyKey(k)}

Conflict(k) == k \in consumed \/ FamilyKey(k) \in families

CurrentUntimed(k) == IF Kind[k] = "shock" THEN Valid(k) ELSE Ready(k) \* mutant
\* pre_dispatch: the clock is read again.
Current(k) ==
  IF Kind[k] = "shock" THEN Valid(k)
  ELSE Ready(k) /\ clock \in Window(k, Evaluated(k, cyc.now))

Decidable == IF Sole THEN {k \in cyc.keys : Valid(k) /\ ~Conflict(k)} ELSE Due(cyc.now) \cap cyc.keys

\* The decision and, if pre_dispatch still holds, the POST: there is no await
\* between them. Otherwise the lifecycle is left open without an order.
Enter(k, l, n) ==
  /\ cyc.at = "entering" /\ fresh
  /\ k \in Decidable /\ l \in Lives
  /\ Decided(k, l)
  /\ IF Current(k)
     THEN order' = [state |-> "live", side |-> "BUY", life |-> l, lots |-> n, filled |-> 0]
     ELSE order' = order
  /\ cyc' = Idle /\ fresh' = FALSE
  /\ UNCHANGED <<world, recorded, bar, exit, guard, reboundExited, lastClosed, signals, samples,
                 sample, inputs, feed, hold, history>>

\* The insert fails: the episode was consumed while funds() was awaited.
EntryConflict ==
  /\ cyc.at = "entering" /\ fresh
  /\ \E k \in cyc.keys : Sole /\ Valid(k) /\ Conflict(k)
  /\ cyc' = Idle /\ fresh' = FALSE
  /\ UNCHANGED <<world, ledgerVars, signals, samples, sample, inputs, feed, broker, history>>

\* No candidate, or an input or a permission that went.
EntryDropped ==
  /\ cyc.at = "entering"
  /\ consumed' = IF fresh THEN consumed \cup Met ELSE consumed
  /\ cyc' = Idle
  /\ UNCHANGED <<world, recorded, families, bar, life, exit, guard, reboundExited, lastClosed,
                 signals, samples, sample, inputs, feed, fresh, broker, history>>

-----------------------------------------------------------------------------
(* Positions: manage_locked and ShockEngine.manage *)

\* The head of manage_locked: reconciled, and the broker holds what the ledger says.
MayManage(l) ==
  /\ cyc.at = "idle" /\ fresh
  /\ l \in Active /\ order.state = "none" /\ hold = Held(l)

EmptyFilled(l) == Held(l) = 0 /\ life[l].bought > 0 \* mutant
Empty(l) == Held(l) = 0

CloseStart(l) ==
  /\ MayManage(l) /\ Empty(l)
  /\ cyc' = [Idle EXCEPT !.at = "closing", !.now = clock, !.life = l]
  /\ UNCHANGED <<world, ledgerVars, signals, samples, sample, inputs, feed, fresh, broker, history>>

\* The transaction that posts the profit and closes the row.
Closes(l) ==
  /\ life' = [life EXCEPT ![l].state = "CLOSED"]
  /\ closedAt' = IF life[l].bought > 0 THEN [closedAt EXCEPT ![l] = cyc.now] ELSE closedAt

\* The marks that later entries ask for are written after it.
Marks(l) ==
  /\ reboundExited' = (reboundExited \/ Kind[life[l].key] = "rebound")
  /\ lastClosed' = IF Kind[life[l].key] = "shock" /\ life[l].bought > 0 THEN cyc.now ELSE lastClosed

Close ==
  /\ cyc.at = "closing"
  /\ Closes(cyc.life) /\ Marks(cyc.life)
  /\ cyc' = Idle
  /\ UNCHANGED <<world, recorded, consumed, families, bar, exit, guard, signals, samples, sample,
                 inputs, feed, fresh, broker, first, dropped, best, breached>>

\* profit_exit.observe and the ratchet of shock_exit: a book shows the profit n.
Peak(g, n) == IF g.peak = NoQuote \/ n > g.peak THEN n ELSE g.peak
Floored(k, peak, n) ==
  peak >= Arm /\ IF Kind[k] = "shock" THEN n < peak - 1 ELSE n <= peak - 1
Stopped(k, n) == Kind[k] = "shock" /\ n <= Stop
Observed(k, g, n, asked) ==
  [peak |-> Peak(g, n),
   triggered |-> g.triggered \/ Stopped(k, n) \/ Floored(k, Peak(g, n), n) \/ asked]
PersistedTrigger(old, new) == IF new.triggered THEN new ELSE old \* mutant
\* The ratchet is written whenever its peak, floor or trigger changes.
Persisted(old, new) == new

Watched(l, n) ==
  /\ guard' = [guard EXCEPT ![l] = Persisted(@, Observed(life[l].key, @, n, FALSE))]
  /\ best' = [best EXCEPT ![l] = IF @ = NoQuote \/ n > @ THEN n ELSE @]
  /\ breached' = [breached EXCEPT ![l] = @ \/ Floored(life[l].key, best'[l], n)]
Unwatched == UNCHANGED <<guard, best, breached>>

\* Sells what is held, at most Child lots, once the exit is due.
MaySell == inputs # "none" /\ feed
Offer(l, due) ==
  IF due # NoTime /\ due <= clock /\ MaySell
  THEN /\ order' = [state |-> "live", side |-> "SELL", life |-> l, filled |-> 0,
                    lots |-> IF hold < Child THEN hold ELSE Child]
       /\ fresh' = FALSE
  ELSE UNCHANGED <<order, fresh>>

LatchedTimeOnly(l) == IF clock >= ExitAt[life[l].key] THEN ExitAt[life[l].key] ELSE NoTime \* mutant
\* A minute, rebound or seconds position: the time exit comes first, then the
\* ratchet on the book, then the bars, whose exit is due at most two ticks later.
Latched(l) ==
  IF exit[l] # NoTime THEN exit[l]
  ELSE IF clock >= ExitAt[life[l].key] THEN ExitAt[life[l].key] ELSE NoTime

Manage(l, n, asked) ==
  /\ MayManage(l) /\ Held(l) > 0 /\ clock < expiry
  /\ Kind[life[l].key] # "shock"
  /\ feed \/ n = NoQuote
  /\ asked \in {NoTime, clock, clock + 2}
  /\ IF Latched(l) = NoTime /\ n # NoQuote THEN Watched(l, n) ELSE Unwatched
  /\ exit' = [exit EXCEPT ![l] =
                IF Latched(l) # NoTime THEN Latched(l)
                ELSE IF n # NoQuote /\ Observed(life[l].key, guard[l], n, FALSE).triggered THEN clock
                ELSE asked]
  /\ Offer(l, exit'[l])
  /\ UNCHANGED <<world, recorded, consumed, families, bar, life, reboundExited, lastClosed,
                 signals, samples, sample, inputs, feed, cyc, hold, first, dropped, closedAt>>

\* A shock position: asked stands for the invalidation and the two time limits.
ManageShock(l, n, asked) ==
  LET quoted == IF n = NoQuote
                THEN [guard[l] EXCEPT !.triggered = @ \/ asked]
                ELSE Observed(life[l].key, guard[l], n, asked)
  IN
  /\ MayManage(l) /\ Held(l) > 0 /\ clock < expiry
  /\ Kind[life[l].key] = "shock"
  /\ feed \/ n = NoQuote
  /\ guard' = [guard EXCEPT ![l] = Persisted(@, quoted)]
  /\ IF n = NoQuote THEN UNCHANGED <<best, breached>>
     ELSE /\ best' = [best EXCEPT ![l] = IF @ = NoQuote \/ n > @ THEN n ELSE @]
          /\ breached' = [breached EXCEPT ![l] = @ \/ Floored(life[l].key, best'[l], n)]
  /\ exit' = IF quoted.triggered THEN [exit EXCEPT ![l] = clock] ELSE exit
  /\ Offer(l, IF quoted.triggered THEN clock ELSE NoTime)
  /\ UNCHANGED <<world, recorded, consumed, families, bar, life, reboundExited, lastClosed,
                 signals, samples, sample, inputs, feed, cyc, hold, first, dropped, closedAt>>

\* What the loop awaits fails: it catches the exception and refreshes the account.
CycleFails ==
  /\ cyc.at # "idle" /\ Fault
  /\ cyc' = Idle /\ fresh' = FALSE
  /\ UNCHANGED <<clock, expiry, enabled, ledgerVars, signals, samples, sample, inputs, feed,
                 broker, history>>

-----------------------------------------------------------------------------
(* Account, broker, time and restarts *)

BookedSwapped(side) == IF order.side # side THEN order.filled ELSE 0 \* mutant
Booked(side) == IF order.side = side THEN order.filled ELSE 0
BookedIn(row) == [row EXCEPT !.bought = row.bought + Booked("BUY"),
                             !.sold = row.sold + Booked("SELL")]
\* A reconciliation books what an ended order traded.
Refresh ==
  /\ ~fresh /\ order.state # "live"
  /\ fresh' = TRUE /\ order' = NoOrder
  /\ life' = IF order.state = "none" THEN life
             ELSE [life EXCEPT ![order.life] = BookedIn(@)]
  /\ UNCHANGED <<world, recorded, consumed, families, bar, exit, guard, reboundExited, lastClosed,
                 signals, samples, sample, inputs, feed, cyc, hold, history>>

Invalidate ==
  /\ fresh /\ Fault
  /\ fresh' = FALSE
  /\ UNCHANGED <<clock, expiry, enabled, ledgerVars, signals, samples, sample, inputs, feed, cyc,
                 broker, history>>

End(n) ==
  /\ order.state = "live" /\ n \in 0..order.lots /\ (order.side = "SELL" => n <= hold)
  /\ hold' = IF order.side = "BUY" THEN hold + n ELSE hold - n
  /\ order' = [order EXCEPT !.state = "ended", !.filled = n]
  /\ UNCHANGED <<world, ledgerVars, memory, history>>

\* Clearing takes an expired position off the account.
Clear ==
  /\ clock >= expiry /\ hold > 0 /\ order.state = "none"
  /\ hold' = 0
  /\ UNCHANGED <<world, ledgerVars, memory, order, history>>

Tick ==
  /\ clock < MaxTime
  /\ clock' = clock + 1
  /\ samples' = {}
  /\ UNCHANGED <<expiry, enabled, faults, ledgerVars, signals, sample, inputs, feed, fresh, cyc,
                 broker, history>>

\* A restart keeps the ledger. A historic signal restores no sample.
Restart ==
  /\ Fault
  /\ signals' = {} /\ samples' = {} /\ sample' = None
  /\ inputs' = "none" /\ feed' = FALSE /\ fresh' = FALSE /\ cyc' = Idle
  /\ UNCHANGED <<clock, expiry, enabled, broker, first, dropped, best, breached>>

Crash == Restart /\ UNCHANGED <<ledgerVars, closedAt>>

\* Between the transaction of a close and the mark.
CrashInClose ==
  /\ cyc.at = "closing"
  /\ Restart /\ Closes(cyc.life)
  /\ UNCHANGED <<recorded, consumed, families, bar, exit, guard, reboundExited, lastClosed>>

\* Between the transaction of a decision and the intent of its order.
CrashInEnter ==
  /\ cyc.at = "entering" /\ fresh
  /\ \E k \in Decidable, l \in Lives : Decided(k, l)
  /\ Restart
  /\ UNCHANGED <<recorded, bar, exit, guard, reboundExited, lastClosed, closedAt>>

\* Between the ratchet and the exit it triggers.
CrashInManage ==
  /\ \E l \in Lives, n \in NetLevels :
       /\ MayManage(l) /\ Held(l) > 0 /\ clock < expiry /\ feed
       /\ Kind[life[l].key] = "shock" \/ Latched(l) = NoTime
       /\ guard' = [guard EXCEPT ![l] = Persisted(@, Observed(life[l].key, @, n, FALSE))]
       /\ best' = [best EXCEPT ![l] = IF @ = NoQuote \/ n > @ THEN n ELSE @]
       /\ breached' = [breached EXCEPT ![l] = @ \/ Floored(life[l].key, best'[l], n)]
  /\ Fault
  /\ signals' = {} /\ samples' = {} /\ sample' = None
  /\ inputs' = "none" /\ feed' = FALSE /\ fresh' = FALSE /\ cyc' = Idle
  /\ UNCHANGED <<clock, expiry, enabled, recorded, consumed, families, bar, life, exit,
                 reboundExited, lastClosed, broker, first, dropped, closedAt>>

-----------------------------------------------------------------------------
Start(key) == [state |-> "OPEN", key |-> key, bought |-> 1, sold |-> 0]

\* The day begins with nothing open, or with a rebound position of yesterday.
Init ==
  /\ clock = 0 /\ faults = 0
  /\ \E c \in Configs : enabled = c[1] /\ expiry = c[2]
  /\ recorded = [k \in Keys |-> NoTime] /\ consumed = {} /\ families = {}
  /\ bar = NoBar /\ exit = [l \in Lives |-> NoTime]
  /\ guard = [l \in Lives |-> NoGuard]
  /\ reboundExited = FALSE /\ lastClosed = NoTime
  /\ signals = {} /\ samples = {} /\ sample = None
  /\ inputs = "none" /\ feed = FALSE /\ fresh = FALSE /\ cyc = Idle
  /\ order = NoOrder
  /\ \/ life = [l \in Lives |-> NoLife] /\ hold = 0
     \/ /\ \E k \in enabled : Kind[k] = "rebound"
        /\ life = [l \in Lives |-> IF l = 1 THEN Start(Carried) ELSE NoLife]
        /\ hold = 1
  /\ first = recorded /\ dropped = {}
  /\ best = [l \in Lives |-> NoQuote] /\ breached = [l \in Lives |-> FALSE]
  /\ closedAt = [l \in Lives |-> NoTime]

InputNext ==
  \/ \E k \in Keys, e \in Minutes : UpdateMinute(k, e)
  \/ \E k \in Keys : TapeSignals(k) \/ TapeMoves(k)
  \/ \E q \in BOOLEAN, b \in Minutes : ShockBar(q, b)
  \/ \E q \in BOOLEAN : ShockRetry(q)
  \/ InputsArrive \/ InputsFail \/ Disconnect \/ Connect

EntryNext ==
  \/ EnterStart \/ EnterMissed \/ EnterShockStart \/ EnterShockMissed
  \/ \E k \in Keys, l \in Lives, n \in Lots : Enter(k, l, n)
  \/ EntryConflict \/ EntryDropped

ManageNext ==
  \/ \E l \in Lives : CloseStart(l)
  \/ Close \/ CycleFails
  \/ \E l \in Lives, n \in NetLevels \cup {NoQuote} :
       \/ \E asked \in MaybeTime : Manage(l, n, asked)
       \/ \E asked \in BOOLEAN : ManageShock(l, n, asked)

OutsideNext ==
  \/ Refresh \/ Invalidate \/ (\E n \in 0..order.lots : End(n)) \/ Clear \/ Tick
  \/ Crash \/ CrashInClose \/ CrashInEnter \/ CrashInManage

Next == InputNext \/ EntryNext \/ ManageNext \/ OutsideNext

Spec == Init /\ [][Next]_vars

\* A position whose exit is due is offered when session and book allow it.
OfferDue == \E l \in Lives :
  /\ exit[l] # NoTime /\ exit[l] <= clock /\ MaySell
  /\ Manage(l, NoQuote, NoTime) \/ ManageShock(l, NoQuote, FALSE)

\* Time passes, feeds and inputs come back, orders end, the refresh loop runs,
\* calls end, and the main loop is woken by every fresh snapshot.
Fairness ==
  /\ WF_vars(Tick) /\ WF_vars(Connect) /\ WF_vars(InputsArrive)
  /\ WF_vars(Refresh) /\ WF_vars(\E n \in 0..order.lots : End(n))
  /\ WF_vars(EntryDropped) /\ WF_vars(Close)
  /\ WF_vars(\E l \in Lives : CloseStart(l)) /\ SF_vars(OfferDue)

FairSpec == Spec /\ Fairness

-----------------------------------------------------------------------------
(* Properties *)

Bars == [at : MaybeTime, qualifying : BOOLEAN, key : Keys \cup {None}, conflicted : BOOLEAN]
Rows == [state : {"NONE", "OPEN", "CLOSED"}, key : Keys \cup {None}, bought : Nat, sold : Nat]
Guards == [peak : NetLevels \cup {NoQuote}, triggered : BOOLEAN]
Cycles == [at : {"idle", "entering", "closing"}, now : Time, keys : SUBSET Keys,
           life : Lives \cup {None}]
Orders == [state : {"none", "live", "ended"}, side : {"BUY", "SELL"}, life : Lives \cup {None},
           lots : Nat, filled : Nat]

\* Every variable has its type, and no row has sold what it did not buy.
TypeOK ==
  /\ clock \in Time /\ faults \in 0..MaxFaults /\ <<enabled, expiry>> \in Configs
  /\ recorded \in [Keys -> MaybeTime] /\ first \in [Keys -> MaybeTime]
  /\ consumed \subseteq Keys /\ dropped \subseteq Keys
  /\ bar \in Bars /\ life \in [Lives -> Rows] /\ guard \in [Lives -> Guards]
  /\ \A l \in Lives : /\ life[l].sold <= life[l].bought
                      /\ life[l].state # "NONE" => life[l].key \in Keys
  /\ exit \in [Lives -> MaybeTime] /\ lastClosed \in MaybeTime /\ closedAt \in [Lives -> MaybeTime]
  /\ signals \subseteq Keys /\ samples \subseteq Keys /\ sample \in Keys \cup {None}
  /\ inputs \in {"none", "ok", "bad"} /\ cyc \in Cycles
  /\ hold \in Nat /\ order \in Orders
  /\ best \in [Lives -> NetLevels \cup {NoQuote}] /\ breached \in [Lives -> BOOLEAN]
  /\ reboundExited \in BOOLEAN /\ feed \in BOOLEAN /\ fresh \in BOOLEAN

\* A family, and an episode of a shock or of seconds, is entered at most once a
\* day, whatever was being decided when the process stopped and however often it
\* was evaluated again (directional.py 82-88, 275-278).
OneEntryPerFamily ==
  \A l, m \in Lives :
    /\ life[l].state # "NONE" /\ life[m].state # "NONE"
    /\ Family[life[l].key] = Family[life[m].key]
    => l = m

\* Once the best profit any book has shown arms the floor and a book is seen below
\* it, the exit is latched, and no restart forgets the peak (directional.py
\* 379-406, volatility_shock.py 247-265).
FloorBinds ==
  \A l \in Lives : breached[l] => guard[l].triggered \/ exit[l] # NoTime

Buys == order.state # "live" /\ order'.state = "live" /\ order'.side = "BUY"

\* An entry is posted only in the window of the first evaluation of its signal:
\* neither an await, a restart nor a later evaluation extends it
\* (directional.py 66-74, 280-285; shock_engine.py 95-98, 163-166).
BuysOnTime == Buys => LET k == life'[order'.life].key IN clock \in Window(k, first[k])
EntryOnTime == [][BuysOnTime]_vars

\* No entry is posted for a shock episode that was held when a feed dropped, even
\* if the same bar is evaluated again while funds() is awaited
\* (shock_engine.py 88-93, 156-160).
BuysUndropped == Buys => life'[order'.life].key \notin dropped
ReconnectConsumes == [][BuysUndropped]_vars

\* A lifecycle whose entry was not filled, or never posted, is closed.
UnfilledIsClosed ==
  \A l \in Lives :
    (life[l].state = "OPEN" /\ Held(l) = 0 /\ order.life # l) ~> (life[l].state = "CLOSED")

\* A latched exit is offered whenever something is held, across lost feeds, failed
\* calls and restarts, until the contract expires.
ExitIsOffered ==
  \A l \in Lives :
    (exit[l] # NoTime /\ Held(l) > 0)
      ~> (Held(l) = 0 \/ clock >= expiry \/ (order.state = "live" /\ order.side = "SELL"))

\* Every position ends: by its sale, or with its entry if that bought nothing
\* (directional.py 318-347).
PositionsEnd == UnfilledIsClosed /\ ExitIsOffered

\* docs/VOLATILITY-SHOCK-OPERATIONS.md 38: "new entry also waits 15 minutes after
\* a real position closes".
CooldownHolds ==
  [][\A l, c \in Lives :
       /\ life[l].state = "NONE" /\ life'[l].state = "OPEN" /\ Kind[life'[l].key] = "shock"
       /\ closedAt[c] # NoTime /\ Kind[life[c].key] = "shock"
       => clock - closedAt[c] >= Cooldown]_vars
=============================================================================
