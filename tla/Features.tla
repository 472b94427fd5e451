------------------------------ MODULE Features ------------------------------
(* What a strategy is told beside the minutes of the index: the calendar, the   *)
(* minutes of the options it may buy, and the optional sources, collected in    *)
(* the background (StrategyInputWorker of strategy_inputs.py, FeatureSource of  *)
(* strategy_features.py). Time is counted in half minutes.                      *)
EXTENDS Integers, Sequences, FiniteSets, Functions, SequencesExt

CONSTANTS
  Own,        \* sources that are kept one by one: BANK, IT, VIX, GIFT
  Short,      \* published sources that are of the moment: iv, insights
  Lasting,    \* published sources of the day: prior_chain, prior_trend, institutions
  Ttl,        \* Ttl[s]: the age at which a published source is asked again
  Limit,      \* Limit[s]: the age up to which a source of Short is used
  Valid,      \* the age up to which a collection is: 90 seconds
  Timeout,    \* of a collection, and the time to the next: 30 seconds
  Backoff,    \* how long a source that failed is left alone
  CalendarAge,
  Contracts, Room,  \* options, and how many are read: 18
  MaxTime, MaxFaults

Published == Short \cup Lasting
Sources == Own \cup Published

VARIABLES
  now,
  calendar,   \* when it was read; 0: None
  refresh,    \* the refresh under way
  bars,       \* option_bars: when each was read
  held,       \* contracts of the position and of recent signals, in order of urgency
  task,       \* the collection under way (aux_task)
  cache, retry,            \* FeatureSource
  features, received,      \* aux_features, aux_received
  started,                 \* aux_started
  faults

collector == <<task, cache, retry, features, received>>
vars == <<now, calendar, refresh, bars, held, collector, started, faults>>

Nothing == [x \in {} |-> 0]
With(f, x, v) == [y \in DOMAIN f \cup {x} |-> IF y = x THEN v ELSE f[y]]
Updated(f, g) == [y \in DOMAIN f \cup DOMAIN g |-> IF y \in DOMAIN g THEN g[y] ELSE f[y]]
Without(f, S) == Restrict(f, DOMAIN f \ S)
IdleRefresh == [pc |-> "idle", began |-> 0, wanted |-> {}, todo |-> {}]
IdleTask == [running |-> FALSE, since |-> 0, waiting |-> {},
             asked |-> Nothing,  \* asked[s]: when the request of s began
             own |-> Nothing, batch |-> Nothing]

-----------------------------------------------------------------------------
(* The collection *)

\* Nothing but a cached value that is young enough spares a request, and a source that
\* failed is left alone.
Ask(s) ==
  /\ task.running /\ s \in task.waiting
  /\ LET known == s \in DOMAIN cache /\ now - cache[s] < Ttl[s]
         skipped == s \in DOMAIN retry /\ now < retry[s]
     IN task' = [task EXCEPT
          !.waiting = @ \ {s},
          !.asked = IF known \/ skipped THEN @ ELSE With(@, s, now),
          !.batch = IF known THEN With(@, s, cache[s]) ELSE @]
  /\ UNCHANGED <<now, calendar, refresh, bars, held, cache, retry, features, received,
                 started, faults>>

\* FeatureSource keeps what it publishes.
Answer(s) ==
  /\ task.running /\ s \in DOMAIN task.asked
  /\ IF s \in Own
     THEN /\ task' = [task EXCEPT !.asked = Without(@, {s}), !.own = With(@, s, now)]
          /\ UNCHANGED <<cache, retry>>
     ELSE /\ task' = [task EXCEPT !.asked = Without(@, {s}), !.batch = With(@, s, now)]
          /\ cache' = With(cache, s, now)
          /\ retry' = Without(retry, {s})
  /\ UNCHANGED <<now, calendar, refresh, bars, held, features, received, started,
                 faults>>

\* An answer that cannot be used is a failure. A published source is then left alone for a
\* time that counts from the start of the request.
Unanswered(s) ==
  /\ task.running /\ s \in DOMAIN task.asked
  /\ faults < MaxFaults /\ faults' = faults + 1
  /\ task' = [task EXCEPT !.asked = Without(@, {s})]
  /\ retry' = IF s \in Own THEN retry ELSE With(retry, s, task.asked[s] + Backoff)
  /\ UNCHANGED <<now, calendar, refresh, bars, held, cache, features, received,
                 started>>

Left == task.waiting \cup DOMAIN task.asked
\* What is published comes as one; what is not comes one by one.
GatheredNothing == IF Left = {} THEN Updated(task.own, task.batch) ELSE Nothing \* mutant: of a time-out
Gathered == IF Left \cap Published = {} THEN Updated(task.own, task.batch) ELSE task.own

Collect ==
  /\ features' = Gathered
  /\ received' = now
  /\ task' = IdleTask
  /\ UNCHANGED <<now, calendar, refresh, bars, held, cache, retry, started, faults>>

Collected == task.running /\ Left = {} /\ Collect
TimesOut == task.running /\ Left # {} /\ now - task.since >= Timeout /\ Collect

-----------------------------------------------------------------------------
(* The refresh *)

\* available_features
AvailableByBatch == IF received # 0 /\ now - received <= Valid THEN features ELSE Nothing \* mutant
Available ==
  IF received # 0 /\ now - received <= Valid
  THEN Without(features, {s \in Short \cap DOMAIN features : now - features[s] > Limit[s]})
  ELSE Nothing

\* The first of: what is held or signalled, what the rules anchor to, what is near.
WantedInOrder(anchors, near) ==  \* mutant: what is held comes last
  LET all == SetToSeq(anchors \cup near) \o held
  IN SubSeq(all, 1, IF Len(all) < Room THEN Len(all) ELSE Room)
Wanted(anchors, near) ==
  LET rest == SetToSeq(anchors \ ToSet(held)) \o SetToSeq(near \ (anchors \cup ToSet(held)))
      all == held \o rest
  IN SubSeq(all, 1, IF Len(all) < Room THEN Len(all) ELSE Room)

\* With a calendar, the strategies are evaluated on what is there, and the options read.
Proceeds(anchors, near) ==
  LET wanted == ToSet(Wanted(anchors, near)) IN
  /\ refresh' = [pc |-> "options", began |-> IF refresh.pc = "idle" THEN now ELSE refresh.began,
                 wanted |-> wanted, todo |-> wanted]

CalendarDue == calendar = 0 \/ now - calendar >= CalendarAge

RefreshStart(anchors, near) ==
  /\ refresh.pc = "idle" /\ ~CalendarDue
  /\ Proceeds(anchors, near)
  /\ UNCHANGED <<now, calendar, bars, held, collector, started, faults>>

CalendarStart ==
  /\ refresh.pc = "idle" /\ CalendarDue
  /\ calendar' = 0
  /\ refresh' = [IdleRefresh EXCEPT !.pc = "calendar", !.began = now]
  /\ UNCHANGED <<now, bars, held, collector, started, faults>>

CalendarRead(anchors, near) ==
  /\ refresh.pc = "calendar" /\ calendar' = refresh.began
  /\ Proceeds(anchors, near)
  /\ UNCHANGED <<now, bars, held, collector, started, faults>>

\* Without one there is no evaluation.
CalendarFails ==
  /\ refresh.pc = "calendar" /\ faults < MaxFaults /\ faults' = faults + 1
  /\ refresh' = IdleRefresh
  /\ UNCHANGED <<now, calendar, bars, held, collector, started>>

OptionRead(c) ==
  /\ refresh.pc = "options" /\ c \in refresh.todo
  /\ refresh' = [refresh EXCEPT !.todo = @ \ {c}]
  /\ bars' = With(bars, c, now)
  /\ UNCHANGED <<now, calendar, held, collector, started, faults>>

BarsAsBefore(c) == bars \* mutant
BarsWithout(c) == Without(bars, {c})
OptionFails(c) ==
  /\ refresh.pc = "options" /\ c \in refresh.todo
  /\ faults < MaxFaults /\ faults' = faults + 1
  /\ refresh' = [refresh EXCEPT !.todo = @ \ {c}]
  /\ bars' = BarsWithout(c)
  /\ UNCHANGED <<now, calendar, held, collector, started>>

\* The options are there: the next collection is started when it is due, and the strategies
\* are evaluated again, on what the ones before it brought.
RefreshEnd ==
  /\ refresh.pc = "options" /\ refresh.todo = {}
  /\ refresh' = IdleRefresh
  /\ bars' = Restrict(bars, refresh.wanted \cap DOMAIN bars)
  /\ IF (started = 0 \/ now - started >= Timeout) /\ ~task.running
     THEN /\ started' = now
          /\ task' = [IdleTask EXCEPT !.running = TRUE, !.since = now, !.waiting = Published,
                                      !.asked = [s \in Own |-> now]]
     ELSE UNCHANGED <<started, task>>
  /\ UNCHANGED <<now, calendar, held, cache, retry, features, received, faults>>

-----------------------------------------------------------------------------

\* A position is opened or closed, or a strategy signals, between two refreshes.
Hold(s) ==
  /\ refresh.pc = "idle" /\ held # s /\ held' = s
  /\ UNCHANGED <<now, calendar, refresh, bars, collector, started, faults>>

\* A collection ends in time.
Tick ==
  /\ now < MaxTime /\ (task.running => now - task.since < Timeout)
  /\ now' = now + 1
  /\ UNCHANGED <<calendar, refresh, bars, held, collector, started, faults>>

Init ==
  /\ now = 1 /\ calendar = 0 /\ refresh = IdleRefresh /\ bars = Nothing /\ held = <<>>
  /\ task = IdleTask /\ cache = Nothing /\ retry = Nothing
  /\ features = Nothing /\ received = 0 /\ started = 0
  /\ faults = 0

Next ==
  \/ \E s \in Sources : Ask(s) \/ Answer(s) \/ Unanswered(s)
  \/ Collected \/ TimesOut
  \/ \E anchors \in SUBSET Contracts : \E near \in SUBSET Contracts :
       RefreshStart(anchors, near) \/ CalendarRead(anchors, near)
  \/ CalendarStart \/ CalendarFails
  \/ \E c \in Contracts : OptionRead(c) \/ OptionFails(c)
  \/ RefreshEnd
  \/ \E s \in {<<>>} \cup {<<c>> : c \in Contracts} : Hold(s)
  \/ Tick

-----------------------------------------------------------------------------
(* What must hold *)

\* A value of the moment is never used beyond its own age, though it may lie in the cache,
\* then in a collection, then in what is offered, while the collector is stuck
\* (strategy_inputs.py 322-331, strategy_features.py 104-112).
OfTheMoment ==
  \A s \in DOMAIN Available :
    now - features[s] <= IF s \in Own THEN Valid + Timeout
                         ELSE IF s \in Short THEN Limit[s] ELSE Ttl[s] + Timeout + Valid

\* A source that fails or hangs takes none with it, but for the published ones, which come
\* together (strategy_inputs.py 295-304).
OthersAreKept ==
  [][task.running /\ ~task'.running =>
       /\ DOMAIN task.own \subseteq DOMAIN features'
       /\ DOMAIN features' \cap Published \in {{}, DOMAIN task.batch}]_vars

\* The evaluation that follows the options rests on options read for it
\* (strategy_inputs.py 261-276).
OptionsOfThisRefresh ==
  refresh.pc = "options" /\ refresh.todo = {} =>
    \A c \in refresh.wanted \cap DOMAIN bars : bars[c] >= refresh.began

\* The contract of the position is read, however many others are wanted
\* (strategy_inputs.py 242-259).
HeldIsRead == refresh.pc = "options" => ToSet(held) \subseteq refresh.wanted

FeaturesAreSound == OfTheMoment /\ OptionsOfThisRefresh /\ HeldIsRead
=============================================================================
