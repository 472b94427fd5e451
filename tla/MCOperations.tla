---------------------------- MODULE MCOperations ----------------------------
(* What is decided around a position and what watches over it, one part at a   *)
(* time: a behaviour belongs to the one "part" names and leaves the others at  *)
(* their start, since they share no state. One run checks them all. The order  *)
(* manager is the part "orders", under the names it has in Oms.                *)
EXTENDS Oms, Sequences

CONSTANTS
  \* Sizing
  Lot, Freeze, Asks, Quantities, Targets, Cash, Caps, Bids, Bands,
  Brokerage, Rates, Gst, Stamp, Stt, Rupee, MinimumEdge,
  \* Candidates, whose freeze quantity and depths are in lots
  Strikes, Premiums, Scenarios, Activity, Depths, FreezeLots, Ceiling, Budgets, OrderFee, Share,
  \* Incidents
  Traders, Confirm, Fresh, Pause, Grace, MaxDaily, Kept, DayLength, MaxWatch, MaxMishaps,
  \* Recorder
  Room, Batch, MaxRows, MaxStarts, MaxErrors,
  \* Memory
  Newest, Retained, MaxDay, MaxLives, MaxKills,
  \* Arbiter
  Engines, AuctionEngine, Results, EntryLots, ChildFee, Spreads, Minimum, PerEngine, Overall,
  RankingAge, MaxClosed, MaxInstant,
  \* Features
  Indices, OfNow, OfTheDay, Lifetime, Limit, Valid, Timeout, Backoff, CalendarAge,
  Options, ReadRoom, MaxMoment, MaxMisses

FeeRates == [num : Nat, den : Nat \ {0}]

\* Amounts are in paise: the brokerage of an order is 2000 of them, and a freeze quantity
\* is fewer lots than that.
ASSUME OperationsAssumption ==
  /\ Lot \in Nat \ {0} /\ Freeze \in Nat /\ Lot <= Freeze
  /\ IsFiniteSet(Asks) /\ Asks \subseteq Nat \ {0} /\ Quantities \cup Targets \subseteq Nat
  /\ Cash \cup Caps \cup Bids \cup Bands \subseteq Nat
  /\ IsFiniteSet(Rates) /\ Rates \cup {Gst, Stamp, Stt} \subseteq FeeRates
  /\ {Brokerage, MinimumEdge} \subseteq Nat /\ Rupee \in Nat \ {0}
  /\ Strikes \cup Premiums \cup {FreezeLots, Share} \subseteq Nat \ {0}
  /\ Scenarios \cup Activity \cup Depths \cup Budgets \cup {Ceiling, OrderFee} \subseteq Nat
  /\ FreezeLots <= OrderFee
  /\ \A t \in Traders : IsFiniteSet(t.wrong)
  /\ {Confirm, Pause, MaxDaily, Kept, MaxWatch} \subseteq Nat /\ DayLength \in Nat \ {0}
  /\ {Room, Batch} \subseteq Nat /\ {Newest, MaxDay} \subseteq Nat \ {0}
  /\ "none" \notin Engines /\ Spreads \subseteq Int
  /\ {EntryLots, ChildFee, Minimum, PerEngine, Overall} \subseteq Nat /\ RankingAge \in Nat \ {0}
  /\ \A x \in Results : {x.got, x.held, x.delay} \subseteq Nat /\ {x.gain, x.crossed, x.charge} \subseteq Int
  /\ Indices \cap (OfNow \cup OfTheDay) = {} /\ IsFiniteSet(Options)
  /\ \A s \in OfNow \cup OfTheDay : Lifetime[s] \in Nat
  /\ \A s \in OfNow : Limit[s] \in Nat
  /\ {Valid, Timeout} \subseteq Nat /\ ReadRoom \in Nat \ {0}

VARIABLES
  part,
  day, signals,
  now, closed, ranking, rankedAt, choice,
  kind, asks, target, remaining, spendable, cap, bid, upper, size,
  engine, budget, offered, taken,
  start, stage, health, failed, serial, queue, batch, late, received, disk, errors,
  time, trader, file, checked, since, runner, asked, run, agents, mishaps,
  today, lives, audit, torn, memory, kills,
  moment, calendar, refresh, bars, held, task, cache, retry, features, delivered, begun, misses

-----------------------------------------------------------------------------
(* The instances *)

\* One order that buys two lots and one that sells one, of which the order book may serve
\* old rows.
OneOfEach == {"b1", "s1"}
ThreeLots == {<<"b1", 1>>, <<"b1", 2>>, <<"s1", 1>>}
OwnerOf == [l \in ThreeLots |-> l[1]]
SideOf == [i \in OneOfEach |-> IF i = "b1" THEN "BUY" ELSE "SELL"]

\* Sessions of ten minutes and the one after. The index moves by one slope in each part.
Slope(m) ==
  IF m <= 2 THEN 1 ELSE IF m <= 5 THEN 2 ELSE IF m <= 7 THEN 3 ELSE m - 4
Path(slopes) ==
  LET level[m \in 0..11] == IF m = 0 THEN 0 ELSE level[m - 1] + slopes[Slope(m)] IN level
Paths ==
  {Path(<<x, y, z, c, e, f, 5>>) : x \in {-4, 0, 4}, y \in {-1, 0, 3}, z \in {-1, 0, 1},
                                   c \in {-4, 0, 1}, e \in {-1, 1, 2}, f \in {-3, -1, 1, 3}}
\* Days that some rules buy on, and days they judge otherwise.
Turns ==
  {Path(p) : p \in {<<4, 0, 1, 1, 1, 3, 5>>, <<0, 3, -1, -4, 1, 1, 5>>, <<-4, 0, -1, 0, -1, -3, 5>>,
                    <<0, 0, 0, 0, 1, 3, 0>>, <<4, -1, 0, 0, -1, -1, 0>>, <<-1, 3, -1, -4, 1, 1, 2>>}}
Everything ==
  {"spot", "future", "BANK", "IT", "VIX", "GIFT"} \X (0..11) \cup {"CE", "PE"} \X {-2, 0, 2} \cup
  {"previous close", "prior_trend", "next session", "iv", "insights", "prior_chain",
   "institutions"} \X {1}
\* How the future goes with the index.
Future(path, shape, m) ==
  CASE m = 0 \/ shape = "with" -> path[m]
    [] shape = "ahead" -> 2 * path[m] - path[m - 1]
    [] shape = "against" -> -path[m]
Bought == [premium |-> 30, oi |-> -10, busy |-> TRUE]
Sold == [premium |-> -12, oi |-> 6, busy |-> FALSE]
ADay(path, shape, v, calls, missing) ==
  [level |-> [s \in {"spot", "future", "BANK", "IT", "VIX", "GIFT"} |->
     CASE s = "spot" -> path
       [] s = "future" -> [m \in 0..11 |-> Future(path, shape, m)]
       [] OTHER -> [m \in 0..11 |-> IF shape = "ahead" THEN 3 * path[m] ELSE path[m]]],
   volume |-> [m \in 0..11 |-> IF m < 8 THEN 1 ELSE IF shape = "ahead" THEN 4 ELSE 2],
   fact |-> [close |-> 6 * v, trend |-> v, pcr |-> v, pain |-> 0, fii |-> v, dii |-> v, oi |-> 1,
             cheap |-> TRUE, wall |-> [s \in {"CE", "PE"} |-> 0]],
   chain |-> [s \in {"CE", "PE"} |-> [k \in {-2, 0, 2} |-> IF calls = (s = "CE") THEN Bought ELSE Sold]],
   there |-> Everything \ missing]
Days ==
  {ADay(p, shape, 1, TRUE, {}) : p \in Paths, shape \in {"with", "ahead"}}
  \cup {ADay(p, shape, v, calls, {}) :
          p \in Turns, shape \in {"with", "ahead", "against"}, v \in {-1, 1}, calls \in BOOLEAN}
  \cup {ADay(p, shape, 1, p[10] > 0, {x}) :
          p \in Turns, shape \in {"with", "ahead"}, x \in Everything}
Rules == INSTANCE Rules WITH
  Last <- 10, Few <- 1, Pull <- 3, Many <- 4, Trend <- 6, Box <- 2, LateBox <- 4..5,
  Frozen <- 7, Quiet <- 3, Baseline <- 3, Bars <- 7, Enough <- 4

Outcome(got, gain, crossed, charge, delay) ==
  [got |-> got, gain |-> gain, crossed |-> crossed, charge |-> charge, delay |-> delay, held |-> 1]
SomeResults == {Outcome(0, 0, -1, 0, 0), Outcome(2, 8, 1, 3, 1), Outcome(1, 0, -1, 0, 0)}
Arbiter == INSTANCE Arbiter WITH
  Owners <- Engines, Auction <- AuctionEngine, Outcomes <- Results, Asked <- EntryLots,
  Fee <- ChildFee, Frictions <- Spreads, Window <- PerEngine, Latest <- Overall,
  Age <- RankingAge, MaxTime <- MaxInstant

Rate(n, d) == [num |-> n, den |-> d]
OneRate == {Rate(1, 8)}
GstRate == Rate(1, 5)
StampRate == Rate(1, 10)
SttRate == Rate(1, 4)
LifetimeOf == [s \in {"iv", "prior_chain"} |-> IF s = "iv" THEN 2 ELSE 6]
LimitOf == [s \in {"iv"} |-> 2]
Sizing == INSTANCE Sizing WITH Prices <- Asks, choice <- size

Candidates == INSTANCE Candidates WITH
  Contracts <- Strikes, Prices <- Premiums, Volumes <- Activity, Freeze <- FreezeLots, Upper <- Ceiling,
  Cash <- Budgets, Brokerage <- OrderFee,
  signal <- engine, quotes <- offered, bought <- taken

Recorder == INSTANCE Recorder WITH
  MaxFaults <- MaxErrors, offered <- received, faults <- errors

\* A trader that holds a position without a mandate, and one that is funded.
TwoTraders ==
  {[wrong |-> {"ACCOUNT_READ_FAILED"}, open |-> FALSE, held |-> TRUE, funded |-> FALSE],
   [wrong |-> {"ACCOUNT_READ_FAILED", "ROUTE_OUTCOME_UNKNOWN", "ROUTE_UNQUALIFIED"},
    open |-> FALSE, held |-> FALSE, funded |-> TRUE]}
Incidents == INSTANCE Incidents WITH
  MaxTime <- MaxWatch, MaxFaults <- MaxMishaps, now <- time, state <- runner, faults <- mishaps

Memory == INSTANCE Memory WITH
  Window <- Newest, MaxFaults <- MaxKills, faults <- kills

\* The optional sources, without options; and the options, without the sources.
Sources == INSTANCE Features WITH
  Own <- Indices, Short <- OfNow, Lasting <- OfTheDay, Ttl <- Lifetime,
  Contracts <- {}, Room <- ReadRoom, MaxTime <- MaxMoment, MaxFaults <- MaxMisses,
  now <- moment, received <- delivered, started <- begun, faults <- misses
Chain == INSTANCE Features WITH
  Own <- {}, Short <- {}, Lasting <- {}, Ttl <- <<>>,
  Contracts <- Options, Room <- ReadRoom, MaxTime <- MaxMoment, MaxFaults <- MaxMisses,
  now <- moment, received <- delivered, started <- begun, faults <- misses

-----------------------------------------------------------------------------
(* One part at a time *)

orders == vars
judgement == <<day, signals>>
comparison == <<now, closed, ranking, rankedAt, choice>>
question == <<kind, asks, target, remaining, spendable, cap, bid, upper, size>>
selection == <<engine, budget, offered, taken>>
recording == <<start, stage, health, failed, serial, queue, batch, late, received, disk, errors>>
watch == <<time, trader, file, checked, since, runner, asked, run, agents, mishaps>>
history == <<today, lives, audit, torn, memory, kills>>
sources == <<moment, calendar, refresh, bars, held, task, cache, retry, features, delivered,
             begun, misses>>
everything ==
  <<part, orders, judgement, comparison, question, selection, recording, watch, history, sources>>

Parts ==
  {"orders", "rules", "ranking", "sizing", "selection", "recording", "incidents", "memory",
   "sources", "options"}
Start ==
  /\ part \in Parts
  /\ Init /\ Arbiter!Init /\ Recorder!Init /\ Memory!Init /\ Sources!Init
  /\ IF part = "rules" THEN Rules!Init ELSE day = <<>> /\ signals = <<>>
  /\ IF part = "sizing" THEN Sizing!Init ELSE Sizing!NoQuestion
  /\ IF part = "selection" THEN Candidates!Init ELSE Candidates!NoQuestion
  /\ Incidents!Init /\ (part = "incidents" \/ trader.funded)

Step ==
  /\ UNCHANGED part
  /\ \/ /\ part = "orders" /\ Next
        /\ UNCHANGED <<judgement, comparison, question, selection, recording, watch, history, sources>>
     \/ /\ part = "rules" /\ Rules!Next
        /\ UNCHANGED <<orders, comparison, question, selection, recording, watch, history, sources>>
     \/ /\ part = "ranking" /\ Arbiter!Next
        /\ UNCHANGED <<orders, judgement, question, selection, recording, watch, history, sources>>
     \/ /\ part = "sizing" /\ Sizing!Next
        /\ UNCHANGED <<orders, judgement, comparison, selection, recording, watch, history, sources>>
     \/ /\ part = "selection" /\ Candidates!Next
        /\ UNCHANGED <<orders, judgement, comparison, question, recording, watch, history, sources>>
     \/ /\ part = "recording" /\ Recorder!Next
        /\ UNCHANGED <<orders, judgement, comparison, question, selection, watch, history, sources>>
     \/ /\ part = "incidents" /\ Incidents!Next
        /\ UNCHANGED <<orders, judgement, comparison, question, selection, recording, history, sources>>
     \/ /\ part = "memory" /\ Memory!Next
        /\ UNCHANGED <<orders, judgement, comparison, question, selection, recording, watch, sources>>
     \/ /\ part = "sources" /\ Sources!Next
        /\ UNCHANGED <<orders, judgement, comparison, question, selection, recording, watch, history>>
     \/ /\ part = "options" /\ Chain!Next
        /\ UNCHANGED <<orders, judgement, comparison, question, selection, recording, watch, history>>

Operations == Start /\ [][Step]_everything

-----------------------------------------------------------------------------
\* A rule rests on complete minutes, makes no signal of a gap, and its mirror image is its
\* opposite (expanded_strategies.py, session_strategies.py, volatility_shock.py). What else
\* it is told is of the moment, and complete (strategy_inputs.py, strategy_features.py).
RulesAreSound ==
  /\ [](part = "rules" => Rules!RulesAreSound)
  /\ [](part = "sources" => Sources!FeaturesAreSound) /\ Sources!OthersAreKept
  /\ [](part = "options" => Chain!FeaturesAreSound)

\* Which signal gets the position rests on what closed positions say (strategy_arbiter.py).
ArbitrationIsSound ==
  []Arbiter!ChoiceIsSound /\ Arbiter!RankingIsCurrent /\ Arbiter!CancelledNeverHelps

\* A purchase is what the cash and the depth can bear (risk.py, strategy.py), of the
\* contract that is to be bought (directional.py, volatility_shock.py).
SizedWithinMeans ==
  /\ part = "sizing" => Sizing!SizedWithinMeans
  /\ part = "selection" => Candidates!CandidateIsRight

\* Nothing is lost while positions may be opened (service.py, replay_journal.py), and what
\* is remembered of a day is true, and stays (learning.py, session_audit.py).
RecordsAreTrue ==
  []Recorder!RecordingIsTrue /\ []Memory!MemoryIsTrue /\ Memory!DaysAreRemembered

\* Incidents are confirmed, and handled within the budget (operations.py, incident-repair.py).
IncidentsAreHandled == Incidents!IncidentsAreHandled
=============================================================================
