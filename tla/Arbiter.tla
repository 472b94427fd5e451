------------------------------- MODULE Arbiter -------------------------------
(* Which of several signals gets the one position there may be: what closed    *)
(* positions say of their engine (strategy_arbiter.py, scores), the estimate   *)
(* of a candidate (execution_score), the choice (select_executable), and the   *)
(* auction's comparison with the other engines (DirectionalEngine.             *)
(* compare_auction). Gains, costs and frictions are in tenths of the exposure. *)
EXTENDS Integers, Sequences, FiniteSets, Functions

CONSTANTS
  Owners, Auction,   \* the engines, and the auction's among them
  Outcomes,          \* of a position, or an attempt: what it got, its gross gain ...
  Asked,             \* lots of an entry
  Fee,               \* of an order, as the fee schedule says
  Frictions,         \* of a candidate: what crossing the spread costs
  Minimum,           \* closed positions a ranking needs: 3
  Window, Latest,    \* the positions of an engine, and of all, that count: 30, 256
  Age,               \* of a ranking, up to which it is used: 5 seconds
  MaxClosed, MaxTime \* bounds

VARIABLES
  now,
  closed,    \* lifecycles that are CLOSED, the newest last
  ranking, rankedAt,
  choice     \* the last comparison

vars == <<now, closed, ranking, rankedAt, choice>>

Never == -1
NoOne == "none"
NoChoice == [rows |-> {}, chosen |-> NoOne, reason |-> "WAITING"]
Positive(x) == IF x > 0 THEN x ELSE 0
Least(a, b) == IF a < b THEN a ELSE b
Larger(a, b) == IF a > b THEN a ELSE b

-----------------------------------------------------------------------------
(* scores *)

\* The places of the closed lifecycles that are looked at, and the last n of some places.
Recent == {i \in DOMAIN closed : i > Len(closed) - Latest}
LastOf(I, n) == {i \in I : Cardinality({j \in I : j > i}) < n}
\* The lifecycles of an engine that count, and those of them that had a fill: a cancelled
\* attempt tells how often entries are filled, and nothing else.
Attempts(o) == LastOf({i \in Recent : closed[i].owner = o}, Window)
\* A mutant of Trades: attempts without a fill count too.
TradesWithCancelled(o) == LastOf({i \in Recent : closed[i].owner = o}, Window)
Trades(o) == LastOf({i \in Recent : closed[i].owner = o /\ closed[i].got > 0}, Window)

\* A charge that was published by t counts if it is more than the schedule says.
CostBy(l, t) == 2 * (IF l.chargedAt <= t THEN Larger(Fee, l.charge) ELSE Fee)

Score(o, t) ==
  LET trades == Trades(o)
      attempts == Attempts(o)
  IN
  [n |-> Cardinality(trades), attempts |-> Cardinality(attempts),
   gains |-> SumFunctionOnSet([i \in trades |-> closed[i].gain], trades),
   costs |-> SumFunctionOnSet([i \in trades |-> CostBy(closed[i], t)], trades),
   \* What crossing the spread cost before, when it is known of every trade.
   crossed |-> IF \E i \in trades : closed[i].crossed = Never THEN Never
               ELSE SumFunctionOnSet([i \in trades |-> closed[i].crossed], trades),
   held |-> SumFunctionOnSet([i \in trades |-> closed[i].held], trades),
   filled |-> SumFunctionOnSet([i \in attempts |-> closed[i].got], attempts)]
Scores(t) == [o \in Owners |-> Score(o, t)]

-----------------------------------------------------------------------------
(* execution_score *)

Measured(score) == score.n >= Minimum
\* The profit of n such candidates, and per minute, of the parts that get filled.
Expected(score, friction) ==
  score.gains - Larger(2 * Fee * score.n, score.costs)
    - (IF score.crossed = Never THEN score.n * friction
       ELSE Positive(score.n * friction - score.crossed))
Row(c, scores) ==
  LET score == scores[c.owner] IN
  [owner |-> c.owner, side |-> c.side, friction |-> c.friction, measured |-> Measured(score),
   profit |-> Expected(score, c.friction) * score.filled,
   per |-> Asked * score.attempts * score.held]

-----------------------------------------------------------------------------
(* select_executable *)

\* A mutant of Profitable: a loss will do.
ProfitableMeasured(rows) == {r \in rows : r.measured}
Profitable(rows) == {r \in rows : r.measured /\ r.profit > 0}
Unmeasured(rows) == {r \in rows : ~r.measured}
Better(r, q) ==
  \/ r.profit * q.per > q.profit * r.per
  \/ r.profit * q.per = q.profit * r.per /\ r.friction <= q.friction
Contradict(rows) == \E r, q \in Unmeasured(rows) : r.side # q.side

\* Any of those that are best; the code takes the first.
Selections(rows) ==
  LET profitable == Profitable(rows)
      unmeasured == Unmeasured(rows)
  IN
  IF profitable # {}
  THEN {[owner |-> r.owner, reason |-> "SELECTED"] :
          r \in {p \in profitable : \A q \in profitable : Better(p, q)}}
  ELSE IF Contradict(rows) THEN {[owner |-> NoOne, reason |-> "CONFLICTING_UNRANKED_SIGNALS"]}
  ELSE IF unmeasured # {}
  THEN {[owner |-> r.owner, reason |-> "SELECTED"] :
          r \in {p \in unmeasured : \A q \in unmeasured : p.friction <= q.friction}}
  ELSE {[owner |-> NoOne, reason |-> "NO_POSITIVE_ESTIMATED_EDGE"]}

-----------------------------------------------------------------------------
(* The ledger, the ranking and the comparisons *)

Tick ==
  /\ now < MaxTime /\ now' = now + 1
  /\ choice' = IF choice.chosen = NoOne THEN NoChoice ELSE choice
  /\ UNCHANGED <<closed, ranking, rankedAt>>

\* The position that was entered is closed: one of the outcomes. What it was charged is
\* published later.
Close(outcome) ==
  /\ choice.chosen # NoOne /\ Len(closed) < MaxClosed
  /\ closed' = Append(closed, [owner |-> choice.chosen, got |-> outcome.got, gain |-> outcome.gain,
                               crossed |-> outcome.crossed, charge |-> outcome.charge,
                               chargedAt |-> now + outcome.delay, held |-> outcome.held, at |-> now])
  /\ choice' = NoChoice
  /\ UNCHANGED <<now, ranking, rankedAt>>

\* refresh_ranking
Refreshed ==
  IF rankedAt = Never \/ now - rankedAt >= Age
  THEN ranking' = Scores(now) /\ rankedAt' = now
  ELSE UNCHANGED <<ranking, rankedAt>>

\* Candidates of some engines, one each.
Candidates(owners) ==
  {{[owner |-> o, side |-> f[o].side, friction |-> f[o].friction] : o \in owners} :
     f \in [owners -> [side : {"CE", "PE"}, friction : Frictions]]}

\* enter_locked, of the minute and the seconds signals.
Compare(candidates) ==
  LET rows == {Row(c, ranking') : c \in candidates} IN
  \E s \in Selections(rows) :
    choice' = [rows |-> rows, chosen |-> s.owner, reason |-> s.reason]

\* compare_auction: the auction on its own needs no history.
CompareAuction(candidates) ==
  LET rows == {Row(c, ranking') : c \in candidates} IN
  \E s \in IF Cardinality(rows) = 1 THEN {[owner |-> Auction, reason |-> "SELECTED"]}
           ELSE Selections(rows) :
    choice' = [rows |-> rows, chosen |-> s.owner, reason |-> s.reason]

\* Nothing is chosen yet, and the ranking is brought up to date first.
Comparison ==
  /\ choice.chosen = NoOne /\ Refreshed
  /\ \E owners \in SUBSET Owners \ {{}} : \E candidates \in Candidates(owners) :
       IF Auction \in owners THEN CompareAuction(candidates) ELSE Compare(candidates)
  /\ UNCHANGED <<now, closed>>

Init == now = 0 /\ closed = <<>> /\ ranking = <<>> /\ rankedAt = Never /\ choice = NoChoice

Next ==
  \/ Tick \/ Comparison
  \/ \E outcome \in Outcomes : Close(outcome)

Spec == Init /\ [][Next]_vars

-----------------------------------------------------------------------------
(* Properties *)

\* What is chosen was profitable so far, or has no history and nothing that has none
\* contradicts it; an engine that lost money is not chosen while another makes some.
ChoiceIsSound ==
  \A r \in choice.rows : r.owner = choice.chosen /\ Cardinality(choice.rows) > 1 =>
    /\ r.measured => r.profit > 0
    /\ ~r.measured => \A q \in choice.rows :
         /\ q.measured => q.profit <= 0
         /\ ~q.measured => q.side = r.side /\ r.friction <= q.friction

\* Of the lifecycles that are looked at, a comparison counts every one that was closed as
\* long ago as a ranking may be old, up to the window of its engine.
RankingIsCurrent ==
  [][choice' # choice /\ choice'.rows # {} =>
       /\ now - rankedAt' < Age
       /\ \A o \in Owners :
            LET known == {i \in Recent : closed[i].owner = o /\ closed[i].at <= now - Age} IN
            ranking'[o].attempts >= Least(Cardinality(known), Window)]_vars

\* An attempt that was cancelled never helps its engine: it does not make it measured, nor
\* profitable, and a profit per minute it does not raise.
CancelledNeverHelps ==
  [][\A o \in Owners, friction \in Frictions :
       closed' # closed /\ closed'[Len(closed')].got = 0 /\ Len(closed) < Latest =>
         LET c == [owner |-> o, side |-> "CE", friction |-> friction]
             old == Row(c, Scores(now)) new == Row(c, Scores(now)') IN
         /\ new.measured = old.measured
         /\ new.measured /\ new.profit > 0 => old.profit > 0 /\ Better(old, new)]_vars
=============================================================================
