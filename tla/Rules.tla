------------------------------- MODULE Rules -------------------------------
(* The entry rules of the minute strategies: a rule reads minutes that are     *)
(* complete and says on which side to buy, that there is nothing to buy, or    *)
(* that it does not know, since a minute or a source it needs is missing       *)
(* (expanded_strategies.py, session_strategies.py, volatility_shock.py). A     *)
(* price is a level in tenths of a per cent, so that a return is a difference; *)
(* a minute is one level, its range is left out; the look-backs are shorter.   *)
EXTENDS Integers, Sequences, FiniteSets, FiniteSetsExt, Folds

CONSTANTS
  Days,      \* sessions, as records: see Day
  Last,      \* the minute judged, the first being 1
  Few, Pull, Many, Trend,  \* the look-backs of 3 and 5, 10, 15, 30 and 60 minutes
  Box, LateBox,            \* the minutes of the opening range and of 14:15-14:30
  Frozen,                  \* the minute of 14:45
  Quiet, Baseline,         \* minutes of a range before a breakout, of the usual volume
  Bars, Enough             \* minutes and comparisons a shock needs

VARIABLES
  day,
  signals   \* what each rule says

vars == <<day, signals>>

Series == {"spot", "future", "BANK", "IT", "VIX", "GIFT"}
Sides == {"CE", "PE"}
Sgn(x) == IF x > 0 THEN 1 ELSE IF x < 0 THEN -1 ELSE 0
Magnitude(x) == IF x < 0 THEN -x ELSE x
Least(a, b) == IF a < b THEN a ELSE b
SideFor(v) == IF v = 1 THEN "CE" ELSE "PE"
Other(side) == IF side = "CE" THEN "PE" ELSE "CE"

-----------------------------------------------------------------------------
(* A day d: the level of each series at each minute, minute 0 being the open,  *)
(* the volume of the future, what the options did (chain) and what the         *)
(* published sources say (fact). d.there is what was received: <<series,       *)
(* minute>>, <<side, strike>> of an option, <<source, minute of its receipt>>. *)

Level(d, s, m) == IF m \in DOMAIN d.level[s] THEN d.level[s][m] ELSE 0
Move(d, s, t, n) == Level(d, s, t) - Level(d, s, t - n)
Highest(d, s, M) == Max({Level(d, s, m) : m \in M})
Lowest(d, s, M) == Min({Level(d, s, m) : m \in M})
FromOpen(d, t) == Move(d, "spot", t, t)

Pick(M) == CHOOSE m \in M : TRUE
Volume(d, m) == IF m \in DOMAIN d.volume THEN d.volume[m] ELSE 0
Total(d, M) == MapThenFoldSet(+, 0, LAMBDA m : Volume(d, m), Pick, M)
Turnover(d, M) ==
  MapThenFoldSet(+, 0, LAMBDA m : Volume(d, m) * Level(d, "future", m), Pick, M)
\* A mutant of VwapSide: the average is that of all the minutes that were received.
VwapSideOfTheDay(d, m) ==
  Sgn(Level(d, "future", m) * Total(d, DOMAIN d.volume \ {0}) - Turnover(d, DOMAIN d.volume \ {0}))
\* On which side of its average price since the open the future is.
VwapSide(d, m) == Sgn(Level(d, "future", m) * Total(d, 1..m) - Turnover(d, 1..m))

\* The k-th value in order, and twice the median.
Kth(f, k) ==
  CHOOSE x \in {f[i] : i \in DOMAIN f} :
    /\ Cardinality({i \in DOMAIN f : f[i] < x}) < k
    /\ Cardinality({i \in DOMAIN f : f[i] <= x}) >= k
TwiceMedian(f) ==
  LET n == Cardinality(DOMAIN f) IN
  IF n = 0 THEN 0 ELSE Kth(f, (n + 1) \div 2) + Kth(f, (n + 2) \div 2)

\* A step of a rule: is what it reads there, and does the rule go on?
Step(known, ok) == [known |-> known, ok |-> ok]
At(s, M) == {<<s, m>> : m \in M}
Back(s, t, N) == {<<s, t - n>> : n \in N}
Read(d, reads) == Step(reads \subseteq d.there, TRUE)
Need(known) == Step(known, TRUE)
Check(ok) == Step(TRUE, ok)
\* A source counts once it was received (published).
Published(d, t, name) == Need(\E m \in 0..t : <<name, m>> \in d.there)
\* Three closes that go one way.
Persistent(d, s, t, v) ==
  Step(Back(s, t, 0..2) \subseteq d.there,
       v # 0 /\ \A n \in {0, 1} : v * Move(d, s, t - n, 1) > 0)
\* Closes that are all above a range, or all below it.
Beyond(d, lo, hi, M) ==
  IF Lowest(d, "spot", M) > hi THEN 1 ELSE IF Highest(d, "spot", M) < lo THEN -1 ELSE 0
Within(d, lo, hi, M) == \A m \in M : Level(d, "spot", m) \in lo..hi
\* The minutes of the future its average price rests on.
Vwap(d, t) == Need(At("future", 1..t) \subseteq d.there /\ Total(d, 1..t) > 0)
\* The volume of the last three minutes, and the usual one.
Usual(t) == (t - 2 - Baseline)..(t - 3)
Volumes(d, t) == Need(At("future", (t - 2 - Baseline)..t) \subseteq d.there /\ Total(d, Usual(t)) > 0)
Busy(d, t) == Total(d, (t - 2)..t) >= 3 * TwiceMedian([m \in Usual(t) |-> Volume(d, m)])
Thrice(d, t) ==
  2 * Total(d, (t - 2)..t) >=
    3 * TwiceMedian([i \in 1..(Baseline \div 3) |-> Total(d, (t - 2 - 3 * i)..(t - 3 * i))])

Rule(v, steps) == [v |-> v, steps |-> steps]

\* The first step that is not taken decides.
Verdict(d, t, rule) ==
  LET steps == <<Read(d, {<<"spot", t>>, <<"spot", 1>>})>> \o rule.steps
      stops == {i \in DOMAIN steps : ~(steps[i].known /\ steps[i].ok)}
  IN IF stops # {} THEN IF steps[Min(stops)].known THEN "NO_SIGNAL" ELSE "UNKNOWN"
     ELSE IF rule.v = 0 THEN "NO_SIGNAL" ELSE SideFor(rule.v)

-----------------------------------------------------------------------------
(* Overnight *)

OvernightFamilies == {"NIFTY_SELLOFF_REBOUND", "SELLOFF_CALL", "SELLOFF_PUT", "RALLY_CALL", "RALLY_PUT",
  "TWO_SIDED_REVERSAL", "TWO_SIDED_CONTINUATION", "NIFTY_DAY_CONTINUATION",
  "NIFTY_TREND_ALIGNMENT", "TREND_CONTINUATION", "TREND_PULLBACK_OVERNIGHT"}

OvernightRule(family, d, t) ==
  LET r == FromOpen(d, t) v == Sgn(r) trend == d.fact.trend
      next == Published(d, t, "next session")
      If(w, ok) == Rule(w, <<next, Check(ok)>>)
      Trended(w, ok) == Rule(w, <<Published(d, t, "prior_trend"), next, Check(ok)>>)
  IN
  CASE family \in {"NIFTY_SELLOFF_REBOUND", "SELLOFF_CALL"} -> If(1, r <= -8)
    [] family = "SELLOFF_PUT" -> If(-1, r <= -8)
    [] family = "RALLY_CALL" -> If(1, r >= 8)
    [] family = "RALLY_PUT" -> If(-1, r >= 8)
    [] family = "TWO_SIDED_REVERSAL" -> If(-v, Magnitude(r) >= 8)
    [] family = "TWO_SIDED_CONTINUATION" -> If(v, Magnitude(r) >= 8)
    [] family = "NIFTY_DAY_CONTINUATION" -> Trended(v, Magnitude(r) >= 5)
    [] family = "NIFTY_TREND_ALIGNMENT" -> Trended(v, Magnitude(r) >= 2 /\ r * trend > 0)
    [] family = "TREND_CONTINUATION" -> Trended(v, Magnitude(r) >= 8 /\ r * trend > 0)
    [] family = "TREND_PULLBACK_OVERNIGHT" -> Trended(-v, Magnitude(r) >= 8 /\ r * trend < 0)

-----------------------------------------------------------------------------
(* Within the day *)

IntradayFamilies == {"OPEN_DRIVE", "GAP_FADE", "FIRST_LAST", "TREND_PULLBACK", "VOLUME_REVERSAL",
  "SECTOR_CATCHUP", "RANGE_FAILURE", "AFTERNOON_COMPRESSION"}

Gap(d) == Level(d, "spot", 0) - d.fact.close
\* A quarter to all of the gap is filled.
GapFilled(d, t) ==
  LET filled == -Sgn(Gap(d)) * FromOpen(d, t) IN
  Magnitude(Gap(d)) >= 5 /\ 4 * filled >= Magnitude(Gap(d)) /\ filled <= Magnitude(Gap(d))

IntradayRule(family, d, t) ==
  LET goes(v) == v * Move(d, "future", t, Few) > 0
      Prices(s, n) == Read(d, Back(s, t, {0, n}))
      And(v, steps) == Rule(v, <<Prices("future", Few)>> \o steps \o <<Persistent(d, "spot", t, v)>>)
      open == FromOpen(d, t)
  IN
  CASE family = "OPEN_DRIVE" ->
         LET v == Sgn(open) IN
         And(v, <<Vwap(d, t),
                  Check(Magnitude(open) >= 4 /\ goes(v) /\ v * VwapSide(d, t) > 0)>>)
    [] family = "GAP_FADE" ->
         LET v == -Sgn(Gap(d)) IN
         And(v, <<Published(d, t, "previous close"), Check(GapFilled(d, t) /\ goes(v))>>)
    [] family = "FIRST_LAST" ->
         LET r == Move(d, "spot", Box, Box) v == Sgn(r) IN
         And(v, <<Read(d, {<<"spot", Box>>}),
                  Check(Magnitude(r) >= 2 /\ v * open > 0 /\ goes(v))>>)
    [] family = "TREND_PULLBACK" ->
         LET r == Move(d, "spot", t, Trend) v == Sgn(r) IN
         And(v, <<Prices("spot", Trend), Prices("spot", Pull),
                  Check(Magnitude(r) >= 3 /\ v * Move(d, "spot", t, Pull) < 0 /\ goes(v))>>)
    [] family = "VOLUME_REVERSAL" ->
         LET r == Move(d, "spot", t, Many) v == -Sgn(r) IN
         And(v, <<Prices("spot", Many), Volumes(d, t),
                  Check(/\ Magnitude(r) >= 2 /\ Thrice(d, t)
                        /\ v * Move(d, "future", t, 1) > 0)>>)
    [] family = "SECTOR_CATCHUP" ->
         LET b == Move(d, "BANK", t, Many) i == Move(d, "IT", t, Many) v == Sgn(b) IN
         And(v, <<Prices("BANK", Many), Prices("IT", Many), Prices("spot", Many),
                  Check(/\ Magnitude(b) >= 2 /\ v * i >= 2 /\ goes(v)
                        /\ 2 * v * Move(d, "spot", t, Many) < Least(Magnitude(b), Magnitude(i)))>>)
    [] family = "RANGE_FAILURE" ->
         LET hi == Highest(d, "spot", 1..Box) lo == Lowest(d, "spot", 1..Box)
             past == (t - Many)..(t - 1) v == Sgn(Move(d, "future", t, Few))
             left == IF v = 1 THEN Lowest(d, "spot", past) < lo ELSE Highest(d, "spot", past) > hi
         IN And(v, <<Read(d, At("spot", 1..Box)), Read(d, At("spot", past)),
                     Check(Within(d, lo, hi, {t}) /\ v # 0 /\ left)>>)
    [] family = "AFTERNOON_COMPRESSION" ->
         LET range == (t - Quiet - 2)..(t - 3)
             hi == Highest(d, "spot", range) lo == Lowest(d, "spot", range)
             v == Beyond(d, lo, hi, (t - 2)..t)
         IN Rule(v, <<Prices("future", Few), Read(d, At("spot", range)),
                      Read(d, At("spot", (t - 2)..t)), Check(hi - lo <= 1 /\ goes(v))>>)

-----------------------------------------------------------------------------
(* With the future, the other indices and the published sources *)

CoreFamilies == {"FUTURE_TREND", "FUTURE_OI", "IV_CHEAP_TREND", "PCR_CONFIRM", "PUBLISHED_PCR", "PAIN_ESCAPE",
  "PUBLISHED_PAIN", "INSTITUTIONAL_ALIGN"}
LeadFamilies == {"BASIS_LEAD", "SECTOR_CONFIRM", "GIFT_CATCHUP"}

\* A mutant of Crossed: only a crossing from below is seen.
CrossedUpwards(d, t, v, k) ==
  /\ v * (Level(d, "spot", t - 2) - k) <= 0
  /\ \A n \in {0, 1} : Level(d, "spot", t - n) > k
\* The index crossed a level two closes ago, and stays beyond it.
Crossed(d, t, v, k) ==
  /\ v * (Level(d, "spot", t - 2) - k) <= 0
  /\ \A n \in {0, 1} : v * (Level(d, "spot", t - n) - k) > 0

CoreRule(family, d, t) ==
  LET v == Sgn(Move(d, "spot", t, Many))
      And(steps) ==
        Rule(v, <<Read(d, Back("spot", t, {0, Many}) \cup Back("future", t, {0, Many})),
                  Vwap(d, t),
                  Check(v # 0 /\ v * Move(d, "future", t, Many) > 0 /\ v * VwapSide(d, t) > 0)>>
                \o steps)
      closes == Read(d, Back("spot", t, 0..2))
  IN
  CASE family = "FUTURE_TREND" -> And(<<>>)
    [] family = "FUTURE_OI" -> And(<<Read(d, Back("future", t, {0, Few})), Check(d.fact.oi >= 1)>>)
    [] family = "IV_CHEAP_TREND" ->
         And(<<Published(d, t, "iv"), Read(d, Back("spot", t, 0..Trend)),
               Read(d, Back("VIX", t, {0, Many})),
               Check(d.fact.cheap /\ Move(d, "VIX", t, Many) >= 0)>>)
    [] family = "PCR_CONFIRM" -> And(<<Published(d, t, "insights"), Check(v * d.fact.pcr >= 1)>>)
    [] family = "PUBLISHED_PCR" ->
         And(<<Published(d, t, "prior_chain"), Check(v * d.fact.pcr >= 1)>>)
    [] family = "PAIN_ESCAPE" ->
         And(<<Published(d, t, "insights"), closes, Check(Crossed(d, t, v, d.fact.pain))>>)
    [] family = "PUBLISHED_PAIN" ->
         And(<<Published(d, t, "prior_chain"), closes, Check(Crossed(d, t, v, d.fact.pain))>>)
    [] family = "INSTITUTIONAL_ALIGN" ->
         And(<<Published(d, t, "institutions"), Check(v * d.fact.fii > 0 /\ v * d.fact.dii > 0)>>)

LeadRule(family, d, t) ==
  LET Prices(s, n) == Read(d, Back(s, t, {0, n}))
      f == Move(d, "future", t, Few) spot == Move(d, "spot", t, Many)
      lead == Move(d, "GIFT", t - 2, Many)
  IN
  CASE family = "BASIS_LEAD" ->
         Rule(Sgn(f), <<Prices("future", Few), Prices("spot", Few),
                        Check(Magnitude(f) >= 1 /\ Sgn(f) * (f - Move(d, "spot", t, Few)) >= 1),
                        Persistent(d, "spot", t, Sgn(f))>>)
    [] family = "SECTOR_CONFIRM" ->
         Rule(Sgn(spot), <<Prices("spot", Many), Prices("BANK", Many), Prices("IT", Many),
                           Check(\A s \in {"BANK", "IT"} : Sgn(spot) * Move(d, s, t, Many) >= 1)>>)
    [] family = "GIFT_CATCHUP" ->
         Rule(Sgn(lead), <<Read(d, Back("GIFT", t, {2, 2 + Many})), Prices("spot", Many),
                           Check(Magnitude(lead) >= 2 /\ 2 * Sgn(lead) * spot < Magnitude(lead)),
                           Persistent(d, "spot", t, Sgn(lead))>>)

-----------------------------------------------------------------------------
(* On the options *)

ChainFamilies == {"CHAIN_UNWIND", "SKEW_UNWIND", "OPTION_ACCEL", "OPTION_ACCEL_OI", "PRIOR_OI_WALL"}

\* The strikes of the options that were read; the one next to a level, the lower of two.
ReadStrikes(d) == {x[2] : x \in {y \in d.there : y[1] \in Sides}}
Nearest(d, level) ==
  IF ReadStrikes(d) = {} THEN 0
  ELSE LET near == Min({Magnitude(k - level) : k \in ReadStrikes(d)})
       IN Min({k \in ReadStrikes(d) : Magnitude(k - level) = near})
\* A strike and those next to it.
Three(d, k) ==
  {j \in ReadStrikes(d) : ~\E i \in ReadStrikes(d) : (j < i /\ i < k) \/ (k < i /\ i < j)}
Rise(d, side, k) == d.chain[side][k].premium   \* of its price, in per cent
Unwound(d, side, k) == d.chain[side][k].oi <= -8

\* Open interest is in per cent of what it was, strikes having had as much.
ChainRule(family, d, t) ==
  LET v == Sgn(Move(d, "future", t, Few)) side == SideFor(v)
      some == Need(ReadStrikes(d) # {})
      k == Nearest(d, Level(d, "spot", t)) three == Three(d, k)
      future == Read(d, Back("future", t, {0, Few}))
      Oi(s) == MapThenFoldSet(+, 0, LAMBDA j : d.chain[s][j].oi, Pick, three)
  IN
  CASE family = "CHAIN_UNWIND" ->
         Rule(v, <<some, future, Read(d, {<<side, k>>}), Check(v # 0 /\ Rise(d, side, k) >= 15),
                   Need(Cardinality(three) = 3), Read(d, Sides \X three),
                   Check(Oi(side) <= -5 * 3 /\ Oi(Other(side)) >= 5 * 3)>>)
    [] family = "SKEW_UNWIND" ->
         Rule(v, <<some, future, Read(d, {<<side, k>>}), Check(v # 0 /\ Rise(d, side, k) >= 25),
                   Read(d, {<<Other(side), k>>}),
                   Check(Unwound(d, side, k) /\ Rise(d, Other(side), k) <= -10)>>)
    [] family \in {"OPTION_ACCEL", "OPTION_ACCEL_OI"} ->
         LET at == Nearest(d, Level(d, "spot", Frozen))
             fast == {s \in Sides : /\ Rise(d, s, at) >= 25 /\ d.chain[s][at].busy
                                    /\ family = "OPTION_ACCEL" \/ Unwound(d, s, at)}
             \* The faster of the two, the call when they are even.
             w == IF fast = {} THEN 0
                  ELSE IF "CE" \in fast /\ ("PE" \in fast => Rise(d, "CE", at) >= Rise(d, "PE", at))
                  THEN 1 ELSE -1
         IN Rule(w, <<Read(d, {<<"spot", Frozen>>}), some, Read(d, Sides \X {at})>>)
    [] family = "PRIOR_OI_WALL" ->
         LET wall == d.fact.wall  \* of each side
             Through(s) ==
               LET w == IF s = "CE" THEN 1 ELSE -1 IN
               /\ s \in DOMAIN wall /\ Crossed(d, t, w, wall[s])
               /\ w * Move(d, "future", t, Few) > 0
             Opens(s) == /\ Through(s) /\ <<s, wall[s]>> \in d.there
                         /\ Unwound(d, s, wall[s]) /\ Rise(d, s, wall[s]) >= 25
             Seen(s) == /\ s \in DOMAIN wall
                        /\ Crossed(d, t, IF s = "CE" THEN 1 ELSE -1, wall[s])
                             => Back("future", t, {0, Few}) \subseteq d.there
                        /\ Through(s) => <<s, wall[s]>> \in d.there
         IN Rule(IF Opens("CE") THEN 1 ELSE IF Opens("PE") THEN -1 ELSE 0,
                 <<Published(d, t, "prior_chain"), Read(d, {<<"spot", Many>>} \cup Back("spot", t, 0..2)),
                   Need(Seen("CE")), Need(Opens("CE") \/ Seen("PE"))>>)

-----------------------------------------------------------------------------
(* Breakouts *)

BreakoutFamilies == {"COMPRESSION_BREAK", "VWAP_RECLAIM", "FAILED_ORB", "ORB30", "LATE_BREAK", "LATE_FADE",
  "TREND1445"}

\* The minute the index first left a range in, for so many closes, if one of M.
FirstBreak(d, lo, hi, M, closes) ==
  LET breaks == {m \in M : Beyond(d, lo, hi, (m - closes + 1)..m) # 0} IN
  IF breaks = {} THEN Max(M) + 1 ELSE Min(breaks)

BreakoutRule(family, d, t) ==
  LET box == IF family \in {"LATE_BREAK", "LATE_FADE"} THEN LateBox
             ELSE IF family = "COMPRESSION_BREAK" THEN (t - Quiet - 2)..(t - 3) ELSE 1..Box
      hi == Highest(d, "spot", box) lo == Lowest(d, "spot", box)
      boxed == Read(d, At("spot", box)) last == Read(d, At("spot", {t - 1, t}))
      \* From the box to the minute of the break, in which so many closes are out.
      Broken(closes) == FirstBreak(d, lo, hi, (Max(box) + Max({1, closes - 1}))..(t - 1), closes)
      Way(m) == IF m = t THEN 0 ELSE Beyond(d, lo, hi, {m})
      Watched(m) == Read(d, At("spot", (Max(box) + 1)..Least(m, t - 1)))
      back == Check(Within(d, lo, hi, {t - 1, t}))
  IN
  CASE family = "COMPRESSION_BREAK" ->
         LET v == Beyond(d, lo, hi, (t - 2)..t) IN
         Rule(v, <<boxed, Read(d, At("spot", (t - 2)..t)), Volumes(d, t),
                   Check(hi - lo <= 1 /\ v * Move(d, "future", t, Few) > 0 /\ Busy(d, t))>>)
    [] family = "VWAP_RECLAIM" ->
         LET past == (t - 1 - Many)..(t - 2)
             v == IF \A m \in past : VwapSide(d, m) = -1 THEN 1
                  ELSE IF \A m \in past : VwapSide(d, m) = 1 THEN -1 ELSE 0
         IN Rule(v, <<Vwap(d, Min(past)), Vwap(d, t - 2), Check(v # 0),
                      Vwap(d, t - 1), Check(VwapSide(d, t - 1) = v),
                      Vwap(d, t), Check(VwapSide(d, t) = v),
                      Persistent(d, "spot", t, v), Volumes(d, t), Check(Busy(d, t))>>)
    [] family = "FAILED_ORB" ->
         LET m == Broken(3) v == -Way(m) IN
         Rule(v, <<boxed, Watched(m), Check(v # 0), last, back,
                   Persistent(d, "future", t, v), Volumes(d, t), Check(Busy(d, t))>>)
    [] family \in {"ORB30", "LATE_BREAK"} -> Rule(Beyond(d, lo, hi, {t - 1, t}), <<boxed, last>>)
    [] family = "LATE_FADE" ->
         LET m == Broken(1) IN Rule(-Way(m), <<boxed, last, Watched(m), back>>)
    [] family = "TREND1445" ->
         LET r == Move(d, "spot", t, Many)
             path == MapThenFoldSet(+, 0, LAMBDA m : Magnitude(Move(d, "spot", m, 1)), Pick,
                                    (t - Many + 1)..t)
         IN Rule(Sgn(r), <<Read(d, At("spot", (t - Trend)..t)),
                           Check(/\ Magnitude(r) >= 1 /\ r * Move(d, "spot", t, Trend) > 0
                                 /\ 5 * Magnitude(r) >= 3 * path)>>)

-----------------------------------------------------------------------------
(* The two rules that came first, written a second time, and the shock *)

SessionFamilies == {"GAP_FADE_DOUBLE", "NIFTY_SELLOFF_REBOUND_1510", "VOLATILITY_SHOCK_V1"}

ShockRule(d, t) ==
  LET Swing(m) == Magnitude(Move(d, "spot", m, Few))
      r == Move(d, "spot", t, Few) v == IF r > 0 THEN 1 ELSE -1
      compared == {m \in (t - (Bars - Few))..(t - Few - 1) :
                     {<<"spot", m>>, <<"spot", m - Few>>} \subseteq d.there /\ m - Few >= 1}
      usual == TwiceMedian([m \in compared |-> Swing(m)])
      prior == (t - (Bars - Few) - 1)..(t - 2)
      boundary == IF v = 1 THEN Highest(d, "spot", prior) ELSE Lowest(d, "spot", prior)
      \* Of the earlier minutes that are there, three at a time that follow each other.
      earlier == {m \in 1..(t - 3) : <<"future", m>> \in d.there}
      Rank(m) == Cardinality({n \in earlier : n < m})
      windows == {m \in earlier : Rank(m) % 3 = 0 /\ m..(m + 2) \subseteq earlier}
      volume == TwiceMedian([m \in windows |-> Total(d, m..(m + 2))])
  IN
  Rule(v, <<Read(d, {<<s, t - n>> : s \in {"spot", "future"}, n \in 0..(Bars - 1)}),
            Need(Cardinality(compared) >= Enough /\ usual > 0),
            Need(windows # {} /\ volume > 0),
            Check(/\ Magnitude(r) >= 3 /\ Magnitude(r) >= usual
                  /\ \A n \in {0, 1} : v * (Level(d, "spot", t - n) - boundary) > 0
                  /\ v * (Level(d, "spot", t) - boundary) <= 5
                  /\ v * Move(d, "future", t, Few) >= 1
                  /\ 20 * Total(d, (t - 2)..t) >= 13 * volume)>>)

SessionRule(family, d, t) ==
  CASE family = "NIFTY_SELLOFF_REBOUND_1510" ->
         Rule(1, <<Published(d, t, "next session"), Check(FromOpen(d, t) <= -8)>>)
    [] family = "GAP_FADE_DOUBLE" ->
         LET v == IF Gap(d) > 0 THEN -1 ELSE 1 IN
         Rule(v, <<Published(d, t, "previous close"), Read(d, Back("spot", t, 0..2)),
                   Read(d, Back("future", t, {0, Few})),
                   Check(GapFilled(d, t) /\ v * Move(d, "future", t, Few) > 0),
                   Persistent(d, "spot", t, v)>>)
    [] family = "VOLATILITY_SHOCK_V1" -> ShockRule(d, t)

-----------------------------------------------------------------------------

Families == OvernightFamilies \cup IntradayFamilies \cup CoreFamilies \cup LeadFamilies
            \cup ChainFamilies \cup BreakoutFamilies \cup SessionFamilies

RuleOf(family, d, t) ==
  CASE family \in OvernightFamilies -> OvernightRule(family, d, t)
    [] family \in IntradayFamilies -> IntradayRule(family, d, t)
    [] family \in CoreFamilies -> CoreRule(family, d, t)
    [] family \in LeadFamilies -> LeadRule(family, d, t)
    [] family \in ChainFamilies -> ChainRule(family, d, t)
    [] family \in BreakoutFamilies -> BreakoutRule(family, d, t)
    [] family \in SessionFamilies -> SessionRule(family, d, t)
Says(family, d) == Verdict(d, Last, RuleOf(family, d, Last))

Unjudged == [family \in Families |-> "WAITING"]

Init == day \in Days /\ signals = Unjudged

Judge ==
  /\ signals = Unjudged
  /\ signals' = [family \in Families |-> Says(family, day)]
  /\ UNCHANGED day

Next == Judge
Spec == Init /\ [][Next]_vars

-----------------------------------------------------------------------------
(* Properties *)

Upto(f, t) == [m \in {n \in DOMAIN f : n <= t} |-> f[m]]
\* What was there by the minute that is judged.
ByThen(d) ==
  [d EXCEPT !.level = [s \in Series |-> Upto(d.level[s], Last)], !.volume = Upto(@, Last),
            !.there = {x \in @ : x[1] \in Sides \/ x[2] <= Last}]

\* The evaluation of a minute may run after the next minute came in, and it holds all
\* rows that were received: a signal rests on nothing later than the minute it is of.
NoLookAhead ==
  \A f \in Families : signals[f] # "WAITING" => signals[f] = Says(f, ByThen(day))

\* A minute that is missing never makes a signal: the same day without gaps gives it too.
\* Not so by design where the rows that are there are what is compared: the strikes read,
\* the windows of the shock.
Whole(d) ==
  [d EXCEPT !.there = @ \cup {<<s, m>> : s \in Series, m \in 1..Last}]
GapsGiveNoSignal ==
  \A f \in Families \ {"VOLATILITY_SHOCK_V1"} :
    signals[f] \in Sides => Says(f, Whole(day)) = signals[f]

\* A rule and its mirror image: what buys a call on a day buys a put on the opposite one.
OneSided == {"NIFTY_SELLOFF_REBOUND", "SELLOFF_CALL", "SELLOFF_PUT", "RALLY_CALL", "RALLY_PUT", "IV_CHEAP_TREND",
             "NIFTY_SELLOFF_REBOUND_1510"}
Opposite(d) ==
  [d EXCEPT !.level = [s \in Series |-> [m \in DOMAIN d.level[s] |-> -d.level[s][m]]],
            !.fact = [@ EXCEPT !.close = -@, !.trend = -@, !.pcr = -@, !.pain = -@, !.fii = -@, !.dii = -@]]
Mirrored ==
  \A f \in Families \ (OneSided \cup ChainFamilies) :
    LET said == Says(f, Opposite(day)) IN
    signals[f] # "WAITING" => signals[f] = IF said \in Sides THEN Other(said) ELSE said

\* The two rules that are written twice say the same, and the rules that contradict each
\* other never buy the same side, nor the two of a breakout at once.
TwinsAgree ==
  LET Buys(f) == IF signals[f] \in Sides THEN signals[f] ELSE "NONE" IN
  /\ Buys("GAP_FADE_DOUBLE") = Buys("GAP_FADE")
  /\ Buys("NIFTY_SELLOFF_REBOUND_1510") = Buys("NIFTY_SELLOFF_REBOUND")
  /\ Buys("TWO_SIDED_REVERSAL") \in Sides =>
       Buys("TWO_SIDED_CONTINUATION") = Other(Buys("TWO_SIDED_REVERSAL"))
  /\ "NONE" \in {Buys("LATE_BREAK"), Buys("LATE_FADE")}
  /\ "NONE" \in {Buys("TREND_CONTINUATION"), Buys("TREND_PULLBACK_OVERNIGHT")}
  /\ \A f \in CoreFamilies : Buys(f) \in {"NONE", Buys("FUTURE_TREND")}

RulesAreSound == NoLookAhead /\ GapsGiveNoSignal /\ Mirrored /\ TwinsAgree
=============================================================================
