------------------------------- MODULE Inputs -------------------------------
(* The completed minutes strategies are evaluated on: those the official feed  *)
(* sends (stream_minutes.py), those a chart request returns, the cache that    *)
(* joins them (strategy_inputs.py, MinuteSource) and the refresh that          *)
(* evaluates. A minute is named by the moment it is complete, and the clock    *)
(* counts minutes; five seconds are less than one.                             *)
EXTENDS Integers, FiniteSets, FiniteSetsExt, Functions

CONSTANTS
  Values,    \* a completed minute may be sent with
  Accepted,  \* the age up to which a streamed minute is taken: 90 seconds
  Kept,      \* the age up to which it is kept: 120 seconds
  MaxTime, MaxConns, MaxFaults  \* bounds

Partial == 0   \* the minute that is still forming
True == CHOOSE v \in Values : \A w \in Values : v <= w

VARIABLES
  now,
  link,       \* connections of the feed, and is it up?
  rows, conflicts, epoch,  \* CompletedIndexMinutes
  recent,     \* was a row received less than five seconds ago?
  cache,      \* MinuteSource.cache of the index
  read,       \* the refresh under way
  published,  \* the latest evaluation: its minute, and on what
  versions,   \* history: values seen of a minute on this connection, in time
  holes,      \* history: minutes the charts left out when last asked for them
  faults

streamVars == <<rows, conflicts, epoch, recent, versions>>
vars == <<now, link, streamVars, cache, read, published, holes, faults>>

NoRows == [m \in {} |-> 0]
NoRead == [pc |-> "idle", end |-> 0, boundary |-> 0, from |-> 0,
           answer |-> NoRows, omitted |-> {}]
Latest(f) == Max(DOMAIN f)

-----------------------------------------------------------------------------
(* The stream *)

StreamReset ==
  /\ rows' = NoRows /\ conflicts' = {} /\ epoch' = 0
  /\ recent' = FALSE /\ versions' = [m \in 1..MaxTime |-> {}]

Connect ==
  /\ ~link.up /\ link.n < MaxConns
  /\ link' = [n |-> link.n + 1, up |-> TRUE]
  /\ UNCHANGED <<now, streamVars, cache, read, published, holes, faults>>

Disconnect ==
  /\ link.up
  /\ link' = [link EXCEPT !.up = FALSE]
  /\ StreamReset
  /\ UNCHANGED <<now, cache, read, published, holes, faults>>

Young(ms) == {m \in ms : now - m <= Kept}

\* A minute sent with two values is forgotten, and so is a third.
WithRow(m, v) ==
  LET seen == IF epoch = link.n THEN rows ELSE NoRows
      bad == IF epoch = link.n THEN conflicts ELSE {}
  IN IF m \in bad THEN [rows |-> seen, bad |-> bad, fresh |-> FALSE]
     ELSE IF m \in DOMAIN seen /\ seen[m] # v
     THEN [rows |-> Restrict(seen, DOMAIN seen \ {m}), bad |-> bad \cup {m}, fresh |-> FALSE]
     ELSE [rows |-> [x \in DOMAIN seen \cup {m} |-> IF x = m THEN v ELSE seen[x]],
           bad |-> bad, fresh |-> TRUE]

\* CompletedIndexMinutes.accept of a frame with one row. The row of a minute that
\* is not complete, or not of late, is skipped.
OnStream(m, v) ==
  /\ link.up /\ m <= now /\ now - m <= Accepted
  /\ LET next == WithRow(m, v) IN
       /\ rows' = Restrict(next.rows, Young(DOMAIN next.rows))
       /\ conflicts' = Young(next.bad)
       /\ recent' = (next.fresh \/ (recent /\ epoch = link.n))
  /\ epoch' = link.n
  /\ versions' = [versions EXCEPT ![m] = @ \cup {v}]
  /\ faults' = faults + (IF v = True THEN 0 ELSE 1) /\ faults' <= MaxFaults
  /\ UNCHANGED <<now, link, cache, read, published, holes>>

-----------------------------------------------------------------------------
(* MinuteSource.fetch *)

\* The completed minute of now, received within five seconds.
Current == recent /\ now \in DOMAIN rows

\* Only a baseline that is complete up to it, or with what the stream has.
Contiguous ==
  /\ Current /\ cache # NoRows
  /\ \A m \in (Latest(cache) + 1)..now : m \in DOMAIN rows
  /\ Latest(cache) >= now - 2

Joined(saved, more) ==
  [m \in DOMAIN saved \cup DOMAIN more |-> IF m \in DOMAIN more THEN more[m] ELSE saved[m]]

UpTo(f, m) == Restrict(f, {x \in DOMAIN f : x <= m})

\* StrategyInputWorker.publish; the evaluation is refused when its minute is more
\* than 90 seconds old.
Publish(bars, end) ==
  published' = [at |-> end, bars |-> bars, stale |-> now - end > 1]

\* A refresh, for the minute in which it starts.
FromStream ==
  /\ read.pc = "idle" /\ Contiguous
  /\ cache' = UpTo(Joined(cache, rows), now)
  /\ Publish(cache', now)
  /\ UNCHANGED <<now, link, streamVars, read, holes, faults>>

OverlapShort == 1 \* mutant: the bar at the lower bound is expected back
Overlap == 2

Ask ==
  /\ read.pc = "idle" /\ ~Contiguous
  /\ LET boundary == IF cache = NoRows THEN 0 ELSE Max({0, Latest(cache) - 1})
     IN read' = [NoRead EXCEPT !.pc = "asked", !.end = now, !.boundary = boundary,
                              !.from = boundary - (IF cache = NoRows THEN 1 ELSE Overlap)]
  /\ UNCHANGED <<now, link, streamVars, cache, published, holes, faults>>

\* The charts answer with what they have by then: the bars that start after the
\* lower bound, the forming one too, less what they omit.
Serve(omitted) ==
  LET asked == {m \in 1..(now + 1) : m - 1 > read.from}
  IN /\ read.pc = "asked"
     /\ omitted \subseteq asked /\ faults' = faults + Cardinality(omitted) /\ faults' <= MaxFaults
     /\ read' = [read EXCEPT !.pc = "served",
          !.answer = [m \in asked \ omitted |-> IF m = now + 1 THEN Partial ELSE True],
          !.omitted = omitted]
     /\ UNCHANGED <<now, link, streamVars, cache, published, holes>>

\* Bars that were complete when the request was made.
CompletedAny(m) == m <= now \* mutant: when the answer is read
Completed(m) == m <= read.end /\ m <= now

\* The interval from the boundary on is replaced, with its omissions.
Receive ==
  /\ read.pc = "served"
  /\ LET taken == {m \in DOMAIN read.answer : read.boundary <= m /\ Completed(m)}
         saved == {m \in DOMAIN cache : m < read.boundary /\ m <= read.end}
     IN cache' = Joined(Restrict(cache, saved), Restrict(read.answer, taken))
  /\ Publish(cache', read.end)
  /\ read' = NoRead
  /\ holes' = (holes \ DOMAIN read.answer) \cup read.omitted
  /\ UNCHANGED <<now, link, streamVars, faults>>

\* A failed or malformed answer takes the cache with it; the refresh goes on
\* without the index.
Fail ==
  /\ read.pc \in {"asked", "served"} /\ faults < MaxFaults
  /\ cache' = NoRows /\ read' = NoRead /\ faults' = faults + 1
  /\ Publish(NoRows, read.end)
  /\ UNCHANGED <<now, link, streamVars, holes>>

-----------------------------------------------------------------------------

Later ==
  /\ recent /\ recent' = FALSE
  /\ UNCHANGED <<now, link, rows, conflicts, epoch, cache, read, published, versions, holes, faults>>

Minute ==
  /\ now < MaxTime /\ now' = now + 1 /\ recent' = FALSE
  /\ UNCHANGED <<link, rows, conflicts, epoch, cache, read, published, versions, holes, faults>>

Init ==
  /\ now = 1 /\ link = [n |-> 0, up |-> FALSE]
  /\ rows = NoRows /\ conflicts = {} /\ epoch = 0 /\ recent = FALSE
  /\ versions = [m \in 1..MaxTime |-> {}]
  /\ cache = NoRows /\ read = NoRead /\ holes = {} /\ faults = 0
  /\ published = [at |-> 0, bars |-> NoRows, stale |-> TRUE]

Next ==
  \/ Connect \/ Disconnect
  \/ \E m \in 1..MaxTime, v \in Values : OnStream(m, v)
  \/ FromStream \/ Ask \/ Receive \/ Fail
  \/ Serve({}) \/ \E m \in 1..(MaxTime + 1) : Serve({m})
  \/ Later \/ Minute

-----------------------------------------------------------------------------
(* What must hold *)

\* A minute the stream offers has had one value on this connection: once it was
\* sent with two, it is not offered again (stream_minutes.py 36-43).
StreamUnambiguous == \A m \in DOMAIN rows : versions[m] = {rows[m]}

\* A bar that is evaluated was complete when it was sent, however long the answer
\* took; and it is of the minute evaluated or before (strategy_inputs.py 145-151).
BarsWereComplete ==
  /\ \A m \in DOMAIN cache : cache[m] # Partial /\ m <= now
  /\ \A m \in DOMAIN published.bars : m <= published.at

\* The cache has no hole but those the charts had when they were last asked for
\* the minute: neither the overlap, nor the stream, nor a reconnect makes one
\* (strategy_inputs.py 115-160, docs/INPUT-PIPELINE-REPAIR-2026-10-14.md).
NoHoleOfOurOwn ==
  cache # NoRows => \A m \in 1..Latest(cache) : m \in DOMAIN cache \/ m \in holes

\* What a strategy is evaluated on is true, in time and without a gap of the
\* program's own making.
InputsAreTrue == StreamUnambiguous /\ BarsWereComplete /\ NoHoleOfOurOwn
=============================================================================
