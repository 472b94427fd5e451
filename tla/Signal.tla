------------------------------- MODULE Signal -------------------------------
(* The auction signal: the frames of the official feed (service.py,            *)
(* record_upstox), the reference frozen when continuous trading closes, the    *)
(* streaks of observations under which a contract lags, and the entry decided  *)
(* on one of them that waits for the order lock (engine.py, strategy.py).      *)
EXTENDS Integers, Sequences, FiniteSets

CONSTANTS
  Calls, Puts,     \* contracts by type
  Strike,          \* of each contract
  TickSize, Asks,  \* an ask so high that no contract lags stands for a thin book
  Levels,          \* values of the index
  Needed,          \* observations behind a reference
  MaxAge,          \* of such an observation
  Uncertainties,   \* what the host's clock may be off by
  MaxUncertainty,
  CloseAt,         \* continuous trading ends: no observation for a reference later
  MaxTime, MaxFrames, MaxConns, MaxCrashes  \* bounds

Contracts == Calls \cup Puts
Auction == {"CAS_LM_START", "CAS_M_STOP"}
Phases == {"CTS_CLOSE", "CAS_LM_START", "CAS_STOP"}

VARIABLES
  now,        \* the clock
  signal,     \* the connections of the official feed
  snapshot,   \* UpstoxFeedClient.snapshot_epoch
  status, listening, reference, heard, observations, lastAt, streaks,
  marketUp, books,
  entry,      \* the entry behind orders.submit
  frozen,     \* references_frozen
  fresh,      \* history: observations since each contract last did not lag
  frames, crashed

feedVars == <<signal, snapshot>>
signalVars == <<status, listening, reference, heard, observations, lastAt>>
marketVars == <<marketUp, books>>
bounds == <<frames, crashed>>

NoStatus == [phase |-> "none", at |-> 0, conn |-> 0]
NoReference == [value |-> 0, at |-> 0, samples |-> {}]
NoEntry == [contract |-> {}, history |-> <<>>, status |-> NoStatus, last |-> <<>>, book |-> FALSE]
NoAsk == 0
NoBooks == [c \in Contracts |-> NoAsk]
NoStreaks == [c \in Contracts |-> <<>>]

-----------------------------------------------------------------------------
(* What lags *)

Intrinsic(c, v) ==
  LET x == IF c \in Calls THEN v - Strike[c] ELSE Strike[c] - v IN IF x > 0 THEN x ELSE 0

Direction(v) ==
  IF v > reference.value THEN Calls ELSE IF v < reference.value THEN Puts ELSE {}

Lags(c, v) == books[c] # NoAsk /\ books[c] + TickSize <= Intrinsic(c, v)
Qualifies(c, v) == c \in Direction(v) /\ Lags(c, v)

\* The value and the identity of the last observation, <<>> before the first.
LastSeen == IF observations = <<>> THEN <<>> ELSE observations[Len(observations)]
Ids(history) == {history[i].id : i \in DOMAIN history}

-----------------------------------------------------------------------------
(* The reference: the median of the last observations before the boundary *)

EligibleStamped(at, off) == \* mutant: the time of receipt does not matter
  {i \in DOMAIN heard : heard[i].at >= at - MaxAge /\ heard[i].at < at}

\* Observations that were stamped and received in time, each identity once, the
\* later receipt of it.
Eligible(at, off) ==
  {i \in DOMAIN heard : LET x == heard[i] IN
     x.at >= at - MaxAge /\ x.at < at /\ x.seen >= at - MaxAge /\ x.seen + off < at}
Distinct(is) == {i \in is : \A j \in is : j > i => heard[j].id # heard[i].id}
Later(i, j) == heard[j].at > heard[i].at \/ (heard[j].at = heard[i].at /\ j > i)
Latest(is) == {i \in is : Cardinality({j \in is : Later(i, j)}) < Needed}

Median(is) ==
  CHOOSE v \in {heard[i].value : i \in is} :
    /\ 2 * Cardinality({i \in is : heard[i].value < v}) < Needed
    /\ 2 * Cardinality({i \in is : heard[i].value > v}) < Needed

Selected(at, off) ==
  LET is == Latest(Distinct(Eligible(at, off)))
  IN IF off > MaxUncertainty \/ Cardinality(is) # Needed THEN NoReference
     ELSE [value |-> Median(is), at |-> at, samples |-> {heard[i] : i \in is}]

-----------------------------------------------------------------------------
(* Connections *)

\* SessionEngine.signal_reconnect; observations of two connections never join.
SignalReset(up) ==
  /\ listening' = up /\ status' = NoStatus
  /\ observations' = <<>> /\ heard' = <<>> /\ lastAt' = -1
  /\ streaks' = NoStreaks

Connect ==
  /\ ~signal.up /\ signal.n < MaxConns
  /\ signal' = [n |-> signal.n + 1, up |-> TRUE]
  /\ SignalReset(TRUE)
  /\ UNCHANGED <<now, snapshot, reference, marketVars, entry, frozen, bounds>>

Disconnect ==
  /\ signal.up
  /\ signal' = [signal EXCEPT !.up = FALSE]
  /\ SignalReset(FALSE)
  /\ UNCHANGED <<now, snapshot, reference, marketVars, entry, frozen, bounds>>

\* SessionEngine.market_reconnect.
MarketReset(up) ==
  /\ marketUp' = up /\ books' = NoBooks /\ streaks' = NoStreaks
  /\ entry' = [entry EXCEPT !.book = FALSE]
  /\ UNCHANGED <<now, feedVars, signalVars, frozen, bounds>>

MarketConnect == ~marketUp /\ MarketReset(TRUE)
MarketDisconnect == marketUp /\ MarketReset(FALSE)

-----------------------------------------------------------------------------
(* Frames of the official feed. One that carries a status and an index is one  *)
(* OnStatus and then one IndexFrame: nothing comes between.                    *)

Frame ==
  /\ signal.up /\ frames < MaxFrames
  /\ frames' = frames + 1
  /\ UNCHANGED <<now, signal, marketVars, entry, crashed>>

OnStatusAgain(phase, at, off) == \* mutant: every close selects
  /\ Frame
  /\ status # NoStatus => at >= status.at
  /\ status' = [phase |-> phase, at |-> at, conn |-> signal.n]
  /\ reference' = IF phase = "CTS_CLOSE" /\ Selected(at, off) # NoReference
                  THEN Selected(at, off) ELSE reference
  /\ frozen' = reference'
  /\ UNCHANGED <<snapshot, listening, heard, observations, lastAt, streaks>>

\* An older status of the connection is ignored; the first close with enough
\* observations freezes the reference in memory and in the ledger.
OnStatus(phase, at, off) ==
  /\ Frame
  /\ status # NoStatus => at >= status.at
  /\ status' = [phase |-> phase, at |-> at, conn |-> signal.n]
  /\ reference' = IF phase = "CTS_CLOSE" /\ reference = NoReference
                  THEN Selected(at, off) ELSE reference
  /\ frozen' = reference'
  /\ UNCHANGED <<snapshot, listening, heard, observations, lastAt, streaks>>

\* The status of another day is not believed, nor is anything heard before it.
ForeignStatus ==
  /\ Frame /\ SignalReset(FALSE)
  /\ UNCHANGED <<snapshot, reference, frozen>>

\* The first index of a connection is the provider's snapshot, of any age.
Snapshot ==
  /\ Frame /\ snapshot # signal.n
  /\ snapshot' = signal.n
  /\ UNCHANGED <<signalVars, streaks, frozen>>

\* SessionEngine.on_ltp, called before the close only.
OnLtp(at, value) ==
  /\ Frame /\ snapshot = signal.n
  /\ reference = NoReference /\ now < CloseAt
  /\ heard' = Append(heard, [at |-> at, seen |-> now, value |-> value,
                             id |-> <<signal.n, at, value>>])
  /\ UNCHANGED <<snapshot, status, listening, reference, observations, lastAt, streaks, frozen>>

\* SessionEngine.on_iep: an older or a repeated observation is dropped, the other
\* ones extend the streaks of the contracts that lag and end those of the rest.
OnIep(at, value) ==
  LET id == <<signal.n, at, value>>
      o == [value |-> value, id |-> id]
  IN /\ Frame /\ snapshot = signal.n
     /\ reference # NoReference /\ status # NoStatus
     /\ at >= lastAt /\ at >= status.at
     /\ lastAt' = at
     /\ IF id \in Ids(observations) THEN UNCHANGED <<observations, streaks>>
        ELSE /\ observations' = Append(observations, o)
             /\ streaks' = [c \in Contracts |->
                              IF Qualifies(c, value) THEN Append(streaks[c], o) ELSE <<>>]
     /\ UNCHANGED <<snapshot, status, listening, reference, heard, frozen>>

\* During the auction a frame without an indicative price ends every streak.
MissingIep ==
  /\ Frame /\ snapshot = signal.n
  /\ reference # NoReference /\ status.phase \in Auction
  /\ streaks' = NoStreaks
  /\ UNCHANGED <<snapshot, signalVars, frozen>>

-----------------------------------------------------------------------------
(* Books *)

KeepsAlways(c, ask) == TRUE \* mutant: only observations end a streak

Keeps(c, ask) == observations # <<>> =>
  ask # NoAsk /\ ask + TickSize <= Intrinsic(c, LastSeen.value)

\* SessionEngine.on_book: a contract that stops lagging between two observations
\* starts anew.
OnBook(c, ask) ==
  /\ marketUp
  /\ books' = [books EXCEPT ![c] = ask]
  /\ streaks' = IF Keeps(c, ask) THEN streaks ELSE [streaks EXCEPT ![c] = <<>>]
  /\ entry' = [entry EXCEPT !.book = @ /\ c \notin entry.contract]
  /\ UNCHANGED <<now, feedVars, signalVars, marketUp, frozen, bounds>>

\* record_dhan: a book that cannot be decoded is forgotten with its streak, a
\* frame that cannot be split takes them all.
OnBadBooks(cs) ==
  /\ marketUp
  /\ books' = [c \in Contracts |-> IF c \in cs THEN NoAsk ELSE books[c]]
  /\ streaks' = [c \in Contracts |-> IF c \in cs THEN <<>> ELSE streaks[c]]
  /\ entry' = [entry EXCEPT !.book = @ /\ entry.contract \cap cs = {}]
  /\ UNCHANGED <<now, feedVars, signalVars, marketUp, frozen, bounds>>

-----------------------------------------------------------------------------
(* The entry *)

\* find_opportunity: two observations in a row, and the ask below what every one
\* of them makes the contract worth.
Confirmed(c) ==
  /\ Cardinality(Ids(streaks[c])) >= 2
  /\ books[c] # NoAsk
  /\ \A i \in DOMAIN streaks[c] : books[c] + TickSize <= Intrinsic(c, streaks[c][i].value)

\* The entry decided, as _enter resumes from funds().
Decide(c) ==
  /\ entry = NoEntry
  /\ marketUp /\ listening /\ status.phase \in Auction
  /\ Confirmed(c)
  /\ entry' = [contract |-> {c}, history |-> streaks[c], status |-> status,
               last |-> LastSeen, book |-> TRUE]
  /\ UNCHANGED <<now, feedVars, signalVars, streaks, marketVars, frozen, bounds>>

\* current_inputs, called under the order lock right before the POST.
CurrentInputs ==
  /\ marketUp /\ listening
  /\ status = entry.status /\ status.phase \in Auction
  /\ LastSeen = entry.last
  /\ entry.book

\* The order is sent if the inputs are current, and dropped otherwise.
Leave ==
  /\ entry # NoEntry
  /\ entry' = NoEntry
  /\ UNCHANGED <<now, feedVars, signalVars, streaks, marketVars, frozen, bounds>>

-----------------------------------------------------------------------------

Pass ==
  /\ now < MaxTime /\ now' = now + 1
  /\ UNCHANGED <<feedVars, signalVars, streaks, marketVars, entry, frozen, bounds>>

\* The process starts again with what the ledger kept.
Crash ==
  /\ crashed < MaxCrashes /\ crashed' = crashed + 1
  /\ signal' = [signal EXCEPT !.up = FALSE] /\ snapshot' = 0
  /\ SignalReset(TRUE)
  /\ reference' = frozen
  /\ marketUp' = TRUE /\ books' = NoBooks /\ entry' = NoEntry
  /\ UNCHANGED <<now, frozen, frames>>

\* A day from its start, or from a restart after the reference was frozen.
Init ==
  /\ now \in {0, CloseAt}
  /\ signal = [n |-> 0, up |-> FALSE] /\ snapshot = 0
  /\ status = NoStatus /\ listening = TRUE
  /\ frozen \in {NoReference}
       \cup {[value |-> v, at |-> 0, samples |-> {}] : v \in Levels}
  /\ (now = 0) = (frozen = NoReference)
  /\ reference = frozen
  /\ heard = <<>> /\ observations = <<>> /\ lastAt = -1 /\ streaks = NoStreaks
  /\ marketUp = TRUE /\ books = NoBooks /\ entry = NoEntry
  /\ fresh = [c \in Contracts |-> {}]
  /\ frames = 0 /\ crashed = 0

\* What an observer notes: a contract lags as long as both feeds are up, it has a
\* book, and the last observation is above it.
Lagging(c) == signal.up /\ marketUp /\ observations # <<>> /\ Qualifies(c, LastSeen.value)

Note ==
  fresh' = [c \in Contracts |->
    IF ~Lagging(c)' THEN {}
    ELSE IF observations' # observations THEN fresh[c] \cup {LastSeen'.id} ELSE fresh[c]]

Stamps == {now - 1, now}

Step ==
  \/ Connect \/ Disconnect \/ MarketConnect \/ MarketDisconnect
  \/ \E phase \in Phases, at \in Stamps, off \in Uncertainties : OnStatus(phase, at, off)
  \/ ForeignStatus \/ Snapshot \/ MissingIep
  \/ \E at \in Stamps, value \in Levels : OnLtp(at, value) \/ OnIep(at, value)
  \/ \E c \in Contracts, ask \in Asks : OnBook(c, ask)
  \/ \E c \in Contracts : OnBadBooks({c}) \/ Decide(c)
  \/ OnBadBooks(Contracts)
  \/ Leave \/ Pass \/ Crash

Next == Step /\ Note

-----------------------------------------------------------------------------
(* What must hold *)

TypeOK ==
  /\ now \in 0..MaxTime /\ signal.n \in 0..MaxConns /\ snapshot \in 0..MaxConns
  /\ status.phase \in Phases \cup {"none"}
  /\ \A c \in Contracts : books[c] \in Asks \cup {NoAsk}
  /\ \A i \in DOMAIN observations : observations[i].value \in Levels

\* A streak has no gap: its observations all came since the contract last did not
\* lag, on this connection, whatever books, statuses and reconnects came between
\* (engine.py 109-179, "cannot revive observations from before that
\* interruption"). So an order that is sent rests on two of them.
StreakUnbroken ==
  /\ \A c \in Contracts : Ids(streaks[c]) \subseteq fresh[c]
  /\ \A c \in entry.contract :
       CurrentInputs => Cardinality(Ids(entry.history)) >= 2 /\ Ids(entry.history) \subseteq fresh[c]

\* A reference rests on enough distinct observations that were stamped and
\* received before its boundary, on one connection (strategy.py 30-61).
ReferenceIsSound ==
  reference.samples # {} =>
    /\ Cardinality({x.id : x \in reference.samples}) = Needed
    /\ \A x \in reference.samples : x.at < reference.at /\ x.seen < reference.at
    /\ Cardinality({x.id[1] : x \in reference.samples}) = 1

\* The reference of a day never changes, and a restart finds it (ledger.py 73-79).
ReferenceFrozen == [][reference # NoReference => reference' = reference]_<<reference>>
=============================================================================
