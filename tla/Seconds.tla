------------------------------- MODULE Seconds -------------------------------
(* The seconds strategies: the tape of futures and option quotes they are      *)
(* fitted on (seconds_strategies.py, future_input.py), the two sockets that    *)
(* feed it (service.py), the evaluations of the engine (seconds_engine.py) and *)
(* an entry decided on one of them, across funds() and the order lock          *)
(* (directional.py, enter_locked). What the rules compute is a choice of the   *)
(* model; what they may compute it from is not. The calendar is known.         *)
EXTENDS Integers, FiniteSets

CONSTANTS
  Options,    \* contracts
  Between,    \* those that lie between two others, quoted when they are
  Forecasts,  \* target prices
  QuoteAge,   \* the age up to which a quote is current: 1.5 seconds
  Warm,       \* the history a rule needs: 60 seconds
  Recent,     \* the end of it that a fit leaves out: 5 seconds, and its life
  Needed,     \* pairs behind a fit
  Bucket,     \* the length of an episode: 30 seconds
  Deadline,   \* the lifetime of a signal: 5 seconds
  CloseAt, Margin,      \* no rule is evaluated so shortly before the close
  MaxTime, MaxMarket, MaxFutures, MaxFaults  \* bounds

VARIABLES
  now,
  market, futures,  \* the sockets: connections, and is it up?
  rows,             \* SecondsTape.future: when, and on which two connections
  epoch, usable,    \* and its epoch, 0 for none, and future_usable
  quotes,           \* SecondsTape.options, likewise
  fits,             \* beta_cache and curve_cache
  books,            \* engine.books of the options
  sample,           \* the evaluation of a strategy
  refreshed,        \* was it made within the last quarter of a second?
  entry,            \* the entry under way
  sent,             \* was the order of the latest entry sent?
  faults

sockets == <<market, futures>>
tape == <<rows, epoch, usable, quotes, fits>>
evaluation == <<sample, refreshed>>
vars == <<now, sockets, tape, books, evaluation, entry, sent, faults>>

NoBook == [at |-> 0, epoch |-> 0]
NoFit == [at |-> 0, from |-> {}]
NoSample == [option |-> {}, target |-> 0, episode |-> <<>>, at |-> 0, from |-> {}]
NoEntry == [pc |-> "none", signal |-> NoSample, book |-> NoBook]

Fits == Options \X {"beta"} \cup Between \X {"curve"}
\* The two connections an observation belongs to.
These == <<market.n, futures.n>>
Last(S) == CHOOSE x \in S : \A y \in S : y.at <= x.at

-----------------------------------------------------------------------------
(* The tape *)

TapeResetKeepingFits == \* mutant: the responses fitted before stay
  /\ rows' = {} /\ epoch' = 0 /\ usable' = FALSE
  /\ quotes' = [o \in Options |-> {}] /\ UNCHANGED fits

\* SecondsTape.reset
TapeReset ==
  /\ rows' = {} /\ epoch' = 0 /\ usable' = FALSE
  /\ quotes' = [o \in Options |-> {}] /\ fits' = [k \in Fits |-> NoFit]

\* SecondsEngine.reset
SecondsReset == TapeReset /\ sample' = NoSample /\ refreshed' = FALSE

FutureCurrent == usable /\ rows # {} /\ now - Last(rows).at <= QuoteAge

\* SecondsTape.future_at: a price no older than two seconds then.
FutureAt(t) == \E r \in rows : r.at <= t /\ t - r.at <= 1

CurrentBook(o) ==
  books[o] # NoBook /\ now - books[o].at <= QuoteAge /\ books[o].epoch = epoch

\* SecondsTape.ingest
Selected == {o \in Options : CurrentBook(o)}
Ingested(o) ==
  IF o \in Selected THEN quotes[o] \cup {[at |-> books[o].at, from |-> These]} ELSE quotes[o]

\* SecondsTape.beta, how the contract answers to the future, and the curve, what it costs
\* beside its neighbours: a fit is used for five seconds, and leaves out the latest five.
Window(o) == {q \in Ingested(o) : now - Warm <= q.at /\ q.at <= now - Recent}
Pairs(o) == {q \in Window(o) : FutureAt(q.at)}
Fit(k) ==
  LET pairs == IF k[2] = "beta" THEN Pairs(k[1]) ELSE Window(k[1])
      others == IF k[2] = "beta" THEN rows ELSE UNION {Ingested(o) : o \in Selected}
  IN IF fits[k] # NoFit /\ now - fits[k].at < Recent THEN fits[k]
     ELSE IF Cardinality(pairs) < Needed THEN NoFit
     ELSE [at |-> now, from |-> {x.from : x \in pairs \cup others}]

Asked == {k \in Fits : k[1] \in Selected}

Warmed == \A r \in rows : \E f \in rows : f.at <= r.at /\ now - f.at >= Warm

\* What a rule rests on besides the move of the future: a fit, or the flow of the quotes
\* since one of two to four seconds ago, which needs none.
Flow(o) == \E q \in Ingested(o) : now - 2 <= q.at /\ q.at <= now - 1
Grounds(o) ==
  {f.from : f \in {Fit(k) : k \in {x \in Fits : x[1] = o}} \ {NoFit}}
  \cup (IF Flow(o) THEN {{q.from : q \in Ingested(o)}} ELSE {})

\* The signals a rule may emit.
Emit ==
  \E o \in Selected : \E t \in Forecasts : \E g \in Grounds(o) :
    sample' = [option |-> {o}, target |-> t, episode |-> <<epoch, o, now \div Bucket>>,
               at |-> now, from |-> g \cup {r.from : r \in rows}]

\* SecondsTape.evaluate, and what it leaves in the tape.
Evaluate ==
  IF now + Margin >= CloseAt \/ ~FutureCurrent
  THEN sample' = NoSample /\ UNCHANGED tape
  ELSE /\ quotes' = [o \in Options |-> Ingested(o)]
       /\ UNCHANGED <<rows, epoch, usable>>
       /\ IF Selected # {} /\ Warmed /\ FutureAt(now - 1)
          THEN /\ fits' = [k \in Fits |-> IF k \in Asked THEN Fit(k) ELSE fits[k]]
               /\ Emit \/ sample' = NoSample
          ELSE sample' = NoSample /\ UNCHANGED fits

-----------------------------------------------------------------------------
(* The sockets *)

MarketConnect ==
  /\ ~market.up /\ market.n < MaxMarket
  /\ market' = [n |-> market.n + 1, up |-> TRUE]
  /\ books' = [o \in Options |-> NoBook] /\ SecondsReset
  /\ UNCHANGED <<now, futures, entry, sent, faults>>

MarketDisconnect ==
  /\ market.up /\ market' = [market EXCEPT !.up = FALSE]
  /\ books' = [o \in Options |-> NoBook] /\ SecondsReset
  /\ UNCHANGED <<now, futures, entry, sent, faults>>

\* FutureInput.connect leaves the evaluations of the engine.
FutureConnect ==
  /\ ~futures.up /\ futures.n < MaxFutures
  /\ futures' = [n |-> futures.n + 1, up |-> TRUE]
  /\ TapeReset
  /\ UNCHANGED <<now, market, books, evaluation, entry, sent, faults>>

\* FutureInput.disconnect leaves the rows.
FutureDisconnect ==
  /\ futures.up /\ futures' = [futures EXCEPT !.up = FALSE]
  /\ usable' = FALSE
  /\ UNCHANGED <<now, market, rows, epoch, quotes, fits, books, evaluation, entry, sent, faults>>

\* FutureInput.receive: nothing is taken while either socket is down. Within a
\* tick of the clock a second quote may be as old as the first or just younger:
\* it makes the tape usable again, and is not kept.
FutureTick ==
  /\ market.up /\ futures.up /\ epoch \in {0, market.n}
  /\ epoch' = market.n
  /\ IF \E r \in rows : r.at = now
     THEN usable' \in {usable, TRUE} /\ UNCHANGED rows
     ELSE usable' = TRUE /\ rows' = rows \cup {[at |-> now, from |-> These]}
  /\ UNCHANGED <<now, sockets, quotes, fits, books, evaluation, entry, sent, faults>>

FutureRejected ==
  /\ market.up /\ futures.up /\ faults < MaxFaults /\ faults' = faults + 1
  /\ usable' = FALSE
  /\ UNCHANGED <<now, sockets, rows, epoch, quotes, fits, books, evaluation, entry, sent>>

\* record_dhan
OnBook(o) ==
  /\ market.up
  /\ books' = [books EXCEPT ![o] = [at |-> now, epoch |-> market.n]]
  /\ UNCHANGED <<now, sockets, tape, evaluation, entry, sent, faults>>

BadFrame ==
  /\ market.up /\ faults < MaxFaults /\ faults' = faults + 1
  /\ books' = [o \in Options |-> NoBook] /\ SecondsReset
  /\ UNCHANGED <<now, sockets, entry, sent>>

-----------------------------------------------------------------------------
(* The entry *)

Ready == now < CloseAt /\ FutureCurrent

\* signals() of a pass evaluates unless that was done just before. The clock of the
\* pass was read earlier than a new evaluation, so a new signal is not yet due.
Discover ==
  /\ entry = NoEntry /\ Ready /\ ~refreshed
  /\ Evaluate /\ refreshed' = TRUE
  /\ UNCHANGED <<now, sockets, books, entry, sent, faults>>

\* A signal found by the pass before; funds() is awaited.
Choose ==
  /\ entry = NoEntry /\ Ready /\ refreshed /\ sample # NoSample
  /\ now < sample.at + Deadline
  /\ entry' = [NoEntry EXCEPT !.pc = "funds", !.signal = sample] /\ sent' = FALSE
  /\ UNCHANGED <<now, sockets, tape, books, evaluation, faults>>

\* projection_current: the same opportunity, of no smaller a forecast.
ProjectionOfEpisode(signal) == \* mutant: a bucket of time is enough
  /\ sample' # NoSample /\ sample'.option = signal.option
  /\ sample'.episode = signal.episode
ProjectionCurrent(signal) ==
  /\ sample' # NoSample /\ sample'.option = signal.option
  /\ sample'.episode = signal.episode
  /\ sample'.target >= signal.target

BookOf(signal) == books[CHOOSE o \in signal.option : TRUE]

\* candidate, and the decision: the lifecycle is recorded and submit called.
Candidate ==
  /\ entry.pc = "funds"
  /\ IF ~Ready THEN entry' = NoEntry /\ UNCHANGED <<tape, evaluation>>
     ELSE /\ Evaluate /\ refreshed' = TRUE
          /\ entry' = IF /\ ProjectionCurrent(entry.signal)
                         /\ now < entry.signal.at + Deadline
                         /\ \A o \in entry.signal.option : CurrentBook(o)
                      THEN [entry EXCEPT !.pc = "decided", !.book = BookOf(entry.signal)]
                      ELSE NoEntry
  /\ UNCHANGED <<now, sockets, books, sent, faults>>

\* pre_dispatch, under the order lock: the order is sent if all of it still holds.
Dispatch ==
  /\ entry.pc = "decided" /\ entry' = NoEntry
  /\ IF ~Ready THEN UNCHANGED <<tape, evaluation, sent>>
     ELSE /\ Evaluate /\ refreshed' = TRUE
          /\ sent' = (/\ ProjectionCurrent(entry.signal)
                      /\ BookOf(entry.signal) = entry.book
                      /\ market.up /\ now - entry.book.at <= QuoteAge + 1
                      /\ now < entry.signal.at + Deadline)
  /\ UNCHANGED <<now, sockets, books, faults>>

-----------------------------------------------------------------------------

Later ==
  /\ refreshed /\ refreshed' = FALSE
  /\ UNCHANGED <<now, sockets, tape, books, sample, entry, sent, faults>>

Tick ==
  /\ now < MaxTime /\ now' = now + 1 /\ refreshed' = FALSE
  /\ UNCHANGED <<sockets, tape, books, sample, entry, sent, faults>>

Init ==
  /\ now = 1
  /\ market = [n |-> 1, up |-> TRUE] /\ futures = [n |-> 1, up |-> TRUE]
  /\ rows = {} /\ epoch = 0 /\ usable = FALSE
  /\ quotes = [o \in Options |-> {}] /\ fits = [k \in Fits |-> NoFit]
  /\ books = [o \in Options |-> NoBook]
  /\ sample = NoSample /\ refreshed = FALSE
  /\ entry = NoEntry /\ sent = FALSE /\ faults = 0

Next ==
  \/ MarketConnect \/ MarketDisconnect \/ FutureConnect \/ FutureDisconnect
  \/ FutureTick \/ FutureRejected \/ BadFrame
  \/ \E o \in Options : OnBook(o)
  \/ Discover \/ Choose \/ Candidate \/ Dispatch
  \/ Later \/ Tick

-----------------------------------------------------------------------------
(* What must hold *)

\* "Reconnects clear the rolling history" (docs/SECONDS-STRATEGIES-2026-10-15.md):
\* whatever the tape holds was observed on the two present connections, responses
\* fitted earlier included, although each socket clears it in a way of its own;
\* and the tape is never left waiting for a connection that is gone.
TapeOfTheseConnections ==
  /\ \A r \in rows : r.from = These
  /\ \A k \in Fits : fits[k].from \subseteq {These}
  /\ \A o \in Options : \A q \in quotes[o] : q.from = These
  /\ epoch \in {0, market.n}

\* An order is sent on what is so as it leaves, however long funds() and the lock
\* took: both feeds up, futures and book current, history long enough and of these
\* connections, and a forecast of the same episode no smaller than the one decided
\* on (directional.py 239-285, seconds_engine.py 73-105).
SentOnCurrentInputs ==
  [][~sent /\ sent' =>
       LET signal == entry.signal
       IN /\ market.up /\ futures.up
          /\ sample'.from = {These}
          /\ \E r \in rows : now - r.at <= QuoteAge
          /\ \E r \in rows : now - r.at >= Warm
          /\ now - entry.book.at <= QuoteAge /\ entry.book.epoch = market.n
          /\ now - signal.at < Deadline /\ now + Margin < CloseAt
          /\ sample'.at = now /\ sample'.target >= signal.target]_vars

SecondsAreCurrent == []TapeOfTheseConnections /\ SentOnCurrentInputs
=============================================================================
