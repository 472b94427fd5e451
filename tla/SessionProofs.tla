--------------------------- MODULE SessionProofs ---------------------------
(***************************************************************************)
(* Proofs about MCSession.  First the parts the session engine decides on: *)
(* the tape of the seconds strategies, the completed minutes and the       *)
(* auction signal.  Then the lifecycles it opens, for any set of them, any *)
(* quantities and prices, and any number of snapshots and faults.          *)
(***************************************************************************)
EXTENDS MCSession, Sequences, Sums, TLAPS

LEMMA OneSessionPart ==
  [SessionNext]_sessionVars =>
    /\ Signal!Next \/ Reference!Next \/ UNCHANGED auction
    /\ Inputs!Next \/ UNCHANGED minutes
    /\ Seconds!Next \/ UNCHANGED instants
  BY DEF SessionNext, sessionVars

LEMMA SessionStart == SessionInit => Inputs!Init /\ Seconds!Init
  BY DEF SessionInit

-----------------------------------------------------------------------------
(* The tape of the seconds strategies *)

LEMMA SecondsConstants ==
  /\ MaxTime \in Nat /\ QuoteAge \in Nat /\ Warm \in Nat /\ Recent \in Nat
  /\ Deadline \in Nat /\ Margin \in Nat /\ Forecasts \subseteq Nat
  BY SessionAssumption

\* The two present connections.
Here == <<option.n, futures.n>>

Sockets ==
  /\ tick \in Nat
  /\ option \in [n : Nat \ {0}, up : BOOLEAN] /\ futures \in [n : Nat \ {0}, up : BOOLEAN]

\* What was observed is of the present connections, and not of the future; the tape has an
\* epoch as soon as it has a row, and futures are only usable while both sockets are up.
OnTape ==
  /\ \A r \in tape : r.at \in 0..tick /\ r.from = Here
  /\ tapeEpoch \in {0, option.n} /\ (tape # {} => tapeEpoch = option.n)
  /\ usable \in BOOLEAN /\ (usable => option.up /\ futures.up)
  /\ \A o \in Options : \A q \in quotes[o] : q.from = Here
  /\ fits \in [Seconds!Fits -> [at : Int, from : SUBSET {Here}]]

Offered == offers \in [Options -> [at : Int, epoch : Int]]

Attempted ==
  /\ sample.at \in Int /\ sample.target \in Int
  /\ attempt = [pc |-> attempt.pc, signal |-> attempt.signal, book |-> attempt.book]
  /\ attempt.signal.at \in Int /\ attempt.signal.target \in Int /\ attempt.book.at \in Int

TapeInv == Sockets /\ OnTape /\ Offered /\ Attempted

LEMMA NoFitHere == Seconds!NoFit \in [at : Int, from : SUBSET {Here}]
  BY DEF Seconds!NoFit

LEMMA NothingTyped ==
  /\ Seconds!NoSample.at \in Int /\ Seconds!NoSample.target \in Int
  /\ Seconds!NoEntry = [pc |-> Seconds!NoEntry.pc, signal |-> Seconds!NoEntry.signal,
                        book |-> Seconds!NoEntry.book]
  /\ Seconds!NoEntry.signal.at \in Int /\ Seconds!NoEntry.signal.target \in Int
  /\ Seconds!NoEntry.book.at \in Int
  BY DEF Seconds!NoSample, Seconds!NoEntry, Seconds!NoBook

LEMMA TapeStart == Seconds!Init => TapeInv
  <1> SUFFICES ASSUME Seconds!Init PROVE TapeInv OBVIOUS
  <1>1. Sockets BY DEF Seconds!Init, Sockets
  <1>2. OnTape
    <2>1. \A o \in Options : quotes[o] = {} BY DEF Seconds!Init
    <2>2. fits \in [Seconds!Fits -> [at : Int, from : SUBSET {Here}]] BY NoFitHere DEF Seconds!Init
    <2> QED BY <2>1, <2>2 DEF Seconds!Init, OnTape
  <1>3. Offered BY DEF Seconds!Init, Offered, Seconds!NoBook
  <1>4. Attempted
    <2>1. sample = Seconds!NoSample /\ attempt = Seconds!NoEntry BY DEF Seconds!Init
    <2> QED BY <2>1, NothingTyped DEF Attempted
  <1> QED BY <1>1, <1>2, <1>3, <1>4 DEF TapeInv

\* Of rows that are not of the future one is the last.
LEMMA LastRow ==
  ASSUME NEW S, NEW n \in Nat, S # {}, \A r \in S : r.at \in 0..n
  PROVE  Seconds!Last(S) \in S
  <1> DEFINE T == {n - r.at : r \in S}
  <1>1. T \in SUBSET Nat OBVIOUS
  <1>2. T # {} OBVIOUS
  <1>3. PICK k \in T : \A m \in T : k <= m
    <2> HIDE DEF T
    <2> QED BY <1>1, <1>2, LeastNatural
  <1>4. PICK x \in S : k = n - x.at OBVIOUS
  <1>5. \A y \in S : y.at <= x.at
    <2> SUFFICES ASSUME NEW y \in S PROVE y.at <= x.at OBVIOUS
    <2>1. k <= n - y.at BY <1>3
    <2>2. x.at \in 0..n /\ y.at \in 0..n OBVIOUS
    <2> HIDE DEF T
    <2> QED BY <1>4, <2>1, <2>2
  <1>6. \E x2 \in S : \A y \in S : y.at <= x2.at BY <1>5
  <1> QED BY <1>6 DEF Seconds!Last

LEMMA IngestedHere ==
  ASSUME OnTape, NEW o \in Options
  PROVE  \A q \in Seconds!Ingested(o) : q.from = Here
  BY DEF Seconds!Ingested, OnTape, Seconds!These, Here

LEMMA FittedHere ==
  ASSUME OnTape, Sockets, NEW k \in Seconds!Fits
  PROVE  Seconds!Fit(k) \in [at : Int, from : SUBSET {Here}]
  <1> DEFINE pairs == IF k[2] = "beta" THEN Seconds!Pairs(k[1]) ELSE Seconds!Window(k[1])
             others == IF k[2] = "beta" THEN tape
                       ELSE UNION {Seconds!Ingested(o) : o \in Seconds!Selected}
  <1>0. k[1] \in Options BY SessionAssumption DEF Seconds!Fits
  <1>1. CASE Seconds!Fit(k) = fits[k] BY <1>1 DEF OnTape
  <1>2. CASE Seconds!Fit(k) = Seconds!NoFit BY <1>2 DEF Seconds!NoFit
  <1>3. CASE Seconds!Fit(k) = [at |-> tick, from |-> {x.from : x \in pairs \cup others}]
    <2>1. \A x \in pairs : x.from = Here
      <3>1. pairs \subseteq Seconds!Ingested(k[1]) BY DEF Seconds!Pairs, Seconds!Window
      <3> QED BY <1>0, <3>1, IngestedHere
    <2>2. \A x \in others : x.from = Here
      <3>1. Seconds!Selected \subseteq Options BY DEF Seconds!Selected
      <3>2. \A o \in Seconds!Selected : \A q \in Seconds!Ingested(o) : q.from = Here
        BY <3>1, IngestedHere
      <3> QED BY <3>2 DEF OnTape
    <2>3. {x.from : x \in pairs \cup others} \subseteq {Here} BY <2>1, <2>2
    <2> QED BY <1>3, <2>3 DEF Sockets
  <1> QED BY <1>1, <1>2, <1>3, Zenon DEF Seconds!Fit

LEMMA GroundsHere ==
  ASSUME OnTape, Sockets, NEW o \in Seconds!Selected, NEW g \in Seconds!Grounds(o)
  PROVE  g \subseteq {Here}
  <1>0. Seconds!Selected \subseteq Options BY DEF Seconds!Selected
  <1>1. CASE g \in {f.from : f \in {Seconds!Fit(k) : k \in {x \in Seconds!Fits : x[1] = o}} \ {Seconds!NoFit}}
    <2>1. PICK k \in Seconds!Fits : g = Seconds!Fit(k).from BY <1>1
    <2>2. Seconds!Fit(k) \in [at : Int, from : SUBSET {Here}] BY FittedHere
    <2> QED BY <2>1, <2>2
  <1>2. CASE g = {q.from : q \in Seconds!Ingested(o)} BY <1>0, <1>2, IngestedHere
  <1> QED BY <1>1, <1>2 DEF Seconds!Grounds

\* What an evaluation leaves: a tape of the present connections, and a signal of this moment
\* on them, of a contract whose book is current.
LEMMA EvaluateKeeps ==
  ASSUME Sockets, OnTape, Offered, Seconds!Evaluate
  PROVE  /\ sample'.at \in Int /\ sample'.target \in Int
         /\ tape' = tape /\ tapeEpoch' = tapeEpoch /\ usable' = usable
         /\ \A o \in Options : \A q \in quotes'[o] : q.from = Here
         /\ fits' \in [Seconds!Fits -> [at : Int, from : SUBSET {Here}]]
         /\ sample' # Seconds!NoSample => Seconds!Warmed
              /\ ~(tick + Margin >= MaxTime + 2)
              /\ \E o \in Options, t \in Forecasts :
                   /\ Seconds!CurrentBook(o)
                   /\ sample'.option = {o} /\ sample'.at = tick /\ sample'.target = t
                   /\ sample'.from = {Here}
  <1> USE SecondsConstants
  <1>0. Seconds!NoSample.at \in Int /\ Seconds!NoSample.target \in Int BY DEF Seconds!NoSample
  <1>1. CASE tick + Margin >= MaxTime + 2 \/ ~Seconds!FutureCurrent
    <2>1. sample' = Seconds!NoSample /\ UNCHANGED <<tape, tapeEpoch, usable, quotes, fits>>
      BY <1>1 DEF Seconds!Evaluate, Seconds!tape
    <2> QED BY <1>0, <2>1 DEF OnTape
  <1>2. CASE ~(tick + Margin >= MaxTime + 2 \/ ~Seconds!FutureCurrent)
    <2>1. /\ quotes' = [o \in Options |-> Seconds!Ingested(o)]
          /\ tape' = tape /\ tapeEpoch' = tapeEpoch /\ usable' = usable
          /\ IF Seconds!Selected # {} /\ Seconds!Warmed /\ Seconds!FutureAt(tick - 1)
             THEN /\ fits' = [k \in Seconds!Fits |->
                                IF k \in Seconds!Asked THEN Seconds!Fit(k) ELSE fits[k]]
                  /\ Seconds!Emit \/ sample' = Seconds!NoSample
             ELSE sample' = Seconds!NoSample /\ fits' = fits
      BY <1>2 DEF Seconds!Evaluate, Seconds!tape
    <2>2. \A o \in Options : \A q \in quotes'[o] : q.from = Here
      BY <2>1 DEF Seconds!Ingested, OnTape, Seconds!These, Here
    <2>3. fits' \in [Seconds!Fits -> [at : Int, from : SUBSET {Here}]]
      <3>1. \A k \in Seconds!Fits : Seconds!Fit(k) \in [at : Int, from : SUBSET {Here}] BY FittedHere
      <3>2. [k \in Seconds!Fits |-> IF k \in Seconds!Asked THEN Seconds!Fit(k) ELSE fits[k]]
               \in [Seconds!Fits -> [at : Int, from : SUBSET {Here}]]
        BY <3>1 DEF OnTape
      <3>3. fits \in [Seconds!Fits -> [at : Int, from : SUBSET {Here}]] BY DEF OnTape
      <3> QED BY <2>1, <3>2, <3>3
    <2>4. ASSUME sample' # Seconds!NoSample
          PROVE  Seconds!Warmed /\ \E o \in Options, t \in Forecasts :
                   /\ Seconds!CurrentBook(o)
                   /\ sample'.option = {o} /\ sample'.at = tick /\ sample'.target = t
                   /\ sample'.from = {Here}
      <3>1. Seconds!Warmed /\ Seconds!Emit BY <2>1, <2>4
      <3>a. PICK o \in Seconds!Selected : \E t \in Forecasts : \E g \in Seconds!Grounds(o) :
              sample' = [option |-> {o}, target |-> t, episode |-> <<tapeEpoch, o, tick \div Bucket>>,
                         at |-> tick, from |-> g \cup {r.from : r \in tape}]
        BY <3>1, Zenon DEF Seconds!Emit
      <3>2. PICK t \in Forecasts, g \in Seconds!Grounds(o) :
              sample' = [option |-> {o}, target |-> t, episode |-> <<tapeEpoch, o, tick \div Bucket>>,
                         at |-> tick, from |-> g \cup {r.from : r \in tape}]
        BY <3>a, Zenon
      <3>3. o \in Options /\ Seconds!CurrentBook(o) BY <3>2 DEF Seconds!Selected
      <3>4. g \subseteq {Here} BY <3>1, <3>2, GroundsHere
      <3>5. {r.from : r \in tape} = {Here} BY <1>2 DEF OnTape, Seconds!FutureCurrent
      <3>6. sample'.from = {Here} BY <3>2, <3>4, <3>5
      <3> QED BY <3>1, <3>2, <3>3, <3>6
    <2>5. sample'.at \in Int /\ sample'.target \in Int
      <3>1. CASE sample' = Seconds!NoSample BY <3>1, <1>0
      <3>2. CASE sample' # Seconds!NoSample
        <4>1. PICK t \in Forecasts : sample'.at = tick /\ sample'.target = t
          BY <2>4, <3>2, Zenon
        <4> QED BY <4>1 DEF Sockets
      <3> QED BY <3>1, <3>2
    <2> QED BY <1>2, <2>1, <2>2, <2>3, <2>4, <2>5
  <1> QED BY <1>1, <1>2

LEMMA TapeStep ==
  ASSUME TapeInv, [SessionNext]_sessionVars
  PROVE  TapeInv'
  <1> USE SecondsConstants DEF TapeInv, Seconds!sockets, Seconds!tape, Seconds!evaluation
  <1>0. Seconds!Next \/ UNCHANGED instants BY OneSessionPart
  <1>1. CASE UNCHANGED instants
    BY <1>1 DEF instants, Sockets, OnTape, Offered, Attempted, Here
  <1>2. ASSUME Seconds!TapeReset PROVE OnTape'
    <2>1. tape' = {} /\ tapeEpoch' = 0 /\ usable' = FALSE BY <1>2 DEF Seconds!TapeReset
    <2>2. \A o \in Options : quotes'[o] = {} BY <1>2 DEF Seconds!TapeReset
    <2>3. Seconds!NoFit \in [at : Int, from : SUBSET {Here'}] BY DEF Seconds!NoFit
    <2>4. fits' \in [Seconds!Fits -> [at : Int, from : SUBSET {Here'}]]
      BY <1>2, <2>3 DEF Seconds!TapeReset
    <2> QED BY <2>1, <2>2, <2>4 DEF OnTape
  <1>3. ASSUME Seconds!SecondsReset, UNCHANGED attempt PROVE OnTape' /\ Attempted'
    BY <1>2, <1>3 DEF Attempted, Seconds!SecondsReset, Seconds!NoSample
  <1>b. ASSUME offers' = [o \in Options |-> Seconds!NoBook] PROVE Offered'
    BY <1>b DEF Offered, Seconds!NoBook
  <1>4. CASE Seconds!MarketConnect
    <2>1. Sockets' BY <1>4 DEF Seconds!MarketConnect, Sockets
    <2> QED BY <1>3, <1>4, <1>b, <2>1 DEF Seconds!MarketConnect
  <1>5. CASE Seconds!MarketDisconnect
    <2>1. Sockets' BY <1>5 DEF Seconds!MarketDisconnect, Sockets
    <2> QED BY <1>3, <1>5, <1>b, <2>1 DEF Seconds!MarketDisconnect
  <1>6. CASE Seconds!FutureConnect
    <2>1. Sockets' BY <1>6 DEF Seconds!FutureConnect, Sockets
    <2> QED BY <1>2, <1>6, <2>1 DEF Seconds!FutureConnect, Offered, Attempted
  <1>7. CASE Seconds!FutureDisconnect
    <2>1. Sockets' /\ futures'.n = futures.n BY <1>7 DEF Seconds!FutureDisconnect, Sockets
    <2> QED BY <1>7, <2>1 DEF Seconds!FutureDisconnect, Sockets, OnTape, Offered, Attempted, Here
  <1>8. CASE Seconds!FutureTick
    <2>1. Sockets' /\ Offered' /\ Attempted' /\ Here' = Here
      BY <1>8 DEF Seconds!FutureTick, Sockets, Offered, Attempted, Here
    <2>2. /\ option.up /\ futures.up /\ tapeEpoch' = option.n
          /\ UNCHANGED <<tick, option, futures, quotes, fits>>
      BY <1>8 DEF Seconds!FutureTick
    <2>3. tape' = tape \/ tape' = tape \cup {[at |-> tick, from |-> Here]}
      BY <1>8 DEF Seconds!FutureTick, Seconds!These, Here
    <2>4. usable' \in BOOLEAN BY <1>8 DEF Seconds!FutureTick, OnTape
    <2>5. \A r \in tape' : r.at \in 0..tick' /\ r.from = Here'
      BY <2>1, <2>2, <2>3 DEF OnTape, Sockets
    <2> QED BY <2>1, <2>2, <2>4, <2>5 DEF OnTape
  <1>9. CASE Seconds!FutureRejected
    BY <1>9 DEF Seconds!FutureRejected, Sockets, OnTape, Offered, Attempted, Here
  <1>10. CASE Seconds!BadFrame
    <2>1. Sockets' BY <1>10 DEF Seconds!BadFrame, Sockets
    <2> QED BY <1>3, <1>10, <1>b, <2>1 DEF Seconds!BadFrame
  <1>11. ASSUME NEW o \in Options, Seconds!OnBook(o) PROVE TapeInv'
    <2>1. Sockets' /\ OnTape' /\ Attempted'
      BY <1>11 DEF Seconds!OnBook, Sockets, OnTape, Attempted, Here
    <2>2. Offered' BY <1>11 DEF Seconds!OnBook, Sockets, Offered
    <2> QED BY <2>1, <2>2
  <1>12. ASSUME Seconds!Evaluate, UNCHANGED <<tick, option, futures, offers>>
         PROVE  /\ Sockets' /\ OnTape' /\ Offered'
                /\ sample'.at \in Int /\ sample'.target \in Int
    <2>1. /\ sample'.at \in Int /\ sample'.target \in Int
          /\ tape' = tape /\ tapeEpoch' = tapeEpoch /\ usable' = usable
          /\ \A o \in Options : \A q \in quotes'[o] : q.from = Here
          /\ fits' \in [Seconds!Fits -> [at : Int, from : SUBSET {Here}]]
      BY <1>12, EvaluateKeeps
    <2>2. Sockets' /\ Offered' /\ Here' = Here BY <1>12 DEF Sockets, Offered, Here
    <2> QED BY <1>12, <2>1, <2>2 DEF OnTape
  <1>13. CASE Seconds!Discover
    <2>1. Seconds!Evaluate /\ UNCHANGED <<tick, option, futures, offers, attempt>>
      BY <1>13 DEF Seconds!Discover
    <2> QED BY <1>12, <2>1 DEF Attempted
  <1>14. CASE Seconds!Choose
    BY <1>14 DEF Seconds!Choose, Sockets, OnTape, Offered, Attempted, Here, Seconds!NoEntry,
         Seconds!NoBook
  <1>15. CASE Seconds!Candidate
    <2>1. UNCHANGED <<tick, option, futures, offers>> BY <1>15 DEF Seconds!Candidate
    <2>2. CASE ~Seconds!Ready
      <3>1. UNCHANGED <<tape, tapeEpoch, usable, quotes, fits, sample>>
        <4>1. UNCHANGED <<Seconds!tape, Seconds!evaluation>>
          BY <1>15, <2>2, Zenon DEF Seconds!Candidate
        <4> QED BY <4>1
      <3>2. attempt' = Seconds!NoEntry BY <1>15, <2>2 DEF Seconds!Candidate
      <3>3. Sockets' /\ Offered' /\ OnTape' BY <2>1, <3>1 DEF Sockets, OnTape, Offered, Here
      <3>4. Attempted' BY <3>1, <3>2, NothingTyped DEF Attempted
      <3> QED BY <3>3, <3>4
    <2>3. CASE Seconds!Ready
      <3>1. Seconds!Evaluate BY <1>15, <2>3 DEF Seconds!Candidate
      <3>2. attempt' = Seconds!NoEntry
              \/ /\ \A o \in attempt.signal.option : Seconds!CurrentBook(o)
                 /\ sample' # Seconds!NoSample /\ sample'.option = attempt.signal.option
                 /\ attempt' = [attempt EXCEPT !.pc = "decided",
                                                !.book = Seconds!BookOf(attempt.signal)]
        BY <1>15, <2>3 DEF Seconds!Candidate, Seconds!ProjectionCurrent
      <3>3. Sockets' /\ OnTape' /\ Offered' /\ sample'.at \in Int /\ sample'.target \in Int
        BY <2>1, <3>1, <1>12
      <3>4. CASE attempt' = Seconds!NoEntry
        BY <3>3, <3>4, NothingTyped DEF Attempted
      <3>5. CASE /\ sample' # Seconds!NoSample /\ sample'.option = attempt.signal.option
                 /\ attempt' = [attempt EXCEPT !.pc = "decided",
                                                !.book = Seconds!BookOf(attempt.signal)]
        <4>1. PICK o \in Options : sample'.option = {o} BY <3>1, <3>5, EvaluateKeeps
        <4>2. Seconds!BookOf(attempt.signal) = offers[o] BY <3>5, <4>1 DEF Seconds!BookOf
        <4>3. offers[o].at \in Int BY DEF Offered
        <4> QED BY <3>3, <3>5, <4>2, <4>3 DEF Attempted
      <3> QED BY <3>2, <3>4, <3>5
    <2> QED BY <2>2, <2>3
  <1>16. CASE Seconds!Dispatch
    <2>1. UNCHANGED <<tick, option, futures, offers>> /\ attempt' = Seconds!NoEntry
      BY <1>16 DEF Seconds!Dispatch
    <2>2. CASE ~Seconds!Ready
      <3>1. UNCHANGED <<tape, tapeEpoch, usable, quotes, fits, sample>>
        <4>1. UNCHANGED <<Seconds!tape, Seconds!evaluation>> BY <1>16, <2>2, Zenon DEF Seconds!Dispatch
        <4> QED BY <4>1
      <3>2. Sockets' /\ Offered' /\ OnTape' BY <2>1, <3>1 DEF Sockets, OnTape, Offered, Here
      <3>3. Attempted' BY <2>1, <3>1, NothingTyped DEF Attempted
      <3> QED BY <3>2, <3>3
    <2>3. CASE Seconds!Ready
      <3>1. Seconds!Evaluate BY <1>16, <2>3 DEF Seconds!Dispatch
      <3>2. Sockets' /\ OnTape' /\ Offered' /\ sample'.at \in Int /\ sample'.target \in Int
        BY <2>1, <3>1, <1>12
      <3>3. Attempted' BY <2>1, <3>2, NothingTyped DEF Attempted
      <3> QED BY <3>2, <3>3
    <2> QED BY <2>2, <2>3
  <1>17. CASE Seconds!Later
    BY <1>17 DEF Seconds!Later, Sockets, OnTape, Offered, Attempted, Here
  <1>18. CASE Seconds!Tick
    <2>1. Sockets' /\ Offered' /\ Attempted' /\ Here' = Here /\ tick' = tick + 1
      BY <1>18 DEF Seconds!Tick, Sockets, Offered, Attempted, Here
    <2>2. UNCHANGED <<option, futures, tape, tapeEpoch, usable, quotes, fits>> BY <1>18 DEF Seconds!Tick
    <2>3. \A r \in tape' : r.at \in 0..tick' /\ r.from = Here'
      BY <2>1, <2>2 DEF Sockets, OnTape
    <2> QED BY <2>1, <2>2, <2>3 DEF OnTape
  <1> QED BY <1>0, <1>1, <1>4, <1>5, <1>6, <1>7, <1>8, <1>9, <1>10, <1>11, <1>13, <1>14, <1>15,
             <1>16, <1>17, <1>18, Zenon DEF Seconds!Next

LEMMA TapeAlways == SessionSpec => []TapeInv
  <1>1. SessionInit => TapeInv BY SessionStart, TapeStart
  <1>2. TapeInv /\ [SessionNext]_sessionVars => TapeInv' BY TapeStep
  <1> QED BY <1>1, <1>2, PTL DEF SessionSpec

\* An order leaves on what is so as it leaves.
LEMMA SentIsCurrent ==
  ASSUME TapeInv, [SessionNext]_sessionVars, ~dispatched, dispatched'
  PROVE  /\ option.up /\ futures.up
         /\ sample'.from = {Here}
         /\ \E r \in tape : tick - r.at <= QuoteAge
         /\ \E r \in tape : tick - r.at >= Warm
         /\ tick - attempt.book.at <= QuoteAge /\ attempt.book.epoch = option.n
         /\ tick - attempt.signal.at < Deadline /\ tick + Margin < MaxTime + 2
         /\ sample'.at = tick /\ sample'.target >= attempt.signal.target
  <1> USE SecondsConstants
  <1>0. Seconds!Next \/ UNCHANGED instants BY OneSessionPart
  <1>1. Seconds!Dispatch
    <2>1. dispatched' # dispatched OBVIOUS
    <2>2. ~UNCHANGED dispatched BY <2>1
    <2>3. ~UNCHANGED instants BY <2>2 DEF instants
    <2>4. Seconds!Next BY <1>0, <2>3
    <2>5. ~Seconds!Choose BY DEF Seconds!Choose
    <2> QED BY <2>2, <2>4, <2>5, Zenon
         DEF Seconds!Next, Seconds!MarketConnect, Seconds!MarketDisconnect,
             Seconds!FutureConnect, Seconds!FutureDisconnect, Seconds!FutureTick,
             Seconds!FutureRejected, Seconds!BadFrame, Seconds!OnBook, Seconds!Discover,
             Seconds!Candidate, Seconds!Later, Seconds!Tick
  <1>2. Seconds!Ready
    <2>1. ~Seconds!Ready => UNCHANGED dispatched BY <1>1, Zenon DEF Seconds!Dispatch
    <2> QED BY <2>1
  <1>3. Seconds!Evaluate BY <1>1, <1>2 DEF Seconds!Dispatch
  <1>4. /\ Seconds!ProjectionCurrent(attempt.signal)
        /\ Seconds!BookOf(attempt.signal) = attempt.book
        /\ option.up
        /\ tick < attempt.signal.at + Deadline
    BY <1>1, <1>2, Zenon DEF Seconds!Dispatch
  <1>5. /\ sample' # Seconds!NoSample /\ sample'.option = attempt.signal.option
        /\ sample'.target >= attempt.signal.target
    BY <1>4 DEF Seconds!ProjectionCurrent
  <1>6. Seconds!Warmed /\ ~(tick + Margin >= MaxTime + 2)
    BY <1>3, <1>5, EvaluateKeeps DEF TapeInv
  <1>7. PICK o \in Options, t \in Forecasts :
          /\ Seconds!CurrentBook(o)
          /\ sample'.option = {o} /\ sample'.at = tick /\ sample'.target = t
          /\ sample'.from = {Here}
    BY <1>3, <1>5, EvaluateKeeps DEF TapeInv
  <1>8. usable /\ tape # {} /\ tick - Seconds!Last(tape).at <= QuoteAge
    BY <1>2 DEF Seconds!Ready, Seconds!FutureCurrent
  <1>9. futures.up BY <1>8 DEF TapeInv, OnTape
  <1>10. Seconds!Last(tape) \in tape BY <1>8, LastRow DEF TapeInv, OnTape, Sockets
  <1>14. \E r \in tape : tick - r.at >= Warm BY <1>6, <1>8 DEF Seconds!Warmed
  <1>15. attempt.book = offers[o] BY <1>4, <1>5, <1>7 DEF Seconds!BookOf
  <1>16. tick - attempt.book.at <= QuoteAge /\ attempt.book.epoch = option.n
    BY <1>7, <1>8, <1>15 DEF Seconds!CurrentBook, TapeInv, OnTape
  <1>17. tick - attempt.signal.at < Deadline /\ tick + Margin < MaxTime + 2
    BY <1>4, <1>6 DEF TapeInv, Sockets, Attempted
  <1> QED BY <1>4, <1>5, <1>7, <1>8, <1>9, <1>10, <1>14, <1>16, <1>17

\* Whatever the tape holds was observed on the two present connections, responses fitted
\* earlier included, and an order of a seconds strategy leaves on what is so as it leaves
\* (seconds_strategies.py, future_input.py, seconds_engine.py 73-105, directional.py 239-285).
THEOREM SecondsAreCurrentHolds == SessionSpec => Seconds!SecondsAreCurrent
  <1>1. TapeInv => Seconds!TapeOfTheseConnections
    BY DEF TapeInv, OnTape, Seconds!TapeOfTheseConnections, Seconds!These, Here
  <1>2. TapeInv /\ [SessionNext]_sessionVars =>
          [~dispatched /\ dispatched' =>
             /\ option.up /\ futures.up
             /\ sample'.from = {Seconds!These}
             /\ \E r \in tape : tick - r.at <= QuoteAge
             /\ \E r \in tape : tick - r.at >= Warm
             /\ tick - attempt.book.at <= QuoteAge /\ attempt.book.epoch = option.n
             /\ tick - attempt.signal.at < Deadline /\ tick + Margin < MaxTime + 2
             /\ sample'.at = tick /\ sample'.target >= attempt.signal.target]_(Seconds!vars)
    <2> SUFFICES ASSUME TapeInv, [SessionNext]_sessionVars, ~dispatched, dispatched'
                 PROVE  /\ option.up /\ futures.up
                        /\ sample'.from = {Seconds!These}
                        /\ \E r \in tape : tick - r.at <= QuoteAge
                        /\ \E r \in tape : tick - r.at >= Warm
                        /\ tick - attempt.book.at <= QuoteAge /\ attempt.book.epoch = option.n
                        /\ tick - attempt.signal.at < Deadline /\ tick + Margin < MaxTime + 2
                        /\ sample'.at = tick /\ sample'.target >= attempt.signal.target
      BY Zenon
    <2> QED BY SentIsCurrent, Zenon DEF Seconds!These, Here
  <1> QED BY <1>1, <1>2, TapeAlways, PTL
        DEF SessionSpec, Seconds!SecondsAreCurrent, Seconds!SentOnCurrentInputs

-----------------------------------------------------------------------------
(* The completed minutes *)

LEMMA MinutesConstants ==
  /\ MaxTime \in Nat /\ MaxConns \in Nat /\ Accepted \in Nat /\ Kept \in Nat /\ Accepted <= Kept
  /\ Values \subseteq Nat \ {0} /\ Values # {}
  BY SessionAssumption

\* A function from minutes up to one of them.
Series(f, V, last) ==
  f \in [DOMAIN f -> V] /\ \A m \in DOMAIN f : m \in 1..last

\* What the stream has is of the connection that is up, and a minute it saw of late is
\* offered, or was sent with two values.
Streamed ==
  /\ minute \in Nat /\ link \in [n : Nat, up : BOOLEAN] /\ (link.up => link.n # 0)
  /\ Series(rows, Values, minute) /\ \A m \in DOMAIN rows : m \in 1..MaxTime
  /\ versions \in [1..MaxTime -> SUBSET Values]
  /\ epoch # 0 => link.up /\ epoch = link.n
  /\ epoch = 0 => DOMAIN rows = {} /\ conflicts = {} /\ \A m \in 1..MaxTime : versions[m] = {}
  /\ \A m \in DOMAIN rows : m \notin conflicts /\ versions[m] = {rows[m]}
  /\ \A m \in 1..MaxTime : versions[m] # {} /\ minute - m <= Kept => m \in DOMAIN rows \cup conflicts

\* The minutes from some on.
Cached ==
  /\ Series(cache, Values, minute)
  /\ \A k \in DOMAIN cache : \A m \in 1..k : m \in DOMAIN cache \/ m \in holes

\* While a request is under way the cache is what it was asked for, and the answer has
\* every minute from the boundary on, or omits it.
Asked ==
  /\ read = [pc |-> read.pc, end |-> read.end, boundary |-> read.boundary, from |-> read.from,
             answer |-> read.answer, omitted |-> read.omitted]
  /\ read.pc \in {"idle", "asked", "served"}
  /\ read.pc # "idle" =>
       /\ read.end \in Nat /\ read.end <= minute
       /\ read.boundary \in Nat /\ read.from \in Int
       /\ \A m \in DOMAIN cache : m <= read.end
       /\ \A m \in 1..(read.boundary - 1) : \E k \in DOMAIN cache : m <= k
       /\ \A m \in 1..read.end : m >= read.boundary => m - 1 > read.from
       /\ \A m \in Nat : m - 1 > read.from => m >= read.boundary
  /\ read.pc = "served" =>
       /\ read.answer \in [DOMAIN read.answer -> Values \cup {0}]
       /\ \A m \in DOMAIN read.answer :
            m \in Nat \ {0} /\ m >= read.boundary /\ (m <= read.end => read.answer[m] # 0)
       /\ \A m \in 1..read.end : m >= read.boundary => m \in DOMAIN read.answer \cup read.omitted

Evaluated == published.at \in Int /\ \A m \in DOMAIN published.bars : m <= published.at

MinutesInv == Streamed /\ Cached /\ Asked /\ Evaluated

LEMMA LatestOf ==
  ASSUME NEW f, NEW n \in Nat, DOMAIN f # {}, \A m \in DOMAIN f : m \in 1..n
  PROVE  Inputs!Latest(f) \in DOMAIN f /\ \A m \in DOMAIN f : m <= Inputs!Latest(f)
  <1> DEFINE S == DOMAIN f
             T == {n - m : m \in S}
  <1>1. T \in SUBSET Nat /\ T # {} OBVIOUS
  <1>2. PICK k \in T : \A t \in T : k <= t
    <2> HIDE DEF T
    <2> QED BY <1>1, LeastNatural
  <1>3. PICK x \in S : k = n - x OBVIOUS
  <1>4. \A y \in S : y <= x
    <2> SUFFICES ASSUME NEW y \in S PROVE y <= x OBVIOUS
    <2>1. k <= n - y BY <1>2
    <2>2. x \in 1..n /\ y \in 1..n OBVIOUS
    <2> HIDE DEF T, S
    <2> QED BY <1>3, <2>1, <2>2
  <1>5. \E z \in S : \A y \in S : z >= y
    <2>1. x \in Nat /\ \A y \in S : y \in Nat OBVIOUS
    <2> QED BY <1>4, <2>1
  <1>6. Inputs!Max(S) \in S /\ \A y \in S : Inputs!Max(S) >= y BY <1>5 DEF Inputs!Max
  <1>7. \A y \in S : y \in Nat OBVIOUS
  <1> QED BY <1>6, <1>7 DEF Inputs!Latest

LEMMA EmptySeries ==
  /\ DOMAIN Inputs!NoRows = {}
  /\ \A V, n : Series(Inputs!NoRows, V, n)
  /\ \A f, V, n : Series(f, V, n) /\ DOMAIN f = {} => f = Inputs!NoRows
  BY DEF Series, Inputs!NoRows

LEMMA MinutesStart == Inputs!Init => MinutesInv
  <1> SUFFICES ASSUME Inputs!Init PROVE MinutesInv OBVIOUS
  <1> USE EmptySeries
  <1>1. Streamed
    <2>1. versions = [m \in 1..MaxTime |-> {}] /\ rows = Inputs!NoRows BY DEF Inputs!Init
    <2>2. versions \in [1..MaxTime -> SUBSET Values] /\ \A m \in 1..MaxTime : versions[m] = {}
      BY <2>1
    <2> QED BY <2>1, <2>2 DEF Inputs!Init, Streamed
  <1>2. Cached BY DEF Inputs!Init, Cached
  <1>3. Asked BY DEF Inputs!Init, Asked, Inputs!NoRead
  <1>4. Evaluated BY DEF Inputs!Init, Evaluated
  <1> QED BY <1>1, <1>2, <1>3, <1>4 DEF MinutesInv

\* A frame with a minute: offered with its one value, or a conflict.
LEMMA StreamedRow ==
  ASSUME Streamed, NEW m \in 1..MaxTime, NEW v \in Values, Inputs!OnStream(m, v)
  PROVE  Streamed'
  <1> USE MinutesConstants
  <1> DEFINE next == Inputs!WithRow(m, v)
             was == IF epoch = link.n THEN rows ELSE Inputs!NoRows
             bad == IF epoch = link.n THEN conflicts ELSE {}
  <1>1. /\ link.up /\ m <= minute /\ minute - m <= Accepted
        /\ rows' = Inputs!Restrict(next.rows, Inputs!Young(DOMAIN next.rows))
        /\ conflicts' = Inputs!Young(next.bad)
        /\ epoch' = link.n /\ versions' = [versions EXCEPT ![m] = @ \cup {v}]
        /\ minute' = minute /\ link' = link
    BY DEF Inputs!OnStream
  <1>2. was = rows /\ bad = conflicts
    <2>1. CASE epoch = link.n BY <2>1
    <2>2. CASE epoch # link.n
      <3>1. epoch = 0 BY <2>2 DEF Streamed
      <3> QED BY <2>2, <3>1, EmptySeries DEF Streamed
    <2> QED BY <2>1, <2>2
  <1>3. next = IF m \in conflicts THEN [rows |-> rows, bad |-> conflicts, fresh |-> FALSE]
               ELSE IF m \in DOMAIN rows /\ rows[m] # v
               THEN [rows |-> Inputs!Restrict(rows, DOMAIN rows \ {m}), bad |-> conflicts \cup {m}, fresh |-> FALSE]
               ELSE [rows |-> [x \in DOMAIN rows \cup {m} |-> IF x = m THEN v ELSE rows[x]],
                     bad |-> conflicts, fresh |-> TRUE]
    BY <1>2 DEF Inputs!WithRow
  <1> HIDE DEF next, was, bad
  <1>4. /\ next.rows \in [DOMAIN next.rows -> Values]
        /\ \A x \in DOMAIN next.rows : x \in DOMAIN rows \cup {m}
        /\ \A x \in DOMAIN next.rows : x # m => next.rows[x] = rows[x]
        /\ m \in DOMAIN next.rows => m \notin conflicts /\ next.rows[m] = v /\ (m \in DOMAIN rows => rows[m] = v)
        /\ m \in DOMAIN next.rows \cup next.bad
        /\ \A x \in DOMAIN rows \cup conflicts : x \in DOMAIN next.rows \cup next.bad
        /\ \A x \in DOMAIN next.rows : x \notin next.bad
    <2>0. rows \in [DOMAIN rows -> Values] /\ \A x \in DOMAIN rows : x \notin conflicts
      BY DEF Streamed, Series
    <2>1. CASE m \in conflicts BY <1>3, <2>0, <2>1
    <2>2. CASE m \notin conflicts /\ m \in DOMAIN rows /\ rows[m] # v
      <3>1. next.rows = [x \in DOMAIN rows \ {m} |-> rows[x]] /\ next.bad = conflicts \cup {m}
        BY <1>3, <2>2 DEF Inputs!Restrict
      <3> QED BY <2>0, <2>2, <3>1
    <2>3. CASE m \notin conflicts /\ ~(m \in DOMAIN rows /\ rows[m] # v)
      <3>1. next.rows = [x \in DOMAIN rows \cup {m} |-> IF x = m THEN v ELSE rows[x]]
            /\ next.bad = conflicts
        BY <1>3, <2>3
      <3> QED BY <2>0, <2>3, <3>1
    <2> QED BY <2>1, <2>2, <2>3
  <1>5. /\ DOMAIN rows' = Inputs!Young(DOMAIN next.rows)
        /\ rows' \in [DOMAIN rows' -> Values]
        /\ \A x \in DOMAIN rows' : x \in DOMAIN next.rows /\ rows'[x] = next.rows[x]
    BY <1>1, <1>4 DEF Inputs!Restrict, Inputs!Young
  <1>6. \A x \in DOMAIN rows' : x \in 1..minute /\ x \in 1..MaxTime
    BY <1>1, <1>4, <1>5 DEF Streamed, Series
  <1>7. versions' \in [1..MaxTime -> SUBSET Values]
        /\ versions'[m] = versions[m] \cup {v}
        /\ \A x \in 1..MaxTime : x # m => versions'[x] = versions[x]
    BY <1>1 DEF Streamed
  <1>8. ASSUME NEW x \in DOMAIN rows' PROVE versions'[x] = {rows'[x]}
    <2>1. CASE x # m
      <3>1. x \in DOMAIN rows /\ rows'[x] = rows[x] BY <1>4, <1>5, <1>8, <2>1
      <3>2. versions'[x] = versions[x] BY <1>6, <1>7, <1>8, <2>1
      <3> QED BY <3>1, <3>2 DEF Streamed
    <2>2. CASE x = m /\ m \in DOMAIN rows
      <3>1. rows'[m] = v /\ rows[m] = v BY <1>4, <1>5, <1>8, <2>2
      <3>2. versions[m] = {v} BY <2>2, <3>1 DEF Streamed
      <3> QED BY <1>7, <2>2, <3>1, <3>2
    <2>3. CASE x = m /\ m \notin DOMAIN rows
      <3>1. rows'[m] = v /\ m \notin conflicts BY <1>4, <1>5, <1>8, <2>3
      <3>2. minute - m <= Kept BY <1>1 DEF Streamed
      <3>3. versions[m] = {} BY <2>3, <3>1, <3>2 DEF Streamed
      <3> QED BY <1>7, <2>3, <3>1, <3>3
    <2> QED BY <2>1, <2>2, <2>3
  <1>9. \A x \in DOMAIN rows' : x \notin conflicts'
    BY <1>1, <1>4, <1>5 DEF Inputs!Young
  <1>10. ASSUME NEW x \in 1..MaxTime, versions'[x] # {}, minute - x <= Kept
         PROVE  x \in DOMAIN rows' \cup conflicts'
    <2>1. x \in DOMAIN next.rows \cup next.bad
      <3>1. CASE x = m BY <1>4, <3>1
      <3>2. CASE x # m
        <4>1. x \in DOMAIN rows \cup conflicts BY <1>7, <1>10, <3>2 DEF Streamed
        <4> QED BY <1>4, <4>1
      <3> QED BY <3>1, <3>2
    <2> QED BY <1>1, <1>5, <1>10, <2>1 DEF Inputs!Young
  <1>11. epoch' # 0 /\ epoch' = link'.n /\ link'.up BY <1>1 DEF Streamed
  <1>12. minute' \in Nat /\ link' \in [n : Nat, up : BOOLEAN] BY <1>1 DEF Streamed
  <1> QED BY <1>1, <1>5, <1>6, <1>7, <1>8, <1>9, <1>10, <1>11, <1>12 DEF Streamed, Series

LEMMA StreamedStep ==
  ASSUME Streamed, Inputs!Next
  PROVE  Streamed'
  <1> USE MinutesConstants
  <1>1. ASSUME UNCHANGED <<minute, link, rows, conflicts, epoch, versions>> PROVE Streamed'
    BY <1>1 DEF Streamed, Series
  <1>2. CASE Inputs!Connect
    <2>1. /\ link' = [n |-> link.n + 1, up |-> TRUE] /\ ~link.up
          /\ UNCHANGED <<minute, rows, conflicts, epoch, versions>>
      BY <1>2 DEF Inputs!Connect, Inputs!streamVars
    <2>2. epoch = 0 BY <2>1 DEF Streamed
    <2> QED BY <2>1, <2>2 DEF Streamed, Series
  <1>3. CASE Inputs!Disconnect
    <2>1. /\ link' = [link EXCEPT !.up = FALSE] /\ minute' = minute
          /\ rows' = Inputs!NoRows /\ conflicts' = {} /\ epoch' = 0
          /\ versions' = [m \in 1..MaxTime |-> {}]
      BY <1>3 DEF Inputs!Disconnect, Inputs!StreamReset
    <2>2. versions' \in [1..MaxTime -> SUBSET Values] /\ \A m \in 1..MaxTime : versions'[m] = {}
      BY <2>1
    <2>3. DOMAIN rows' = {} /\ Series(rows', Values, minute') BY <2>1, EmptySeries
    <2>4. minute' \in Nat /\ link' \in [n : Nat, up : BOOLEAN] /\ ~link'.up BY <2>1 DEF Streamed
    <2> QED BY <2>1, <2>2, <2>3, <2>4 DEF Streamed
  <1>4. ASSUME NEW m \in 1..MaxTime, NEW v \in Values, Inputs!OnStream(m, v) PROVE Streamed'
    BY <1>4, StreamedRow
  <1>5. ASSUME Inputs!FromStream \/ Inputs!Ask \/ Inputs!Receive \/ Inputs!Fail PROVE Streamed'
    BY <1>5, <1>1 DEF Inputs!FromStream, Inputs!Ask, Inputs!Receive, Inputs!Fail, Inputs!streamVars
  <1>6. ASSUME NEW o, Inputs!Serve(o) PROVE Streamed'
    BY <1>6, <1>1 DEF Inputs!Serve, Inputs!streamVars
  <1>7. CASE Inputs!Later BY <1>7, <1>1 DEF Inputs!Later
  <1>8. CASE Inputs!Minute
    <2>1. minute' = minute + 1 /\ UNCHANGED <<link, rows, conflicts, epoch, versions>>
      BY <1>8 DEF Inputs!Minute
    <2>2. \A m \in 1..MaxTime : minute' - m <= Kept => minute - m <= Kept BY <2>1 DEF Streamed
    <2>3. Series(rows', Values, minute') BY <2>1 DEF Streamed, Series
    <2>4. minute' \in Nat BY <2>1 DEF Streamed
    <2> QED BY <2>1, <2>2, <2>3, <2>4 DEF Streamed
  <1> QED BY <1>2, <1>3, <1>4, <1>5, <1>6, <1>7, <1>8, Zenon DEF Inputs!Next

\* What a refresh leaves in the cache, and evaluates.
LEMMA FromStreamKeeps ==
  ASSUME Streamed, Cached, Evaluated, Inputs!FromStream
  PROVE  Cached' /\ Evaluated'
  <1> USE MinutesConstants
  <1> DEFINE more == Inputs!Joined(cache, rows)
  <1>1. /\ cache' = Inputs!UpTo(more, minute)
        /\ published' = [at |-> minute, bars |-> cache', stale |-> minute - minute > 1]
        /\ minute' = minute /\ holes' = holes /\ cache # Inputs!NoRows
        /\ \A m \in (Inputs!Latest(cache) + 1)..minute : m \in DOMAIN rows
    BY DEF Inputs!FromStream, Inputs!Publish, Inputs!Contiguous
  <1>2. more = [m \in DOMAIN cache \cup DOMAIN rows |-> IF m \in DOMAIN rows THEN rows[m] ELSE cache[m]]
    BY DEF Inputs!Joined
  <1>3. more \in [DOMAIN cache \cup DOMAIN rows -> Values] BY <1>2 DEF Streamed, Cached, Series
  <1>4. DOMAIN cache' = {x \in DOMAIN cache \cup DOMAIN rows : x <= minute}
        /\ cache' \in [DOMAIN cache' -> Values]
    <2> HIDE DEF more
    <2> QED BY <1>1, <1>3 DEF Inputs!UpTo, Inputs!Restrict
  <1>5. \A x \in DOMAIN cache' : x \in 1..minute BY <1>4 DEF Streamed, Cached, Series
  <1>6. Inputs!Latest(cache) \in DOMAIN cache
        /\ \A m \in DOMAIN cache : m <= Inputs!Latest(cache)
    <2>1. DOMAIN cache # {} BY <1>1, EmptySeries DEF Cached
    <2> QED BY <2>1, LatestOf DEF Streamed, Cached, Series
  <1>7. ASSUME NEW k \in DOMAIN cache', NEW m \in 1..k PROVE m \in DOMAIN cache' \/ m \in holes'
    <2>1. k \in 1..minute /\ minute \in Nat BY <1>5 DEF Streamed
    <2>2. m \in 1..minute BY <2>1
    <2>3. Inputs!Latest(cache) \in Nat BY <1>6 DEF Cached, Series
    <2>4. CASE m <= Inputs!Latest(cache)
      <3>1. m \in DOMAIN cache \/ m \in holes BY <1>6, <2>3, <2>4 DEF Cached
      <3> QED BY <1>1, <1>4, <2>2, <3>1
    <2>5. CASE ~(m <= Inputs!Latest(cache))
      <3>1. m \in (Inputs!Latest(cache) + 1)..minute BY <2>2, <2>3, <2>5
      <3> QED BY <1>1, <1>4, <2>2, <3>1
    <2> QED BY <2>4, <2>5
  <1>8. Cached' BY <1>1, <1>4, <1>5, <1>7 DEF Cached, Series
  <1>9. Evaluated' BY <1>1, <1>5 DEF Evaluated, Streamed
  <1> QED BY <1>8, <1>9

LEMMA ReceiveKeeps ==
  ASSUME Streamed, Cached, Asked, Evaluated, Inputs!Receive
  PROVE  Cached' /\ Evaluated'
  <1> USE MinutesConstants
  <1> DEFINE taken == {m \in DOMAIN read.answer : read.boundary <= m /\ Inputs!Completed(m)}
             saved == {m \in DOMAIN cache : m < read.boundary /\ m <= read.end}
  <1>1. /\ read.pc = "served"
        /\ cache' = Inputs!Joined(Inputs!Restrict(cache, saved), Inputs!Restrict(read.answer, taken))
        /\ published' = [at |-> read.end, bars |-> cache', stale |-> minute - read.end > 1]
        /\ holes' = (holes \ DOMAIN read.answer) \cup read.omitted /\ minute' = minute
    BY DEF Inputs!Receive, Inputs!Publish
  <1>2. /\ read.end \in Nat /\ read.end <= minute /\ read.boundary \in Nat
        /\ \A m \in DOMAIN cache : m <= read.end
        /\ \A m \in 1..(read.boundary - 1) : \E k \in DOMAIN cache : m <= k
        /\ read.answer \in [DOMAIN read.answer -> Values \cup {0}]
        /\ \A m \in DOMAIN read.answer :
             m \in Nat \ {0} /\ m >= read.boundary /\ (m <= read.end => read.answer[m] # 0)
        /\ \A m \in 1..read.end : m >= read.boundary => m \in DOMAIN read.answer \cup read.omitted
    BY <1>1 DEF Asked
  <1>3. taken = {m \in DOMAIN read.answer : m <= read.end}
    BY <1>2 DEF Inputs!Completed, Streamed
  <1>4. saved = {m \in DOMAIN cache : m < read.boundary} BY <1>2
  <1> HIDE DEF taken, saved
  <1>5. cache' = [m \in saved \cup taken |-> IF m \in taken THEN read.answer[m] ELSE cache[m]]
    BY <1>1 DEF Inputs!Joined, Inputs!Restrict
  <1>6. DOMAIN cache' = saved \cup taken BY <1>5
  <1>7. cache' \in [DOMAIN cache' -> Values]
    <2>1. \A m \in taken : read.answer[m] \in Values BY <1>2, <1>3
    <2>2. \A m \in saved : cache[m] \in Values BY <1>4 DEF Cached, Series
    <2> QED BY <1>5, <2>1, <2>2
  <1>8. \A x \in DOMAIN cache' : x \in 1..minute /\ x <= read.end
    <2>1. ASSUME NEW x \in saved PROVE x \in 1..minute /\ x <= read.end
      BY <1>2, <1>4 DEF Cached, Series
    <2>2. ASSUME NEW x \in taken PROVE x \in 1..minute /\ x <= read.end
      BY <1>2, <1>3 DEF Streamed
    <2> QED BY <1>6, <2>1, <2>2
  <1>9. ASSUME NEW k \in DOMAIN cache', NEW m \in 1..k PROVE m \in DOMAIN cache' \/ m \in holes'
    <2>1. k \in Nat /\ k <= read.end /\ m \in 1..read.end BY <1>2, <1>8
    <2>2. CASE m >= read.boundary
      <3>1. m \in DOMAIN read.answer \/ m \in read.omitted BY <1>2, <2>1, <2>2
      <3>2. m <= read.end BY <1>2, <2>1
      <3> QED BY <1>1, <1>3, <1>6, <3>1, <3>2
    <2>3. CASE ~(m >= read.boundary)
      <3>1. m \in 1..(read.boundary - 1) /\ m < read.boundary BY <1>2, <2>1, <2>3
      <3>2. PICK j \in DOMAIN cache : m <= j BY <1>2, <3>1
      <3>3. j \in Nat BY DEF Cached, Series
      <3>4. m \in 1..j BY <3>2, <3>3
      <3>5. m \in DOMAIN cache \/ m \in holes BY <3>4 DEF Cached
      <3>6. m \notin DOMAIN read.answer BY <1>2, <2>3
      <3> QED BY <1>1, <1>4, <1>6, <3>1, <3>5, <3>6
    <2> QED BY <2>2, <2>3
  <1>10. Cached' BY <1>1, <1>7, <1>8, <1>9 DEF Cached, Series
  <1>11. Evaluated' BY <1>1, <1>2, <1>8 DEF Evaluated
  <1> QED BY <1>10, <1>11

\* The request asks from the boundary on, which is behind the latest minute of the cache.
LEMMA AskKeeps ==
  ASSUME Streamed, Cached, Inputs!Ask
  PROVE  Asked'
  <1> USE MinutesConstants
  <1> DEFINE b == IF cache = Inputs!NoRows THEN 0 ELSE Inputs!Max({0, Inputs!Latest(cache) - 1})
             d == IF cache = Inputs!NoRows THEN 1 ELSE 2
  <1>1. /\ read' = [Inputs!NoRead EXCEPT !.pc = "asked", !.end = minute, !.boundary = b, !.from = b - d]
        /\ UNCHANGED <<minute, cache>>
    BY DEF Inputs!Ask, Inputs!Overlap
  <1>2. CASE cache = Inputs!NoRows
    <2>1. b = 0 /\ d = 1 /\ DOMAIN cache = {} BY <1>2, EmptySeries
    <2> HIDE DEF b, d
    <2>2. read'.pc = "asked" /\ read'.end = minute /\ read'.boundary = 0 /\ read'.from = -1
      BY <1>1, <2>1 DEF Inputs!NoRead
    <2>3. read' = [pc |-> read'.pc, end |-> read'.end, boundary |-> read'.boundary,
                   from |-> read'.from, answer |-> read'.answer, omitted |-> read'.omitted]
      BY <1>1 DEF Inputs!NoRead
    <2>4. \A m \in Nat : m - 1 > -1 => m >= 0 OBVIOUS
    <2>5. \A m \in 1..minute : m - 1 > -1 BY DEF Streamed
    <2>6. 1..(0 - 1) = {} OBVIOUS
    <2>7. minute \in Nat BY DEF Streamed
    <2> QED BY <1>1, <2>1, <2>2, <2>3, <2>4, <2>5, <2>6, <2>7 DEF Asked
  <1>3. CASE cache # Inputs!NoRows
    <2>1. DOMAIN cache # {} /\ d = 2 BY <1>3, EmptySeries DEF Cached
    <2> DEFINE k == Inputs!Latest(cache)
    <2>2. k \in DOMAIN cache /\ \A m \in DOMAIN cache : m <= k
      BY <2>1, LatestOf DEF Streamed, Cached, Series
    <2>3. k \in 1..minute /\ minute \in Nat BY <2>2 DEF Streamed, Cached, Series
    <2> HIDE DEF k
    <2>4. b = k - 1
      <3>1. b = Inputs!Max({0, k - 1}) BY <1>3 DEF k
      <3>2. k - 1 \in Nat BY <2>3
      <3>3. \A x \in {0, k - 1} : (\A y \in {0, k - 1} : x >= y) => x = k - 1 BY <3>2
      <3>4. \E x \in {0, k - 1} : \A y \in {0, k - 1} : x >= y BY <3>2
      <3>5. Inputs!Max({0, k - 1}) = k - 1 BY <3>3, <3>4 DEF Inputs!Max
      <3> QED BY <3>1, <3>5
    <2> HIDE DEF b, d
    <2>5. read'.pc = "asked" /\ read'.end = minute /\ read'.boundary = k - 1 /\ read'.from = k - 3
      <3>1. (k - 1) - 2 = k - 3 BY <2>3
      <3> QED BY <1>1, <2>1, <2>4, <3>1 DEF Inputs!NoRead
    <2>6. read' = [pc |-> read'.pc, end |-> read'.end, boundary |-> read'.boundary,
                   from |-> read'.from, answer |-> read'.answer, omitted |-> read'.omitted]
      BY <1>1 DEF Inputs!NoRead
    <2>7. \A m \in Nat : m - 1 > k - 3 => m >= k - 1 BY <2>3
    <2>8. \A m \in 1..minute : m >= k - 1 => m - 1 > k - 3 BY <2>3
    <2>9. \A m \in 1..((k - 1) - 1) : m <= k BY <2>3
    <2>10. \A m \in DOMAIN cache : m <= minute BY DEF Streamed, Cached, Series
    <2>11. k - 1 \in Nat /\ k - 3 \in Int /\ minute <= minute BY <2>3
    <2> QED BY <1>1, <2>2, <2>3, <2>5, <2>6, <2>7, <2>8, <2>9, <2>10, <2>11 DEF Asked
  <1> QED BY <1>2, <1>3

\* The answer of the charts has what was asked for, but for what it omits; the minute that is
\* still forming is behind the one that was asked for.
LEMMA ServeKeeps ==
  ASSUME Streamed, Asked, NEW o, Inputs!Serve(o)
  PROVE  Asked'
  <1> USE MinutesConstants
  <1> DEFINE asks == {m \in 1..(minute + 1) : m - 1 > read.from}
             a == [m \in asks \ o |-> IF m = minute + 1 THEN 0 ELSE Inputs!True]
  <1>1. /\ read.pc = "asked" /\ o \subseteq asks
        /\ read' = [read EXCEPT !.pc = "served", !.answer = a, !.omitted = o]
        /\ UNCHANGED <<minute, cache>>
    BY DEF Inputs!Serve, Inputs!Partial
  <1>2. Inputs!True \in Values
    <2>1. \E n \in Values : \A m \in Values : n <= m BY LeastNatural
    <2> QED BY <2>1 DEF Inputs!True
  <1>3. /\ read.end \in Nat /\ read.end <= minute
        /\ read.boundary \in Nat /\ read.from \in Int
        /\ \A m \in DOMAIN cache : m <= read.end
        /\ \A m \in 1..(read.boundary - 1) : \E k \in DOMAIN cache : m <= k
        /\ \A m \in 1..read.end : m >= read.boundary => m - 1 > read.from
        /\ \A m \in Nat : m - 1 > read.from => m >= read.boundary
    BY <1>1 DEF Asked
  <1>4. minute \in Nat BY DEF Streamed
  <1>5. a \in [asks \ o -> Values \cup {0}] /\ DOMAIN a = asks \ o BY <1>2
  <1>6. \A m \in DOMAIN a : m \in Nat \ {0} /\ m >= read.boundary /\ (m <= read.end => a[m] # 0)
    <2> SUFFICES ASSUME NEW m \in asks \ o
                 PROVE  m \in Nat \ {0} /\ m >= read.boundary /\ (m <= read.end => a[m] # 0)
      BY <1>5
    <2>1. m \in 1..(minute + 1) /\ m - 1 > read.from OBVIOUS
    <2>2. m \in Nat \ {0} BY <1>4, <2>1
    <2>3. m >= read.boundary BY <1>3, <2>1, <2>2
    <2>4. m <= read.end => m # minute + 1 BY <1>3, <1>4, <2>2
    <2>5. m # minute + 1 => a[m] = Inputs!True OBVIOUS
    <2> QED BY <1>2, <2>2, <2>3, <2>4, <2>5
  <1>7. \A m \in 1..read.end : m >= read.boundary => m \in DOMAIN a \cup o
    <2>1. \A m \in 1..read.end : m \in 1..(minute + 1) BY <1>3, <1>4
    <2> QED BY <1>3, <1>5, <2>1
  <1> HIDE DEF a, asks
  <1>8. /\ read'.pc = "served" /\ read'.answer = a /\ read'.omitted = o
        /\ read'.end = read.end /\ read'.boundary = read.boundary /\ read'.from = read.from
        /\ read' = [pc |-> read'.pc, end |-> read'.end, boundary |-> read'.boundary,
                    from |-> read'.from, answer |-> read'.answer, omitted |-> read'.omitted]
    BY <1>1 DEF Asked
  <1> QED BY <1>1, <1>3, <1>5, <1>6, <1>7, <1>8 DEF Asked

LEMMA MinutesStep ==
  ASSUME MinutesInv, [SessionNext]_sessionVars
  PROVE  MinutesInv'
  <1> USE DEF MinutesInv
  <1>0. Inputs!Next \/ UNCHANGED minutes BY OneSessionPart
  <1>1. CASE UNCHANGED minutes
    BY <1>1 DEF minutes, Streamed, Cached, Asked, Evaluated, Series
  <1>2. ASSUME UNCHANGED <<minute, cache, holes>> PROVE Cached'
    BY <1>2 DEF Cached, Series
  <1>3. ASSUME UNCHANGED <<minute, cache, read>> PROVE Asked'
    BY <1>3 DEF Asked
  <1>4. ASSUME UNCHANGED published PROVE Evaluated'
    BY <1>4 DEF Evaluated
  <1>5. ASSUME Inputs!Next PROVE Streamed' BY <1>5, StreamedStep
  <1>6. CASE Inputs!Connect \/ Inputs!Disconnect \/ Inputs!Later
    <2>1. UNCHANGED <<minute, cache, holes, read, published>>
      BY <1>6 DEF Inputs!Connect, Inputs!Disconnect, Inputs!Later
    <2>2. Inputs!Next BY <1>6 DEF Inputs!Next
    <2> QED BY <2>1, <2>2, <1>2, <1>3, <1>4, <1>5
  <1>7. ASSUME NEW m \in 1..MaxTime, NEW v \in Values, Inputs!OnStream(m, v) PROVE MinutesInv'
    <2>1. UNCHANGED <<minute, cache, holes, read, published>> BY <1>7 DEF Inputs!OnStream
    <2> QED BY <1>7, <2>1, <1>2, <1>3, <1>4, StreamedRow
  <1>8. CASE Inputs!FromStream
    <2>1. Inputs!Next BY <1>8 DEF Inputs!Next
    <2>2. read.pc = "idle" /\ read' = read BY <1>8 DEF Inputs!FromStream
    <2>3. Asked' BY <2>2 DEF Asked
    <2> QED BY <1>8, <2>1, <2>3, <1>5, FromStreamKeeps
  <1>9. CASE Inputs!Ask
    <2>1. UNCHANGED <<minute, cache, holes, published>> BY <1>9 DEF Inputs!Ask
    <2>2. Inputs!Next BY <1>9 DEF Inputs!Next
    <2> QED BY <1>9, <2>1, <2>2, <1>2, <1>4, <1>5, AskKeeps
  <1>10. CASE Inputs!Receive
    <2>1. Inputs!Next /\ read' = Inputs!NoRead BY <1>10 DEF Inputs!Next, Inputs!Receive
    <2>2. Asked' BY <2>1 DEF Asked, Inputs!NoRead
    <2> QED BY <1>10, <2>1, <2>2, <1>5, ReceiveKeeps
  <1>11. CASE Inputs!Fail
    <2>1. /\ Inputs!Next /\ read' = Inputs!NoRead /\ cache' = Inputs!NoRows
          /\ published' = [at |-> read.end, bars |-> Inputs!NoRows, stale |-> minute - read.end > 1]
          /\ read.pc # "idle"
      BY <1>11 DEF Inputs!Next, Inputs!Fail, Inputs!Publish
    <2>2. Asked' BY <2>1 DEF Asked, Inputs!NoRead
    <2>3. Cached' BY <2>1, EmptySeries DEF Cached
    <2>4. Evaluated' BY <2>1, EmptySeries DEF Evaluated, Asked
    <2> QED BY <2>1, <2>2, <2>3, <2>4, <1>5
  <1>12. ASSUME NEW o, Inputs!Serve(o), Inputs!Next PROVE MinutesInv'
    <2>1. UNCHANGED <<minute, cache, holes, published>> BY <1>12 DEF Inputs!Serve
    <2> QED BY <1>12, <2>1, <1>2, <1>4, <1>5, ServeKeeps
  <1>13. CASE Inputs!Minute
    <2>1. minute' = minute + 1 /\ UNCHANGED <<cache, holes, read, published>>
      BY <1>13 DEF Inputs!Minute
    <2>2. Inputs!Next BY <1>13 DEF Inputs!Next
    <2>3. minute \in Nat BY DEF Streamed
    <2>4. Cached' BY <2>1, <2>3 DEF Cached, Series
    <2>5. Asked' BY <2>1, <2>3 DEF Asked
    <2> QED BY <2>1, <2>2, <2>4, <2>5, <1>4, <1>5
  <1>14. ASSUME Inputs!Next PROVE MinutesInv'
    BY <1>14, <1>6, <1>7, <1>8, <1>9, <1>10, <1>11, <1>12, <1>13, Zenon DEF Inputs!Next
  <1> QED BY <1>0, <1>1, <1>14

LEMMA MinutesAlways == SessionSpec => []MinutesInv
  <1>1. SessionInit => MinutesInv BY SessionStart, MinutesStart
  <1>2. MinutesInv /\ [SessionNext]_sessionVars => MinutesInv' BY MinutesStep
  <1> QED BY <1>1, <1>2, PTL DEF SessionSpec

LEMMA MinutesAreTrue == MinutesInv => Inputs!InputsAreTrue
  <1> SUFFICES ASSUME MinutesInv PROVE Inputs!InputsAreTrue OBVIOUS
  <1> USE MinutesConstants DEF MinutesInv
  <1>1. Inputs!StreamUnambiguous BY DEF Streamed, Inputs!StreamUnambiguous
  <1>2. Inputs!BarsWereComplete
    <2>1. \A m \in DOMAIN cache : cache[m] # 0 /\ m <= minute
      BY DEF Streamed, Cached, Series
    <2> QED BY <2>1 DEF Evaluated, Inputs!BarsWereComplete, Inputs!Partial
  <1>3. Inputs!NoHoleOfOurOwn
    <2> SUFFICES ASSUME cache # Inputs!NoRows, NEW m \in 1..Inputs!Latest(cache)
                 PROVE  m \in DOMAIN cache \/ m \in holes
      BY DEF Inputs!NoHoleOfOurOwn
    <2>1. DOMAIN cache # {} BY EmptySeries DEF Cached
    <2>2. Inputs!Latest(cache) \in DOMAIN cache BY <2>1, LatestOf DEF Streamed, Cached, Series
    <2> QED BY <2>2 DEF Cached
  <1> QED BY <1>1, <1>2, <1>3 DEF Inputs!InputsAreTrue

\* A minute the stream offers had one value on this connection, a bar that is evaluated was
\* complete when it was sent, and the cache has no hole of the program's own making
\* (stream_minutes.py, strategy_inputs.py 86-160); and the seconds strategies are as
\* SecondsAreCurrentHolds says.
THEOREM InputsAreCurrentHolds == SessionSpec => InputsAreCurrent
  <1>1. MinutesInv => (part = "inputs" => Inputs!InputsAreTrue) BY MinutesAreTrue
  <1> QED BY <1>1, MinutesAlways, SecondsAreCurrentHolds, PTL DEF InputsAreCurrent

-----------------------------------------------------------------------------
(* The auction signal *)

LEMMA AuctionConstants ==
  /\ MaxTime \in Nat /\ MaxConns \in Nat /\ Needed \in Nat
  /\ Uncertainties \subseteq Nat
  BY SessionAssumption

LEMMA AuctionStep ==
  [SessionNext]_sessionVars =>
    /\ part' = part
    /\ part = "signal" => Signal!Next \/ UNCHANGED auction
    /\ part # "signal" => Reference!Next \/ UNCHANGED auction
  BY DEF SessionNext, sessionVars

LEMMA AuctionStart ==
  SessionInit =>
    IF part = "signal" THEN Signal!Init ELSE Reference!Init
  BY DEF SessionInit

Sightings == Nat \X Int \X Levels
Sighted == [value : Levels, id : Sightings]

AuctionTyped ==
  /\ now \in 0..MaxTime /\ signal \in [n : 0..MaxConns, up : BOOLEAN] /\ snapshot \in 0..MaxConns
  /\ status \in [phase : Signal!Phases \cup {"none"}, at : Int, conn : 0..MaxConns]
  /\ listening \in BOOLEAN /\ marketUp \in BOOLEAN
  /\ bookOf \in [Signal!Contracts -> Asks \cup {0}]
  /\ observations \in Seq(Sighted)
  /\ streaks \in [Signal!Contracts -> Seq(Sighted)]

Bidding ==
  /\ entry = [contract |-> entry.contract, history |-> entry.history, status |-> entry.status,
              last |-> entry.last, book |-> entry.book]
  /\ entry.contract \subseteq Signal!Contracts /\ entry.book \in BOOLEAN
  /\ entry.status.conn \in 0..MaxConns /\ entry.status.conn <= signal.n

\* What there is came on the feeds that are up, and is judged against a reference.
Connected ==
  /\ observations # <<>> => reference # Signal!NoReference
  /\ status # Signal!NoStatus => status.conn = signal.n /\ signal.up
  /\ \A c \in Signal!Contracts : bookOf[c] # 0 => marketUp

\* A contract with a streak lags, and all of its streak came since it last did not.
StreakOf(c) ==
  /\ streaks[c] # <<>> => Signal!Lagging(c)
  /\ Signal!Ids(streaks[c]) \subseteq fresh[c]
Streaks == \A c \in Signal!Contracts : StreakOf(c)

\* An entry may still leave as long as its connection, its book and its last observation are
\* what they were; none of them can come back once it went.
Leavable == entry.book /\ entry.status.conn = signal.n /\ signal.up /\ listening
Bid ==
  /\ entry.contract # {} => entry.last # <<>>
  /\ Leavable => entry.last.id \in Signal!Ids(observations)
  /\ Leavable /\ Signal!LastSeen = entry.last =>
       \A c \in entry.contract :
         /\ Signal!Lagging(c)
         /\ Signal!Cardinality(Signal!Ids(entry.history)) >= 2
         /\ Signal!Ids(entry.history) \subseteq fresh[c]

SignalInv == AuctionTyped /\ Bidding /\ Connected /\ Streaks /\ Bid

LEMMA NoIds == Signal!Ids(<<>>) = {}
  BY DEF Signal!Ids

LEMMA NoSequences ==
  /\ Signal!NoStreaks \in [Signal!Contracts -> Seq(Sighted)]
  /\ \A c \in Signal!Contracts : Signal!NoStreaks[c] = <<>>
  /\ \A c \in Signal!Contracts : Signal!NoBooks[c] = 0
  /\ Signal!NoBooks \in [Signal!Contracts -> Asks \cup {0}]
  /\ <<>> \in Seq(Sighted)
  BY DEF Signal!NoStreaks, Signal!NoBooks, Signal!NoAsk

\* No entry is under way.
LEMMA NoBid ==
  ASSUME entry' = Signal!NoEntry, signal' \in [n : 0..MaxConns, up : BOOLEAN]
  PROVE  Bidding' /\ Bid'
  <1> USE AuctionConstants
  <1>1. /\ entry'.contract = {} /\ ~entry'.book /\ entry'.book \in BOOLEAN /\ entry'.status.conn = 0
        /\ entry' = [contract |-> entry'.contract, history |-> entry'.history,
                     status |-> entry'.status, last |-> entry'.last, book |-> entry'.book]
    BY DEF Signal!NoEntry, Signal!NoStatus
  <1>2. ~Leavable' BY <1>1 DEF Leavable
  <1> QED BY <1>1, <1>2 DEF Bidding, Bid

LEMMA SignalStart == Signal!Init => SignalInv
  <1> SUFFICES ASSUME Signal!Init PROVE SignalInv OBVIOUS
  <1> USE AuctionConstants, NoSequences
  <1>1. AuctionTyped
    <2>1. status = Signal!NoStatus /\ Signal!NoStatus \in [phase : Signal!Phases \cup {"none"}, at : Int, conn : 0..MaxConns]
      BY DEF Signal!Init, Signal!NoStatus
    <2> QED BY <2>1 DEF Signal!Init, AuctionTyped
  <1>2. /\ entry.contract = {} /\ entry.book = FALSE /\ entry.status.conn = 0
        /\ entry = [contract |-> entry.contract, history |-> entry.history,
                    status |-> entry.status, last |-> entry.last, book |-> entry.book]
    BY DEF Signal!Init, Signal!NoEntry, Signal!NoStatus
  <1>3. Bidding
    <2>1. signal.n = 0 /\ 0 \in 0..MaxConns BY DEF Signal!Init
    <2>2. entry.status.conn \in 0..MaxConns /\ entry.status.conn <= signal.n BY <1>2, <2>1
    <2>3. entry.contract \subseteq Signal!Contracts /\ entry.book \in BOOLEAN BY <1>2
    <2> QED BY <1>2, <2>2, <2>3, Zenon DEF Bidding
  <1>4. Bid BY <1>2 DEF Bid, Leavable
  <1>5. Connected /\ Streaks
    BY NoIds DEF Signal!Init, Connected, Streaks, StreakOf
  <1> QED BY <1>1, <1>3, <1>4, <1>5 DEF SignalInv

\* What the observer notes of one contract.
LEMMA Noted ==
  ASSUME Signal!Note, NEW c \in Signal!Contracts
  PROVE  fresh'[c] = IF ~Signal!Lagging(c)' THEN {}
                     ELSE IF observations' # observations THEN fresh[c] \cup {Signal!LastSeen'.id}
                     ELSE fresh[c]
  BY DEF Signal!Note

LEMMA StillLagging ==
  ASSUME NEW c \in Signal!Contracts, Signal!Lagging(c), bookOf'[c] = bookOf[c],
         UNCHANGED <<signal, marketUp, observations, reference>>
  PROVE  Signal!Lagging(c)'
  BY DEF Signal!Lagging, Signal!Qualifies, Signal!Direction, Signal!Lags, Signal!Intrinsic,
         Signal!LastSeen

LEMMA NoStreaksKept ==
  ASSUME streaks' = Signal!NoStreaks
  PROVE  Streaks'
  BY NoSequences, NoIds DEF Streaks, StreakOf

\* A step that hears nothing new, and ends the streaks of what stops to lag.
LEMMA QuietStep ==
  ASSUME SignalInv, Signal!Note,
         UNCHANGED <<signal, listening, marketUp, observations>>,
         reference' = reference \/ observations = <<>>,
         \A c \in Signal!Contracts :
           streaks'[c] = <<>> \/ (streaks'[c] = streaks[c] /\ (Signal!Lagging(c) => Signal!Lagging(c)')),
         entry' = Signal!NoEntry \/
           /\ entry' = [entry EXCEPT !.book = entry'.book] /\ entry'.book \in BOOLEAN
           /\ entry'.book => entry.book /\ \A c \in entry.contract : bookOf'[c] = bookOf[c]
  PROVE  Streaks' /\ Bidding' /\ Bid'
  <1> USE AuctionConstants DEF SignalInv
  <1>1. ASSUME NEW c \in Signal!Contracts PROVE StreakOf(c)'
    <2>1. CASE streaks'[c] = <<>> BY <2>1, NoIds DEF StreakOf
    <2>2. CASE streaks'[c] = streaks[c] /\ streaks[c] # <<>>
      <3>1. Signal!Lagging(c) BY <2>2 DEF Streaks, StreakOf
      <3>2. Signal!Lagging(c)' BY <2>2, <3>1
      <3>3. fresh'[c] = fresh[c] BY <3>2, Noted
      <3>4. Signal!Ids(streaks'[c]) \subseteq fresh'[c] BY <2>2, <3>3 DEF Streaks, StreakOf
      <3> QED BY <3>2, <3>4 DEF StreakOf
    <2> QED BY <2>1, <2>2
  <1>2. Streaks' BY <1>1 DEF Streaks
  <1>3. CASE entry' = Signal!NoEntry
    <2>1. signal' \in [n : 0..MaxConns, up : BOOLEAN] BY DEF AuctionTyped
    <2> QED BY <1>2, <1>3, <2>1, NoBid
  <1>4. CASE /\ entry' = [entry EXCEPT !.book = entry'.book] /\ entry'.book \in BOOLEAN
             /\ entry'.book => entry.book /\ \A c \in entry.contract : bookOf'[c] = bookOf[c]
    <2>1. /\ entry'.contract = entry.contract /\ entry'.history = entry.history
          /\ entry'.status = entry.status /\ entry'.last = entry.last
          /\ entry' = [contract |-> entry'.contract, history |-> entry'.history,
                       status |-> entry'.status, last |-> entry'.last, book |-> entry'.book]
      BY <1>4 DEF Bidding
    <2>2. Bidding' BY <1>4, <2>1 DEF Bidding
    <2>3. Leavable' => Leavable BY <1>4, <2>1 DEF Leavable
    <2>4. Leavable => observations # <<>> BY NoIds DEF Bid
    <2>5. Signal!LastSeen' = Signal!LastSeen BY DEF Signal!LastSeen
    <2>6. ASSUME Leavable', Signal!LastSeen' = entry'.last, NEW c \in entry'.contract
          PROVE  /\ Signal!Lagging(c)'
                 /\ Signal!Cardinality(Signal!Ids(entry'.history)) >= 2
                 /\ Signal!Ids(entry'.history) \subseteq fresh'[c]
      <3>1. /\ Leavable /\ Signal!LastSeen = entry.last /\ c \in entry.contract
            /\ c \in Signal!Contracts
        BY <2>1, <2>3, <2>5, <2>6 DEF Bidding
      <3>2. /\ Signal!Lagging(c) /\ Signal!Cardinality(Signal!Ids(entry.history)) >= 2
            /\ Signal!Ids(entry.history) \subseteq fresh[c]
        BY <3>1 DEF Bid
      <3>3. bookOf'[c] = bookOf[c] /\ reference' = reference
        BY <1>4, <2>4, <2>6, <3>1 DEF Leavable
      <3>4. Signal!Lagging(c)' BY <3>1, <3>2, <3>3, StillLagging
      <3>5. fresh'[c] = fresh[c] BY <3>1, <3>4, Noted
      <3> QED BY <2>1, <3>2, <3>4, <3>5
    <2>7. Bid' BY <2>1, <2>3, <2>6 DEF Bid
    <2> QED BY <1>2, <2>2, <2>7
  <1> QED BY <1>3, <1>4

\* Everything that was heard is gone, and the entry cannot leave any more.
LEMMA ResetStep ==
  ASSUME SignalInv, streaks' = Signal!NoStreaks, ~Leavable', UNCHANGED entry,
         signal' \in [n : 0..MaxConns, up : BOOLEAN], signal.n <= signal'.n
  PROVE  Streaks' /\ Bidding' /\ Bid'
  <1> USE AuctionConstants DEF SignalInv
  <1>1. Bidding' BY DEF Bidding, AuctionTyped
  <1>2. Bid' BY DEF Bid
  <1> QED BY <1>1, <1>2, NoStreaksKept

\* The observation extends the streaks of the contracts that lag; the entry does not leave
\* on it.
LEMMA HeardStep ==
  ASSUME SignalInv, Signal!Note, NEW at \in Int, NEW value \in Levels, Signal!OnIep(at, value)
  PROVE  SignalInv'
  <1> USE AuctionConstants DEF SignalInv
  <1> DEFINE id == <<signal.n, at, value>>
             o == [value |-> value, id |-> id]
  <1>1. /\ signal.up /\ reference # Signal!NoReference
        /\ UNCHANGED <<now, signal, marketUp, bookOf, entry, snapshot, status, listening, reference>>
    BY DEF Signal!OnIep, Signal!Frame, Signal!marketVars
  <1>2. o \in Sighted BY DEF Sighted, Sightings, AuctionTyped
  <1>3. CASE id \in Signal!Ids(observations)
    <2>1. UNCHANGED <<observations, streaks>> BY <1>3 DEF Signal!OnIep
    <2>2. AuctionTyped' /\ Connected' BY <1>1, <2>1 DEF AuctionTyped, Connected
    <2>3. \A c \in Signal!Contracts : Signal!Lagging(c) => Signal!Lagging(c)'
      BY <1>1, <2>1, StillLagging
    <2>4. entry' = [entry EXCEPT !.book = entry'.book] /\ entry'.book \in BOOLEAN BY <1>1 DEF Bidding
    <2> QED BY <1>1, <2>1, <2>2, <2>3, <2>4, QuietStep
  <1>4. CASE id \notin Signal!Ids(observations)
    <2>1. /\ observations' = Append(observations, o)
          /\ streaks' = [c \in Signal!Contracts |->
                           IF Signal!Qualifies(c, value) THEN Append(streaks[c], o) ELSE <<>>]
      BY <1>4 DEF Signal!OnIep
    <2>2. /\ observations' \in Seq(Sighted) /\ observations' # <<>> /\ observations' # observations
          /\ Signal!LastSeen' = o
      BY <1>2, <2>1 DEF AuctionTyped, Signal!LastSeen
    <2>3. streaks' \in [Signal!Contracts -> Seq(Sighted)]
      <3>1. \A c \in Signal!Contracts : Append(streaks[c], o) \in Seq(Sighted)
        BY <1>2 DEF AuctionTyped
      <3>2. <<>> \in Seq(Sighted) OBVIOUS
      <3> HIDE DEF o, id
      <3>3. \A c \in Signal!Contracts :
              (IF Signal!Qualifies(c, value) THEN Append(streaks[c], o) ELSE <<>>) \in Seq(Sighted)
        BY <3>1, <3>2, Zenon
      <3> QED BY <2>1, <3>3, Zenon
    <2>4. AuctionTyped' /\ Connected' BY <1>1, <2>2, <2>3 DEF AuctionTyped, Connected
    <2>5. ASSUME NEW c \in Signal!Contracts PROVE StreakOf(c)'
      <3>1. CASE ~Signal!Qualifies(c, value)
        <4>1. streaks'[c] = <<>> BY <2>1, <3>1
        <4> QED BY <4>1, NoIds DEF StreakOf
      <3>2. CASE Signal!Qualifies(c, value)
        <4>1. streaks'[c] = Append(streaks[c], o) BY <2>1, <3>2
        <4>2. marketUp BY <3>2 DEF Connected, Signal!Qualifies, Signal!Lags, Signal!NoAsk
        <4>3. Signal!Qualifies(c, value)'
          BY <1>1, <3>2 DEF Signal!Qualifies, Signal!Direction, Signal!Lags, Signal!Intrinsic
        <4>4. Signal!LastSeen'.value = value /\ Signal!LastSeen'.id = id BY <2>2
        <4>5. Signal!Qualifies(c, Signal!LastSeen.value)'
          BY <4>3, <4>4 DEF Signal!Qualifies, Signal!Direction, Signal!Lags, Signal!Intrinsic
        <4>6. Signal!Lagging(c)' BY <1>1, <2>2, <4>2, <4>5 DEF Signal!Lagging
        <4>7. fresh'[c] = fresh[c] \cup {id} BY <2>2, <4>4, <4>6, Noted
        <4>8. Signal!Ids(streaks'[c]) = Signal!Ids(streaks[c]) \cup {id}
          <5>1. streaks[c] \in Seq(Sighted) BY DEF AuctionTyped
          <5>2. \A i \in DOMAIN streaks'[c] :
                  streaks'[c][i] = IF i \in DOMAIN streaks[c] THEN streaks[c][i] ELSE o
            BY <4>1, <5>1
          <5>3. \A i \in DOMAIN streaks[c] : i \in DOMAIN streaks'[c]
            BY <4>1, <5>1
          <5>4. Len(streaks[c]) + 1 \in DOMAIN streaks'[c] /\ Len(streaks[c]) + 1 \notin DOMAIN streaks[c]
            BY <4>1, <5>1
          <5>5. o.id = id OBVIOUS
          <5> HIDE DEF o, id
          <5> QED BY <5>2, <5>3, <5>4, <5>5 DEF Signal!Ids
        <4>9. Signal!Ids(streaks[c]) \subseteq fresh[c] BY DEF Streaks, StreakOf
        <4> QED BY <4>6, <4>7, <4>8, <4>9 DEF StreakOf
      <3> QED BY <3>1, <3>2
    <2>6. Streaks' BY <2>5 DEF Streaks
    <2>7. Bidding' BY <1>1 DEF Bidding
    <2>8. Leavable' => Leavable BY <1>1 DEF Leavable
    <2>9. Leavable => Signal!LastSeen' # entry.last
      <3>1. Signal!LastSeen'.id = id BY <2>2
      <3> QED BY <1>4, <3>1 DEF Bid
    <2>10. Signal!Ids(observations) \subseteq Signal!Ids(observations')
      <3>1. \A i \in DOMAIN observations : i \in DOMAIN observations' /\ observations'[i] = observations[i]
        BY <2>1 DEF AuctionTyped
      <3> QED BY <3>1 DEF Signal!Ids
    <2>11. Bid' BY <1>1, <2>8, <2>9, <2>10 DEF Bid, Signal!Ids
    <2> QED BY <2>4, <2>6, <2>7, <2>11
  <1> QED BY <1>3, <1>4

\* The entry is decided on a streak.
LEMMA DecideStep ==
  ASSUME SignalInv, Signal!Note, NEW c \in Signal!Contracts, Signal!Decide(c)
  PROVE  SignalInv'
  <1> USE AuctionConstants DEF SignalInv
  <1>1. /\ marketUp /\ listening /\ status.phase \in Signal!Auction /\ Signal!Confirmed(c)
        /\ entry' = [contract |-> {c}, history |-> streaks[c], status |-> status,
                     last |-> Signal!LastSeen, book |-> TRUE]
        /\ UNCHANGED <<now, signal, snapshot, status, listening, reference, observations, streaks,
                       marketUp, bookOf>>
    BY DEF Signal!Decide, Signal!feedVars, Signal!signalVars, Signal!marketVars
  <1>2. AuctionTyped' /\ Connected' BY <1>1 DEF AuctionTyped, Connected
  <1>3. Signal!Cardinality(Signal!Ids(streaks[c])) >= 2 BY <1>1 DEF Signal!Confirmed
  <1>4. streaks[c] # <<>>
    <2>1. Signal!Cardinality({}) = 0 BY FS_EmptySet DEF Signal!Cardinality, Cardinality
    <2>2. ASSUME streaks[c] = <<>> PROVE Signal!Ids(streaks[c]) = {} BY <2>2, NoIds, Zenon
    <2>3. ASSUME streaks[c] = <<>> PROVE Signal!Cardinality(Signal!Ids(streaks[c])) = 0
      BY <2>1, <2>2, <2>3, Zenon
    <2> QED BY <1>3, <2>3
  <1>5. Signal!Lagging(c) BY <1>4 DEF Streaks, StreakOf
  <1>6. observations # <<>> /\ Signal!LastSeen = observations[Len(observations)]
    BY <1>5 DEF Signal!Lagging, Signal!LastSeen
  <1>7. Len(observations) \in DOMAIN observations /\ Signal!LastSeen \in Sighted
    BY <1>6 DEF AuctionTyped
  <1>8. Signal!LastSeen # <<>> /\ Signal!LastSeen.id \in Signal!Ids(observations)
    <2>1. Signal!LastSeen = [value |-> Signal!LastSeen.value, id |-> Signal!LastSeen.id]
      BY <1>7 DEF Sighted
    <2>2. DOMAIN Signal!LastSeen # {} BY <2>1
    <2> QED BY <1>6, <1>7, <2>2 DEF Signal!Ids
  <1>9. \A d \in Signal!Contracts : Signal!Lagging(d) => Signal!Lagging(d)' BY <1>1, StillLagging
  <1>10. Streaks'
    <2> SUFFICES ASSUME NEW d \in Signal!Contracts PROVE StreakOf(d)' BY DEF Streaks
    <2>1. CASE streaks[d] = <<>> BY <1>1, <2>1, NoIds DEF StreakOf
    <2>2. CASE streaks[d] # <<>>
      <3>1. Signal!Lagging(d)' BY <1>9, <2>2 DEF Streaks, StreakOf
      <3>2. fresh'[d] = fresh[d] BY <1>1, <3>1, Noted
      <3>3. Signal!Ids(streaks'[d]) \subseteq fresh'[d] BY <1>1, <3>2 DEF Streaks, StreakOf
      <3> QED BY <3>1, <3>3 DEF StreakOf
    <2> QED BY <2>1, <2>2
  <1>11. status # Signal!NoStatus BY <1>1 DEF Signal!NoStatus, Signal!Auction
  <1>12. status.conn = signal.n /\ signal.up BY <1>11 DEF Connected
  <1>13. Bidding' BY <1>1, <1>12 DEF Bidding, AuctionTyped
  <1>14. Signal!Lagging(c)' /\ Signal!Ids(streaks[c]) \subseteq fresh'[c]
    <2>1. Signal!Lagging(c)' BY <1>5, <1>9
    <2> QED BY <1>1, <1>10, <2>1 DEF Streaks, StreakOf
  <1>15. /\ entry'.contract = {c} /\ entry'.history = streaks[c] /\ entry'.last = Signal!LastSeen
    BY <1>1
  <1>16. Signal!Ids(observations') = Signal!Ids(observations) BY <1>1
  <1>17. Bid' BY <1>3, <1>8, <1>14, <1>15, <1>16 DEF Bid
  <1> QED BY <1>2, <1>10, <1>13, <1>17

LEMMA SignalIdle ==
  ASSUME SignalInv, UNCHANGED auction
  PROVE  SignalInv'
  <1> USE DEF SignalInv
  <1>1. UNCHANGED <<now, signal, snapshot, status, listening, reference, observations, streaks,
                    marketUp, bookOf, entry, fresh>>
    BY DEF auction
  <1>2. AuctionTyped' /\ Bidding' /\ Connected' BY <1>1 DEF AuctionTyped, Bidding, Connected
  <1>3. \A c \in Signal!Contracts : Signal!Lagging(c)' <=> Signal!Lagging(c)
    BY <1>1 DEF Signal!Lagging, Signal!Qualifies, Signal!Direction, Signal!Lags, Signal!Intrinsic,
                Signal!LastSeen
  <1>4. Streaks' BY <1>1, <1>3 DEF Streaks, StreakOf, Signal!Ids
  <1>5. Signal!LastSeen' = Signal!LastSeen /\ (Leavable' <=> Leavable)
    BY <1>1 DEF Signal!LastSeen, Leavable
  <1>6. \A c \in entry.contract : c \in Signal!Contracts BY DEF Bidding
  <1>7. Bid' BY <1>1, <1>3, <1>5, <1>6 DEF Bid, Signal!Ids
  <1> QED BY <1>2, <1>4, <1>7

LEMMA SignalKeptByConnect ==
  ASSUME SignalInv, Signal!Connect \/ Signal!Disconnect
  PROVE  SignalInv'
  <1> USE AuctionConstants, NoSequences DEF SignalInv
  <1>1. /\ \/ signal' = [n |-> signal.n + 1, up |-> TRUE] /\ ~signal.up /\ signal.n < MaxConns
           \/ signal' = [signal EXCEPT !.up = FALSE]
        /\ status' = Signal!NoStatus /\ observations' = <<>> /\ streaks' = Signal!NoStreaks
        /\ listening' \in BOOLEAN
        /\ UNCHANGED <<now, snapshot, reference, marketUp, bookOf, entry>>
    BY DEF Signal!Connect, Signal!Disconnect, Signal!SignalReset, Signal!marketVars
  <1>2. /\ signal' \in [n : 0..MaxConns, up : BOOLEAN] /\ signal.n <= signal'.n
        /\ signal'.n = signal.n => ~signal'.up
    <2>1. signal \in [n : 0..MaxConns, up : BOOLEAN] BY DEF AuctionTyped
    <2>2. CASE signal' = [n |-> signal.n + 1, up |-> TRUE] /\ ~signal.up /\ signal.n < MaxConns
      <3>1. signal.n + 1 \in 0..MaxConns /\ signal'.n = signal.n + 1 BY <2>1, <2>2
      <3> QED BY <2>1, <2>2, <3>1
    <2>3. CASE signal' = [signal EXCEPT !.up = FALSE]
      <3>1. signal'.n = signal.n /\ ~signal'.up BY <2>1, <2>3
      <3>2. signal' \in [n : 0..MaxConns, up : BOOLEAN] BY <2>1, <2>3
      <3>3. signal.n \in Int BY <2>1
      <3>4. signal.n <= signal'.n BY <3>1, <3>3
      <3> QED BY <3>1, <3>2, <3>4, Zenon
    <2> QED BY <1>1, <2>2, <2>3
  <1>3. status' \in [phase : Signal!Phases \cup {"none"}, at : Int, conn : 0..MaxConns]
    BY <1>1 DEF Signal!NoStatus
  <1>4. AuctionTyped' BY <1>1, <1>2, <1>3 DEF AuctionTyped
  <1>5. Connected' BY <1>1 DEF Connected
  <1>6. ~Leavable'
    <2>1. CASE signal'.n = signal.n BY <1>2, <2>1 DEF Leavable
    <2>2. CASE signal'.n # signal.n
      <3>1. entry'.status.conn # signal'.n BY <1>1, <1>2, <2>2 DEF Bidding, AuctionTyped
      <3> QED BY <3>1 DEF Leavable
    <2> QED BY <2>1, <2>2
  <1> QED BY <1>1, <1>2, <1>4, <1>5, <1>6, ResetStep

LEMMA SignalKeptByForeign ==
  ASSUME SignalInv, Signal!ForeignStatus
  PROVE  SignalInv'
  <1> USE AuctionConstants, NoSequences DEF SignalInv
  <1>1. /\ status' = Signal!NoStatus /\ observations' = <<>> /\ streaks' = Signal!NoStreaks
        /\ listening' = FALSE
        /\ UNCHANGED <<now, signal, snapshot, reference, marketUp, bookOf, entry>>
    BY DEF Signal!ForeignStatus, Signal!Frame, Signal!SignalReset, Signal!marketVars
  <1>2. status' \in [phase : Signal!Phases \cup {"none"}, at : Int, conn : 0..MaxConns]
    BY <1>1 DEF Signal!NoStatus
  <1>3. AuctionTyped' BY <1>1, <1>2 DEF AuctionTyped
  <1>4. Connected' BY <1>1 DEF Connected
  <1>5. ~Leavable' BY <1>1 DEF Leavable
  <1>6. signal' \in [n : 0..MaxConns, up : BOOLEAN] /\ signal.n <= signal'.n
    BY <1>1 DEF AuctionTyped
  <1> QED BY <1>1, <1>3, <1>4, <1>5, <1>6, ResetStep

LEMMA SignalKeptByCrash ==
  ASSUME SignalInv, Signal!Crash
  PROVE  SignalInv'
  <1> USE AuctionConstants, NoSequences DEF SignalInv
  <1>1. /\ signal' = [signal EXCEPT !.up = FALSE] /\ snapshot' = 0
        /\ status' = Signal!NoStatus /\ observations' = <<>> /\ streaks' = Signal!NoStreaks
        /\ listening' = TRUE /\ marketUp' = TRUE /\ bookOf' = Signal!NoBooks
        /\ entry' = Signal!NoEntry /\ now' = now
    BY DEF Signal!Crash, Signal!SignalReset
  <1>2. status' \in [phase : Signal!Phases \cup {"none"}, at : Int, conn : 0..MaxConns]
    BY <1>1 DEF Signal!NoStatus
  <1>3. signal' \in [n : 0..MaxConns, up : BOOLEAN] BY <1>1 DEF AuctionTyped
  <1>4. AuctionTyped' BY <1>1, <1>2, <1>3 DEF AuctionTyped
  <1>5. Connected' BY <1>1 DEF Connected
  <1> QED BY <1>1, <1>3, <1>4, <1>5, NoBid, NoStreaksKept

LEMMA SignalKeptByMarket ==
  ASSUME SignalInv, NEW b \in BOOLEAN, Signal!MarketReset(b)
  PROVE  SignalInv'
  <1> USE AuctionConstants, NoSequences DEF SignalInv
  <1>1. /\ marketUp' = b /\ bookOf' = Signal!NoBooks /\ streaks' = Signal!NoStreaks
        /\ entry' = [entry EXCEPT !.book = FALSE]
        /\ UNCHANGED <<now, signal, snapshot, status, listening, reference, observations>>
    BY DEF Signal!MarketReset, Signal!feedVars, Signal!signalVars
  <1>2. AuctionTyped' /\ Connected' BY <1>1 DEF AuctionTyped, Connected
  <1>3. /\ entry'.contract = entry.contract /\ entry'.last = entry.last /\ ~entry'.book
        /\ entry'.book \in BOOLEAN /\ entry'.status = entry.status
        /\ entry' = [contract |-> entry'.contract, history |-> entry'.history,
                     status |-> entry'.status, last |-> entry'.last, book |-> entry'.book]
    BY <1>1 DEF Bidding
  <1>4. Bidding' BY <1>1, <1>3 DEF Bidding
  <1>5. ~Leavable' BY <1>3 DEF Leavable
  <1>6. Bid' BY <1>3, <1>5 DEF Bid
  <1> QED BY <1>1, <1>2, <1>4, <1>6, NoStreaksKept

\* Frames without an observation.
LEMMA SignalKeptByFrame ==
  ASSUME SignalInv, Signal!Note, Signal!Frame,
         UNCHANGED <<listening, observations>>, snapshot' \in 0..MaxConns,
         status' = status \/ status' \in [phase : Signal!Phases, at : Int, conn : {signal.n}],
         reference' = reference \/ reference = Signal!NoReference,
         streaks' = streaks \/ streaks' = Signal!NoStreaks
  PROVE  SignalInv'
  <1> USE AuctionConstants, NoSequences DEF SignalInv
  <1>1. signal.up /\ UNCHANGED <<now, signal, marketUp, bookOf, entry>>
    BY DEF Signal!Frame, Signal!marketVars
  <1>2. status' \in [phase : Signal!Phases \cup {"none"}, at : Int, conn : 0..MaxConns]
    BY DEF AuctionTyped
  <1>3. AuctionTyped' BY <1>1, <1>2 DEF AuctionTyped
  <1>4. reference' = reference \/ observations = <<>> BY DEF Connected
  <1>5. Connected'
    <2>1. status' # Signal!NoStatus => status'.conn = signal.n BY DEF Connected
    <2>2. observations # <<>> => reference' # Signal!NoReference BY <1>4 DEF Connected
    <2> QED BY <1>1, <2>1, <2>2 DEF Connected
  <1>6. \A c \in Signal!Contracts :
          streaks'[c] = <<>> \/ (streaks'[c] = streaks[c] /\ (Signal!Lagging(c) => Signal!Lagging(c)'))
    <2> SUFFICES ASSUME NEW c \in Signal!Contracts, streaks'[c] # <<>>
                 PROVE  streaks'[c] = streaks[c] /\ (Signal!Lagging(c) => Signal!Lagging(c)')
      OBVIOUS
    <2>1. streaks' = streaks OBVIOUS
    <2>2. observations # <<>> BY <2>1 DEF Streaks, StreakOf, Signal!Lagging
    <2> QED BY <1>1, <1>4, <2>1, <2>2, StillLagging
  <1>7. entry' = [entry EXCEPT !.book = entry'.book] /\ entry'.book \in BOOLEAN BY <1>1 DEF Bidding
  <1> QED BY <1>1, <1>3, <1>4, <1>5, <1>6, <1>7, QuietStep

LEMMA SignalKeptByFrames ==
  ASSUME SignalInv, Signal!Note
  PROVE  /\ \A phase \in Signal!Phases, at \in Int, off \in Uncertainties :
              Signal!OnStatus(phase, at, off) => SignalInv'
         /\ Signal!Snapshot \/ Signal!MissingIep => SignalInv'
         /\ \A at \in Int, value \in Levels : Signal!OnLtp(at, value) => SignalInv'
  <1> USE AuctionConstants
  <1>0. snapshot \in 0..MaxConns /\ signal.n \in 0..MaxConns BY DEF SignalInv, AuctionTyped
  <1>1. ASSUME NEW phase \in Signal!Phases, NEW at \in Int, NEW off \in Uncertainties,
               Signal!OnStatus(phase, at, off)
        PROVE  SignalInv'
    <2>1. /\ Signal!Frame /\ status' = [phase |-> phase, at |-> at, conn |-> signal.n]
          /\ reference' = reference \/ reference = Signal!NoReference
          /\ UNCHANGED <<snapshot, listening, observations, streaks>>
      BY <1>1 DEF Signal!OnStatus
    <2>2. status' \in [phase : Signal!Phases, at : Int, conn : {signal.n}] BY <2>1
    <2> QED BY <1>0, <2>1, <2>2, SignalKeptByFrame
  <1>2. ASSUME Signal!Snapshot PROVE SignalInv'
    BY <1>0, <1>2, SignalKeptByFrame DEF Signal!Snapshot, Signal!signalVars
  <1>3. ASSUME Signal!MissingIep PROVE SignalInv'
    BY <1>0, <1>3, SignalKeptByFrame DEF Signal!MissingIep, Signal!signalVars
  <1>4. ASSUME NEW at \in Int, NEW value \in Levels, Signal!OnLtp(at, value) PROVE SignalInv'
    BY <1>0, <1>4, SignalKeptByFrame DEF Signal!OnLtp
  <1> QED BY <1>1, <1>2, <1>3, <1>4

\* A book: the contract that stops to lag loses its streak, and an entry for it its book.
LEMMA SignalKeptByBook ==
  ASSUME SignalInv, Signal!Note, NEW c \in Signal!Contracts, NEW ask \in Asks, Signal!OnBook(c, ask)
  PROVE  SignalInv'
  <1> USE AuctionConstants DEF SignalInv
  <1>1. /\ marketUp /\ bookOf' = [bookOf EXCEPT ![c] = ask]
        /\ streaks' = IF Signal!Keeps(c, ask) THEN streaks ELSE [streaks EXCEPT ![c] = <<>>]
        /\ entry' = [entry EXCEPT !.book = @ /\ c \notin entry.contract]
        /\ UNCHANGED <<now, signal, snapshot, status, listening, reference, observations, marketUp>>
    BY DEF Signal!OnBook, Signal!feedVars, Signal!signalVars
  <1>2. /\ bookOf' \in [Signal!Contracts -> Asks \cup {0}] /\ bookOf'[c] = ask
        /\ \A d \in Signal!Contracts : d # c => bookOf'[d] = bookOf[d]
    BY <1>1 DEF AuctionTyped
  <1>3. /\ streaks' \in [Signal!Contracts -> Seq(Sighted)]
        /\ \A d \in Signal!Contracts : d # c => streaks'[d] = streaks[d]
        /\ Signal!Keeps(c, ask) => streaks'[c] = streaks[c]
        /\ ~Signal!Keeps(c, ask) => streaks'[c] = <<>>
    <2>1. streaks \in [Signal!Contracts -> Seq(Sighted)] /\ <<>> \in Seq(Sighted) BY DEF AuctionTyped
    <2>2. CASE Signal!Keeps(c, ask) BY <1>1, <2>1, <2>2
    <2>3. CASE ~Signal!Keeps(c, ask) BY <1>1, <2>1, <2>3
    <2> QED BY <2>2, <2>3
  <1>4. AuctionTyped' BY <1>1, <1>2, <1>3 DEF AuctionTyped
  <1>5. Connected' BY <1>1, <1>2 DEF Connected
  <1>6. ASSUME NEW d \in Signal!Contracts
        PROVE  streaks'[d] = <<>> \/ (streaks'[d] = streaks[d] /\ (Signal!Lagging(d) => Signal!Lagging(d)'))
    <2>1. CASE d # c BY <1>1, <1>2, <1>3, <2>1, StillLagging
    <2>2. CASE d = c /\ ~Signal!Keeps(c, ask)
      <3>0. ~Signal!Keeps(c, ask) BY <2>2, Zenon
      <3>1. streaks'[c] = <<>> BY <1>3, <3>0, Zenon
      <3> QED BY <2>2, <3>1, Zenon
    <2>3. CASE d = c /\ Signal!Keeps(c, ask)
      <3>1. ASSUME Signal!Lagging(c) PROVE Signal!Lagging(c)'
        <4>1. /\ signal.up /\ marketUp /\ observations # <<>>
              /\ c \in Signal!Direction(Signal!LastSeen.value)
          BY <3>1 DEF Signal!Lagging, Signal!Qualifies
        <4>2. ask # 0 /\ ask + TickSize <= Signal!Intrinsic(c, Signal!LastSeen.value)
          BY <2>3, <4>1 DEF Signal!Keeps, Signal!NoAsk
        <4>3. Signal!LastSeen' = Signal!LastSeen BY <1>1 DEF Signal!LastSeen
        <4>4. c \in Signal!Direction(Signal!LastSeen.value)' BY <1>1, <4>1, <4>3 DEF Signal!Direction
        <4>5. Signal!Lags(c, Signal!LastSeen.value)'
          BY <1>2, <4>2, <4>3 DEF Signal!Lags, Signal!NoAsk, Signal!Intrinsic
        <4> QED BY <1>1, <4>1, <4>4, <4>5 DEF Signal!Lagging, Signal!Qualifies
      <3>0. Signal!Keeps(c, ask) BY <2>3, Zenon
      <3>2. streaks'[c] = streaks[c] BY <1>3, <3>0, Zenon
      <3> QED BY <2>3, <3>1, <3>2, Zenon
    <2> QED BY <2>1, <2>2, <2>3
  <1>7. /\ entry'.book <=> entry.book /\ c \notin entry.contract
        /\ entry'.book \in BOOLEAN /\ entry' = [entry EXCEPT !.book = entry'.book]
    BY <1>1 DEF Bidding
  <1>8. entry'.book => entry.book /\ \A d \in entry.contract : bookOf'[d] = bookOf[d]
    BY <1>2, <1>7 DEF Bidding
  <1> QED BY <1>1, <1>4, <1>5, <1>6, <1>7, <1>8, QuietStep

LEMMA SignalKeptByBadBooks ==
  ASSUME SignalInv, Signal!Note, NEW cs, Signal!OnBadBooks(cs)
  PROVE  SignalInv'
  <1> USE AuctionConstants DEF SignalInv
  <1>1. /\ bookOf' = [c \in Signal!Contracts |-> IF c \in cs THEN 0 ELSE bookOf[c]]
        /\ streaks' = [c \in Signal!Contracts |-> IF c \in cs THEN <<>> ELSE streaks[c]]
        /\ entry' = [entry EXCEPT !.book = @ /\ entry.contract \cap cs = {}]
        /\ UNCHANGED <<now, signal, snapshot, status, listening, reference, observations, marketUp>>
    BY DEF Signal!OnBadBooks, Signal!feedVars, Signal!signalVars, Signal!NoAsk
  <1>2. /\ bookOf' \in [Signal!Contracts -> Asks \cup {0}]
        /\ \A d \in Signal!Contracts : d \notin cs => bookOf'[d] = bookOf[d]
        /\ \A d \in Signal!Contracts : d \in cs => bookOf'[d] = 0
    BY <1>1 DEF AuctionTyped
  <1>3. /\ streaks' \in [Signal!Contracts -> Seq(Sighted)]
        /\ \A d \in Signal!Contracts : streaks'[d] = IF d \in cs THEN <<>> ELSE streaks[d]
    <2>1. streaks \in [Signal!Contracts -> Seq(Sighted)] /\ <<>> \in Seq(Sighted) BY DEF AuctionTyped
    <2>2. \A d \in Signal!Contracts : (IF d \in cs THEN <<>> ELSE streaks[d]) \in Seq(Sighted)
      BY <2>1
    <2> QED BY <1>1, <2>2, Zenon
  <1>4. AuctionTyped' BY <1>1, <1>2, <1>3 DEF AuctionTyped
  <1>5. Connected' BY <1>1, <1>2 DEF Connected
  <1>6. ASSUME NEW d \in Signal!Contracts
        PROVE  streaks'[d] = <<>> \/ (streaks'[d] = streaks[d] /\ (Signal!Lagging(d) => Signal!Lagging(d)'))
    BY <1>1, <1>2, <1>3, StillLagging
  <1>7. /\ entry'.book <=> entry.book /\ entry.contract \cap cs = {}
        /\ entry'.book \in BOOLEAN /\ entry' = [entry EXCEPT !.book = entry'.book]
    BY <1>1 DEF Bidding
  <1>8. entry'.book => entry.book /\ \A d \in entry.contract : bookOf'[d] = bookOf[d]
    BY <1>2, <1>7 DEF Bidding
  <1> QED BY <1>1, <1>4, <1>5, <1>6, <1>7, <1>8, QuietStep

\* The entry ends, or time passes.
LEMMA SignalKeptByRest ==
  ASSUME SignalInv, Signal!Note, Signal!Leave \/ Signal!Pass
  PROVE  SignalInv'
  <1> USE AuctionConstants DEF SignalInv
  <1>1. /\ now' \in 0..MaxTime
        /\ UNCHANGED <<signal, snapshot, status, listening, reference, observations, streaks,
                       marketUp, bookOf>>
        /\ entry' = Signal!NoEntry \/ entry' = entry
    BY DEF Signal!Leave, Signal!Pass, Signal!feedVars, Signal!signalVars, Signal!marketVars, AuctionTyped
  <1>2. AuctionTyped' /\ Connected' BY <1>1 DEF AuctionTyped, Connected
  <1>3. \A c \in Signal!Contracts : Signal!Lagging(c) => Signal!Lagging(c)' BY <1>1, StillLagging
  <1>4. entry' = entry => entry' = [entry EXCEPT !.book = entry'.book] /\ entry'.book \in BOOLEAN
    BY DEF Bidding
  <1> QED BY <1>1, <1>2, <1>3, <1>4, QuietStep

LEMMA SignalNext ==
  ASSUME SignalInv, Signal!Next
  PROVE  SignalInv'
  <1>1. Signal!Note /\ Signal!Step BY DEF Signal!Next
  <1>2. \A at \in Signal!Stamps : at \in Int
    BY AuctionConstants DEF Signal!Stamps, SignalInv, AuctionTyped
  <1>3. ASSUME Signal!MarketConnect \/ Signal!MarketDisconnect PROVE SignalInv'
    BY <1>3, SignalKeptByMarket DEF Signal!MarketConnect, Signal!MarketDisconnect
  <1>4. ASSUME NEW at \in Signal!Stamps, NEW value \in Levels,
               Signal!OnLtp(at, value) \/ Signal!OnIep(at, value)
        PROVE  SignalInv'
    BY <1>1, <1>2, <1>4, SignalKeptByFrames, HeardStep
  <1>5. ASSUME NEW phase \in Signal!Phases, NEW at \in Signal!Stamps, NEW off \in Uncertainties,
               Signal!OnStatus(phase, at, off)
        PROVE  SignalInv'
    BY <1>1, <1>2, <1>5, SignalKeptByFrames
  <1>6. ASSUME Signal!Snapshot \/ Signal!MissingIep PROVE SignalInv'
    BY <1>1, <1>6, SignalKeptByFrames
  <1>7. ASSUME NEW c \in Signal!Contracts, Signal!OnBadBooks({c}) \/ Signal!Decide(c) PROVE SignalInv'
    BY <1>1, <1>7, SignalKeptByBadBooks, DecideStep
  <1>8. ASSUME NEW c \in Signal!Contracts, NEW ask \in Asks, Signal!OnBook(c, ask) PROVE SignalInv'
    BY <1>1, <1>8, SignalKeptByBook
  <1> QED BY <1>1, <1>3, <1>4, <1>5, <1>6, <1>7, <1>8, SignalKeptByConnect, SignalKeptByForeign,
             SignalKeptByCrash, SignalKeptByBadBooks, SignalKeptByRest, Zenon DEF Signal!Step

LEMMA SignalAlways == SessionSpec => [](part = "signal" => SignalInv)
  <1>1. SessionInit => (part = "signal" => SignalInv) BY AuctionStart, SignalStart
  <1>2. (part = "signal" => SignalInv) /\ [SessionNext]_sessionVars => (part = "signal" => SignalInv)'
    BY AuctionStep, SignalNext, SignalIdle
  <1> QED BY <1>1, <1>2, PTL DEF SessionSpec

LEMMA SignalIsTrue == SignalInv => Signal!TypeOK /\ Signal!StreakUnbroken
  <1> SUFFICES ASSUME SignalInv PROVE Signal!TypeOK /\ Signal!StreakUnbroken OBVIOUS
  <1> USE AuctionConstants DEF SignalInv
  <1>1. Signal!TypeOK
    <2>1. \A i \in DOMAIN observations : observations[i].value \in Levels
      <3>1. \A i \in DOMAIN observations : observations[i] \in Sighted BY DEF AuctionTyped
      <3>2. \A x \in Sighted : x.value \in Levels BY DEF Sighted
      <3> QED BY <3>1, <3>2, Zenon
    <2> QED BY <2>1 DEF AuctionTyped, Signal!TypeOK, Signal!NoAsk
  <1>2. \A c \in Signal!Contracts : Signal!Ids(streaks[c]) \subseteq fresh[c] BY DEF Streaks, StreakOf
  <1>3. ASSUME Signal!CurrentInputs, entry.contract # {} PROVE Leavable /\ Signal!LastSeen = entry.last
    <2>1. /\ listening /\ status = entry.status /\ status.phase \in Signal!Auction /\ entry.book
          /\ Signal!LastSeen = entry.last
      BY <1>3 DEF Signal!CurrentInputs
    <2>2. status # Signal!NoStatus BY <2>1 DEF Signal!NoStatus, Signal!Auction
    <2>3. status.conn = signal.n /\ signal.up BY <2>2 DEF Connected
    <2> QED BY <2>1, <2>3 DEF Leavable
  <1> QED BY <1>1, <1>2, <1>3 DEF Bid, Signal!StreakUnbroken

-----------------------------------------------------------------------------
(* The reference *)

\* The ledger has the reference, and what may become one was heard on the connection that
\* is up.
Frozen == reference = frozen

SoundOf(r) ==
  r.samples # {} =>
    /\ Reference!Cardinality({x.id : x \in r.samples}) = Needed
    /\ \A x \in r.samples : x.at < r.at /\ x.seen < r.at
    /\ Reference!Cardinality({x.id[1] : x \in r.samples}) = 1

\* The reference is heard at one level.
Rows == [at : Int, seen : Int, value : {1}, id : Nat \X Int \X {1}]

Heard ==
  /\ now \in Nat
  /\ heard \in Seq(Rows)
  /\ signal.n \in Nat
  /\ \A i \in DOMAIN heard : heard[i].id[1] = signal.n

ReferenceInv == Heard /\ SoundOf(reference)

LEMMA SameNothing == Signal!NoReference = Reference!NoReference
  BY DEF Signal!NoReference, Reference!NoReference

\* The reference only changes when there is none, and the ledger changes with it.
LEMMA FrozenStep ==
  ASSUME Frozen, [SessionNext]_sessionVars
  PROVE  Frozen' /\ (reference # Signal!NoReference => reference' = reference)
  <1> USE SameNothing
  <1>1. CASE UNCHANGED auction BY <1>1 DEF auction, Frozen
  <1>2. ASSUME Signal!Step PROVE Frozen' /\ (reference # Signal!NoReference => reference' = reference)
    <2>1. \/ \E phase, at, off : Signal!OnStatus(phase, at, off)
          \/ Signal!Crash
          \/ UNCHANGED <<reference, frozen>>
      BY <1>2, Zenon DEF Signal!Step, Signal!Connect, Signal!Disconnect, Signal!MarketConnect,
           Signal!MarketDisconnect, Signal!MarketReset, Signal!ForeignStatus, Signal!Snapshot,
           Signal!MissingIep, Signal!OnLtp, Signal!OnIep, Signal!OnBook, Signal!OnBadBooks,
           Signal!Decide, Signal!Leave, Signal!Pass, Signal!signalVars
    <2>2. ASSUME NEW phase, NEW at, NEW off, Signal!OnStatus(phase, at, off)
          PROVE  Frozen' /\ (reference # Signal!NoReference => reference' = reference)
      BY <2>2 DEF Signal!OnStatus, Frozen
    <2>3. ASSUME Signal!Crash
          PROVE  Frozen' /\ (reference # Signal!NoReference => reference' = reference)
      BY <2>3 DEF Signal!Crash, Frozen
    <2> QED BY <2>1, <2>2, <2>3 DEF Frozen
  <1>3. ASSUME Reference!Step PROVE Frozen' /\ (reference # Signal!NoReference => reference' = reference)
    <2>1. \/ \E phase, at, off : Reference!OnStatus(phase, at, off)
          \/ Reference!Crash
          \/ UNCHANGED <<reference, frozen>>
      BY <1>3, Zenon DEF Reference!Step, Reference!Connect, Reference!Disconnect,
           Reference!MarketConnect, Reference!MarketDisconnect, Reference!MarketReset,
           Reference!ForeignStatus, Reference!Snapshot, Reference!MissingIep, Reference!OnLtp,
           Reference!OnIep, Reference!OnBook, Reference!OnBadBooks, Reference!Decide,
           Reference!Leave, Reference!Pass, Reference!signalVars
    <2>2. ASSUME NEW phase, NEW at, NEW off, Reference!OnStatus(phase, at, off)
          PROVE  Frozen' /\ (reference # Signal!NoReference => reference' = reference)
      BY <2>2 DEF Reference!OnStatus, Frozen
    <2>3. ASSUME Reference!Crash
          PROVE  Frozen' /\ (reference # Signal!NoReference => reference' = reference)
      BY <2>3 DEF Reference!Crash, Frozen
    <2> QED BY <2>1, <2>2, <2>3 DEF Frozen
  <1> QED BY <1>1, <1>2, <1>3, OneSessionPart DEF Signal!Next, Reference!Next

\* As many of a set of observations as there are places in it, if no two have an identity.
LEMMA AsManyIds ==
  ASSUME NEW h, NEW is, IsFiniteSet(is), \A i, j \in is : i # j => h[i].id # h[j].id
  PROVE  Cardinality({x.id : x \in {h[i] : i \in is}}) = Cardinality(is)
  <1> DEFINE ids == {x.id : x \in {h[i] : i \in is}}
             f == [i \in is |-> h[i].id]
  <1>1. f \in Bijection(is, ids)
    <2>1. f \in [is -> ids] OBVIOUS
    <2>2. \A i, j \in is : f[i] = f[j] => i = j OBVIOUS
    <2>3. \A y \in ids : \E i \in is : f[i] = y OBVIOUS
    <2> QED BY <2>1, <2>2, <2>3 DEF Bijection, Injection, Surjection, IsInjective
  <1> HIDE DEF f, ids
  <1>3. ExistsBijection(is, ids) BY <1>1 DEF ExistsBijection
  <1>2. Cardinality(is) = Cardinality(ids) BY <1>3, FS_Bijection
  <1> QED BY <1>2 DEF ids

\* What is selected before a boundary.
LEMMA SelectedIsSound ==
  ASSUME Heard, NEW at \in Int, NEW off \in Nat
  PROVE  SoundOf(Reference!Selected(at, off))
  <1> DEFINE is == Reference!Latest(Reference!Distinct(Reference!Eligible(at, off)))
             S == {heard[i] : i \in is}
  <1>1. CASE Reference!Selected(at, off) = Reference!NoReference
    <2>1. Reference!NoReference.samples = {} BY DEF Reference!NoReference
    <2> QED BY <1>1, <2>1 DEF SoundOf
  <1>2. CASE Reference!Selected(at, off) # Reference!NoReference
    <2>1. /\ Reference!Cardinality(is) = Needed
          /\ Reference!Selected(at, off) = [value |-> Reference!Median(is), at |-> at, samples |-> S]
      BY <1>2 DEF Reference!Selected
    <2>2. is \subseteq DOMAIN heard /\ DOMAIN heard = 1..Len(heard) /\ Len(heard) \in Nat
      <3>1. is \subseteq DOMAIN heard
        BY DEF Reference!Latest, Reference!Distinct, Reference!Eligible
      <3> QED BY <3>1 DEF Heard
    <2>3. IsFiniteSet(is)
      <3>1. IsFiniteSet(1..Len(heard)) BY <2>2, FS_Interval
      <3> HIDE DEF is
      <3> QED BY <2>2, <3>1, FS_Subset
    <2>4. \A i, j \in is : i # j => heard[i].id # heard[j].id
      <3>1. \A i \in is : i \in Int BY <2>2
      <3>2. \A i \in is : \A j \in is : j > i => heard[j].id # heard[i].id
        BY DEF Reference!Latest, Reference!Distinct
      <3> HIDE DEF is
      <3>3. \A i, j \in is : i # j => i > j \/ j > i BY <3>1
      <3> QED BY <3>2, <3>3
    <2>5. \A x \in S : x.at < at /\ x.seen < at
      <3> SUFFICES ASSUME NEW i \in is PROVE heard[i].at < at /\ heard[i].seen < at OBVIOUS
      <3>1. heard[i].at < at /\ heard[i].seen + off < at
        BY DEF Reference!Latest, Reference!Distinct, Reference!Eligible
      <3>0. i \in DOMAIN heard BY <2>2
      <3> HIDE DEF is
      <3>2. heard[i].seen \in Int
        <4>1. \A k \in DOMAIN heard : heard[k] \in Rows BY DEF Heard
        <4>2. heard[i] \in Rows BY <3>0, <4>1, Zenon
        <4> QED BY <4>2 DEF Rows
      <3> QED BY <3>1, <3>2
    <2>6. \A x \in S : x.id[1] = signal.n BY <2>2 DEF Heard
    <2>7. Reference!Cardinality({x.id : x \in S}) = Needed
      <3> HIDE DEF is
      <3>1. Cardinality({x.id : x \in S}) = Cardinality(is) BY <2>3, <2>4, AsManyIds
      <3> QED BY <2>1, <3>1 DEF Reference!Cardinality, Cardinality
    <2> HIDE DEF S, is
    <2>8. S # {} => Reference!Cardinality({x.id[1] : x \in S}) = 1
      <3> SUFFICES ASSUME S # {} PROVE Reference!Cardinality({x.id[1] : x \in S}) = 1 OBVIOUS
      <3>1. {x.id[1] : x \in S} = {signal.n} BY <2>6
      <3>2. Cardinality({signal.n}) = 1 BY FS_Singleton
      <3>3. Reference!Cardinality({signal.n}) = 1 BY <3>2 DEF Reference!Cardinality, Cardinality
      <3> QED BY <3>1, <3>3
    <2> QED BY <2>1, <2>5, <2>7, <2>8 DEF SoundOf
  <1> QED BY <1>1, <1>2

LEMMA ReferenceStart == Reference!Init => ReferenceInv
  <1> SUFFICES ASSUME Reference!Init PROVE ReferenceInv OBVIOUS
  <1>1. Heard BY AuctionConstants DEF Reference!Init, Heard
  <1>2. reference.samples = {}
    <2>1. reference \in {Reference!NoReference} \cup {[value |-> v, at |-> 0, samples |-> {}] : v \in {1}}
      BY DEF Reference!Init
    <2> QED BY <2>1 DEF Reference!NoReference
  <1> QED BY <1>1, <1>2 DEF ReferenceInv, SoundOf

LEMMA HeardLast ==
  ASSUME NEW S, NEW q \in Seq(S), NEW x \in S
  PROVE  /\ Append(q, x) \in Seq(S)
         /\ \A i \in DOMAIN Append(q, x) :
              (i \in DOMAIN q /\ Append(q, x)[i] = q[i]) \/ Append(q, x)[i] = x
  OBVIOUS

LEMMA ReferenceNext ==
  ASSUME ReferenceInv, Frozen, Reference!Step
  PROVE  ReferenceInv'
  <1> USE AuctionConstants DEF ReferenceInv
  <1>1. ASSUME heard' = <<>>, now' = now, signal'.n \in Nat PROVE Heard'
    BY <1>1 DEF Heard
  <1>2. ASSUME UNCHANGED reference PROVE SoundOf(reference)'
    BY <1>2 DEF SoundOf, Reference!Cardinality
  <1>3. ASSUME Reference!Connect \/ Reference!Disconnect \/ Reference!Crash PROVE ReferenceInv'
    <2>1. heard' = <<>> /\ now' = now /\ (reference' = reference \/ reference' = frozen)
      BY <1>3 DEF Reference!Connect, Reference!Disconnect, Reference!Crash, Reference!SignalReset
    <2>2. signal' = [n |-> signal.n + 1, up |-> TRUE] \/ signal' = [signal EXCEPT !.up = FALSE]
      BY <1>3 DEF Reference!Connect, Reference!Disconnect, Reference!Crash
    <2>3. signal'.n \in Nat
      <3>1. CASE signal' = [n |-> signal.n + 1, up |-> TRUE] BY <3>1 DEF Heard
      <3>2. CASE signal' = [signal EXCEPT !.up = FALSE]
        <4>1. signal'.n = signal.n BY <3>2
        <4> QED BY <4>1 DEF Heard
      <3> QED BY <2>2, <3>1, <3>2
    <2>4. reference' = reference BY <2>1 DEF Frozen
    <2> QED BY <1>1, <1>2, <2>1, <2>3, <2>4
  <1>4. ASSUME Reference!ForeignStatus PROVE ReferenceInv'
    <2>1. heard' = <<>> /\ UNCHANGED <<now, signal, reference>>
      BY <1>4 DEF Reference!ForeignStatus, Reference!SignalReset, Reference!Frame
    <2> QED BY <1>1, <1>2, <2>1 DEF Heard
  <1>5. ASSUME UNCHANGED <<heard, signal>>, now' \in Nat PROVE Heard'
    BY <1>5 DEF Heard
  <1>6. ASSUME NEW phase, NEW at \in Int, NEW off \in Nat, Reference!OnStatus(phase, at, off)
        PROVE  ReferenceInv'
    <2>1. /\ UNCHANGED <<heard, signal, now>>
          /\ reference' = reference \/ reference' = Reference!Selected(at, off)
      BY <1>6 DEF Reference!OnStatus, Reference!Frame
    <2>2. Heard' BY <1>5, <2>1 DEF Heard
    <2>3. CASE reference' = reference BY <1>2, <2>2, <2>3
    <2>4. CASE reference' = Reference!Selected(at, off)
      <3>1. SoundOf(Reference!Selected(at, off)) BY SelectedIsSound
      <3>2. SoundOf(reference') BY <2>4, <3>1, Zenon
      <3>3. SoundOf(reference)' BY <3>2 DEF SoundOf, Reference!Cardinality
      <3> QED BY <2>2, <3>3
    <2> QED BY <2>1, <2>3, <2>4
  <1>7. ASSUME NEW at \in Int, NEW value \in {1}, Reference!OnLtp(at, value) PROVE ReferenceInv'
    <2> DEFINE x == [at |-> at, seen |-> now, value |-> value, id |-> <<signal.n, at, value>>]
    <2>1. heard' = Append(heard, x) /\ UNCHANGED <<signal, now, reference>>
      BY <1>7 DEF Reference!OnLtp, Reference!Frame
    <2>2. x \in Rows /\ x.id[1] = signal.n
      BY DEF Heard, Rows
    <2> HIDE DEF x
    <2>3. /\ heard' \in Seq(Rows)
          /\ \A i \in DOMAIN heard' :
                (i \in DOMAIN heard /\ heard'[i] = heard[i]) \/ heard'[i] = x
      BY <2>1, <2>2, HeardLast DEF Heard
    <2>4. Heard' BY <2>1, <2>2, <2>3 DEF Heard
    <2> QED BY <1>2, <2>1, <2>4
  <1>8. ASSUME UNCHANGED <<heard, signal, reference>>, now' = now \/ now' = now + 1
        PROVE  ReferenceInv'
    <2>1. now' \in Nat BY <1>8 DEF Heard
    <2> QED BY <1>2, <1>5, <1>8, <2>1
  <1>a. ASSUME \/ Reference!MarketConnect \/ Reference!MarketDisconnect \/ Reference!Snapshot
               \/ Reference!MissingIep \/ Reference!Leave \/ Reference!Pass
        PROVE  ReferenceInv'
    BY <1>a, <1>8 DEF Reference!MarketConnect, Reference!MarketDisconnect, Reference!MarketReset,
         Reference!Snapshot, Reference!MissingIep, Reference!Leave, Reference!Pass,
         Reference!Frame, Reference!feedVars, Reference!signalVars
  <1>b. ASSUME NEW at, NEW value, Reference!OnIep(at, value) PROVE ReferenceInv'
    BY <1>b, <1>8 DEF Reference!OnIep, Reference!Frame
  <1>c. ASSUME NEW c, NEW ask, Reference!OnBook(c, ask) PROVE ReferenceInv'
    BY <1>c, <1>8 DEF Reference!OnBook, Reference!feedVars, Reference!signalVars
  <1>d. ASSUME NEW cs, Reference!OnBadBooks(cs) PROVE ReferenceInv'
    BY <1>d, <1>8 DEF Reference!OnBadBooks, Reference!feedVars, Reference!signalVars
  <1>e. ASSUME NEW c, Reference!Decide(c) PROVE ReferenceInv'
    BY <1>e, <1>8 DEF Reference!Decide, Reference!feedVars, Reference!signalVars
  <1>9. \A at \in Reference!Stamps : at \in Int BY DEF Reference!Stamps, Heard
  <1>10. \A off \in Uncertainties : off \in Nat OBVIOUS
  <1>11. ASSUME NEW phase \in Reference!Phases, NEW at \in Reference!Stamps, NEW off \in Uncertainties,
                Reference!OnStatus(phase, at, off)
         PROVE  ReferenceInv'
    BY <1>6, <1>9, <1>10, <1>11
  <1>12. ASSUME NEW at \in Reference!Stamps, NEW value \in {1},
                Reference!OnLtp(at, value) \/ Reference!OnIep(at, value)
         PROVE  ReferenceInv'
    BY <1>7, <1>9, <1>b, <1>12
  <1> QED BY <1>3, <1>4, <1>11, <1>12, <1>a, <1>c, <1>d, <1>e, Zenon DEF Reference!Step

LEMMA ReferenceAlways == SessionSpec => []Frozen /\ [](part # "signal" => ReferenceInv)
  <1>1. SessionInit => Frozen /\ (part # "signal" => ReferenceInv)
    BY AuctionStart, ReferenceStart DEF Signal!Init, Reference!Init, Frozen
  <1>2. Frozen /\ (part # "signal" => ReferenceInv) /\ [SessionNext]_sessionVars =>
          Frozen' /\ (part # "signal" => ReferenceInv)'
    <2> SUFFICES ASSUME Frozen, part # "signal" => ReferenceInv, [SessionNext]_sessionVars,
                        part' # "signal"
                 PROVE  ReferenceInv'
      BY FrozenStep
    <2>1. ReferenceInv BY AuctionStep
    <2>2. CASE UNCHANGED auction
      BY <2>1, <2>2 DEF auction, ReferenceInv, Heard, SoundOf, Reference!Cardinality
    <2>3. CASE Reference!Next BY <2>1, <2>3, ReferenceNext DEF Reference!Next
    <2> QED BY <2>2, <2>3, AuctionStep
  <1> QED BY <1>1, <1>2, PTL DEF SessionSpec

\* A streak has no gap, so that an order that leaves rests on two observations in a row
\* (engine.py 109-179); a reference rests on enough distinct observations stamped and
\* received in time, on one connection (strategy.py 30-61), and never changes, also across a
\* restart (ledger.py 73-79).
THEOREM SignalIsSoundHolds == SessionSpec => SignalIsSound
  <1>1. (part = "signal" => SignalInv) =>
          (part = "signal" => Signal!TypeOK /\ Signal!StreakUnbroken)
    BY SignalIsTrue
  <1>2. (part # "signal" => ReferenceInv) => (part = "reference" => Reference!ReferenceIsSound)
    BY DEF ReferenceInv, SoundOf, Reference!ReferenceIsSound
  <1>3. Frozen /\ [SessionNext]_sessionVars =>
          [reference # Reference!NoReference => reference' = reference]_<<reference>>
    BY FrozenStep, SameNothing
  <1> QED BY <1>1, <1>2, <1>3, SignalAlways, ReferenceAlways, PTL
        DEF SessionSpec, SignalIsSound, Reference!ReferenceFrozen

-----------------------------------------------------------------------------
(* The lifecycles and the ledger *)

----------------------------------------------------------------------------
(* The inductive invariant *)

\* Lots and cash of an order that ended and is not in the ledger yet.
Ended(l) == order.st = "ended" /\ order.l = l
Unbooked(l) ==
  IF ~Ended(l) THEN 0 ELSE IF order.side = "BUY" THEN order.filled ELSE -order.filled
Due(l) ==
  IF ~Ended(l) THEN 0 ELSE IF order.side = "BUY" THEN -order.cash ELSE order.cash

Worth(l) == credit[l] - debit[l]
Cleared(l) == receipt[l].lots > 0

\* An order belongs to an open lifecycle, costs no more than was reserved and
\* sells no more than is held.
OrderInv ==
  /\ order.st = "none" => order = NoOrder
  /\ order.st # "none" => order.l \in Lives /\ Open(order.l)
  /\ order.filled <= order.lots
  /\ order.side = "BUY" => order.cash <= order.lots * Price
  /\ order.side = "SELL" => order.st # "none" /\ order.lots <= Held(order.l)

\* What is not open has nothing, or nothing left.
Unused(l) == /\ bought[l] = 0 /\ gone[l] = 0 /\ debit[l] = 0 /\ credit[l] = 0
             /\ fees[l] = 0 /\ ~exit[l]
LifeInv ==
  \A l \in Lives :
    /\ state[l] = "none" => Unused(l)
    /\ state[l] = "CLOSED" =>
         Held(l) = 0 /\ Worth(l) - fees[l] <= posted[l] /\ posted[l] <= Worth(l)

LatchInv == latched => disarmed \/ ~NoneOpen

\* What is really held and was really paid, before the position is cleared,
\* after it, and after that was settled.
BookInv ==
  \A l \in Lives :
    /\ Cleared(l) => clock = "expired" /\ order.st # "live" /\ hold[l] = 0
    /\ \/ /\ ~Cleared(l)
          /\ hold[l] = Held(l) + Unbooked(l)
          /\ flow[l] = Worth(l) + Due(l)
       \/ /\ Cleared(l)
          /\ receipt[l].lots = Held(l) + Unbooked(l)
          /\ flow[l] = Worth(l) + Due(l) + receipt[l].lots * Exercise
       \/ /\ Cleared(l)
          /\ Held(l) + Unbooked(l) = 0
          /\ flow[l] = Worth(l) + Due(l)

\* What a cycle has captured holds until it is used.
SettleInv ==
  /\ cyc.pc \in {"report", "cash", "closing"} => cyc.l \in Lives /\ Open(cyc.l)
  /\ cyc.pc \in {"report", "cash"} => cyc.n = Held(cyc.l) /\ cyc.n > 0
  /\ cyc.pc = "cash" => receipt[cyc.l].lots = cyc.n
  /\ cyc.pc = "closing" => /\ Held(cyc.l) = 0
                           /\ Worth(cyc.l) - fees[cyc.l] <= cyc.n /\ cyc.n <= Worth(cyc.l)
EntryInv ==
  cyc.pc = "entering" =>
    IF cyc.l = NoLife THEN NoneOpen
    ELSE Open(cyc.l) /\ (cyc.ok => ~latched /\ (exit[cyc.l] => final > 0))
CycleInv == (cyc.pc # "idle" => order = NoOrder) /\ SettleInv /\ EntryInv

\* Purchases are within bounds, and depth is debited before an order is sent.
SpendInv ==
  /\ \A l \in Lives : debit[l] + Reserved(l) <= Ceiling(bankroll[l])
  /\ SumFunctionOnSet([l \in Lives |-> debit[l] + Reserved(l)], Lives) <= DebitCap
  /\ \A b \in Books : sent[b] <= debits[b]
  /\ market => books > 0

LifecycleInv ==
  /\ TypeOK /\ OrderInv /\ LifeInv /\ LatchInv /\ BookInv /\ CycleInv /\ SpendInv

----------------------------------------------------------------------------
(* Constants, minima and maxima *)

LEMMA Constants ==
  /\ IsFiniteSet(Lives) /\ NoLife \notin Lives /\ Reinvest \in BOOLEAN
  /\ Depth \in Nat /\ Child \in Nat \ {0} /\ Price \in Nat \ {0} /\ Exercise \in Nat
  /\ Capital \in Nat /\ Limit \in Nat /\ DebitCap \in Nat
  /\ MaxBooks \in Nat /\ MaxFaults \in Nat
  /\ Costs \subseteq 0..Price /\ Credits \subseteq Nat /\ CashLevels \subseteq Nat
  BY ConstantsAssumption

USE Constants

LEMMA MinOfTwo ==
  ASSUME NEW a \in Int, NEW b \in Int
  PROVE  Min({a, b}) \in {a, b} /\ Min({a, b}) <= a /\ Min({a, b}) <= b
  <1>1. \E x \in {a, b} : \A y \in {a, b} : x <= y OBVIOUS
  <1> QED BY <1>1 DEF Min

LEMMA MinOfThree ==
  ASSUME NEW a \in Int, NEW b \in Int, NEW c \in Int
  PROVE  Min({a, b, c}) <= a /\ Min({a, b, c}) <= b /\ Min({a, b, c}) <= c
  <1>1. \E x \in {a, b, c} : \A y \in {a, b, c} : x <= y OBVIOUS
  <1> QED BY <1>1 DEF Min

LEMMA MaxOfTwo ==
  ASSUME NEW a \in Int, NEW b \in Int
  PROVE  Max({a, b}) \in {a, b} /\ a <= Max({a, b}) /\ b <= Max({a, b})
  <1>1. \E x \in {a, b} : \A y \in {a, b} : x >= y OBVIOUS
  <1> QED BY <1>1 DEF Max

LEMMA CeilingBound ==
  ASSUME NEW b \in Nat
  PROVE  Ceiling(b) \in Nat /\ Ceiling(b) <= b
  <1>1. Min({b, Limit}) \in {b, Limit} /\ Min({b, Limit}) <= b BY MinOfTwo
  <1>2. b \div 4 \in Nat /\ b \div 4 <= b OBVIOUS
  <1> QED BY <1>1, <1>2 DEF Ceiling

\* What an order fills costs no more than what is reserved for it.
LEMMA CostBound ==
  ASSUME NEW n \in Nat, NEW m \in Nat, n <= m, NEW c \in 0..Price
  PROVE  n * c \in Nat /\ n * c <= m * Price
  <1>1. n * c \in Nat /\ n * c <= n * Price OBVIOUS
  <1>2. n * Price <= m * Price OBVIOUS
  <1>3. n * Price \in Nat /\ m * Price \in Nat OBVIOUS
  <1> QED BY <1>1, <1>2, <1>3

----------------------------------------------------------------------------
(* Amounts *)

LEMMA Amounts ==
  ASSUME TypeOK, NEW l \in Lives
  PROVE  /\ Held(l) \in Nat /\ Loss(l) \in Int /\ Reserved(l) \in Nat /\ Spent(l) \in Nat
         /\ Loss(l) = fees[l] - Worth(l) /\ Worth(l) \in Int
         /\ debit[l] + Reserved(l) \in Nat /\ debit[l] + Reserved(l) <= Spent(l)
  <1>1. order.lots \in Nat BY DEF TypeOK, Orders
  <1>2. order.lots * Price \in Nat BY <1>1
  <1>3. Reserved(l) \in Nat BY <1>2 DEF Reserved
  <1>4. /\ bought[l] \in Nat /\ gone[l] \in Nat /\ debit[l] \in Nat /\ credit[l] \in Nat
        /\ fees[l] \in Nat /\ Held(l) >= 0
    BY DEF TypeOK
  <1> QED BY <1>3, <1>4 DEF Held, Loss, Spent, Worth

LEMMA NetType ==
  ASSUME TypeOK
  PROVE  BrokerNet \in Nat
  <1>1. \A l \in Lives : hold[l] \in Nat BY DEF TypeOK
  <1> QED BY <1>1, SumNat DEF BrokerNet

LEMMA PnlType ==
  ASSUME TypeOK
  PROVE  Pnl \in Int
  <1> DEFINE C == {l \in Lives : state[l] = "CLOSED"}
  <1>1. IsFiniteSet(C) BY FS_Subset
  <1>2. IntOn(Losses, C) BY Amounts DEF Losses, IntOn
  <1>3. SumFunctionOnSet(Losses, C) \in Int BY <1>1, <1>2, SumType
  <1> QED BY <1>3 DEF Pnl

\* A bankroll is no more than the allocated capital and what was made of it.
LEMMA BankrollBound ==
  ASSUME TypeOK, NEW cash \in CashLevels
  PROVE  /\ Bankroll(cash) \in Nat
         /\ Bankroll(cash) > 0 => Bankroll(cash) <= Capital + Pnl
  <1>1. Pnl \in Int /\ cash \in Int BY PnlType
  <1> DEFINE a == Capital + (IF Reinvest THEN Pnl ELSE Min({0, Pnl}))
  <1>2. a \in Int /\ a <= Capital + Pnl
    <2>1. Min({0, Pnl}) \in {0, Pnl} /\ Min({0, Pnl}) <= Pnl BY <1>1, MinOfTwo
    <2> QED BY <1>1, <2>1
  <1> HIDE DEF a
  <1>3. Min({a, cash}) \in Int /\ Min({a, cash}) <= a BY <1>1, <1>2, MinOfTwo
  <1>4. Max({0, Min({a, cash})}) \in {0, Min({a, cash})} /\ 0 <= Max({0, Min({a, cash})})
    BY <1>3, MaxOfTwo
  <1>5. Bankroll(cash) = Max({0, Min({a, cash})}) BY DEF Bankroll, a
  <1> QED BY <1>1, <1>2, <1>3, <1>4, <1>5

LEMMA CapType ==
  ASSUME TypeOK
  PROVE  CapRemaining \in Int
  <1>1. IntOn([l \in Lives |-> Spent(l)], Lives) BY Amounts DEF IntOn
  <1>2. SumFunctionOnSet([l \in Lives |-> Spent(l)], Lives) \in Int BY <1>1, SumType
  <1> QED BY <1>2 DEF CapRemaining

\* What a purchase may cost.
LEMMA PermitsBound ==
  ASSUME TypeOK, NEW l \in Lives, NEW b \in Nat, NEW cash \in CashLevels, NEW n \in Nat,
         Permits(l, b, cash, n)
  PROVE  n * Price <= Ceiling(b) - Spent(l) /\ n * Price <= CapRemaining
  <1>0. Ceiling(b) \in Nat /\ Spent(l) \in Nat BY Amounts, CeilingBound
  <1>1. Remaining(l, b) \in Int /\ cash \in Int /\ CapRemaining \in Int
    BY <1>0, CapType DEF Remaining
  <1>2. /\ Min({Remaining(l, b), cash, CapRemaining}) <= Remaining(l, b)
        /\ Min({Remaining(l, b), cash, CapRemaining}) <= CapRemaining
    BY <1>1, MinOfThree
  <1>3. Min({Remaining(l, b), cash, CapRemaining}) \in Int
    <2>1. \E x \in {Remaining(l, b), cash, CapRemaining} :
            \A y \in {Remaining(l, b), cash, CapRemaining} : x <= y
      BY <1>1
    <2> QED BY <1>1, <2>1 DEF Min
  <1>4. n * Price <= Min({Remaining(l, b), cash, CapRemaining}) /\ n * Price \in Int
    BY DEF Permits
  <1> QED BY <1>1, <1>2, <1>3, <1>4 DEF Remaining

----------------------------------------------------------------------------
(* Types *)

LEMMA Records == Idle \in Cycles /\ NoOrder \in Orders /\ Idle.pc = "idle"
  BY DEF Idle, NoOrder, Cycles, Orders

LEMMA TypeInit == Init => TypeOK
  <1> SUFFICES ASSUME Init PROVE TypeOK OBVIOUS
  <1>1. Zeros \in [Lives -> Nat] /\ Zeros \in [Lives -> Int] BY DEF Zeros
  <1>2. \A l \in Lives : Held(l) = 0 BY DEF Init, Held, Zeros
  <1>3. receipt \in [Lives -> Receipts] BY DEF Init, Receipts
  <1>4. debits \in [Books -> 0..Depth] /\ sent \in [Books -> Nat] BY DEF Init, Books
  <1>5. /\ state \in [Lives -> {"none", "OPEN", "CLOSED"}] /\ exit \in [Lives -> BOOLEAN]
        /\ disarmed \in BOOLEAN /\ latched \in BOOLEAN /\ up \in BOOLEAN /\ market \in BOOLEAN
    BY DEF Init
  <1>7. /\ final \in 0..2 /\ books \in 0..MaxBooks /\ faults \in 0..MaxFaults
        /\ snap \in Nat \cup {Stale} /\ clock \in Phases
    BY DEF Init, Phases
  <1>6. /\ bankroll = Zeros /\ posted = Zeros /\ bought = Zeros /\ gone = Zeros /\ debit = Zeros
        /\ credit = Zeros /\ fees = Zeros /\ hold = Zeros /\ flow = Zeros
        /\ cyc = Idle /\ order = NoOrder
    BY DEF Init
  <1> QED BY <1>1, <1>2, <1>3, <1>4, <1>5, <1>6, <1>7, Records DEF TypeOK

LEMMA TypeSettle ==
  ASSUME LifecycleInv, SettleNext
  PROVE  TypeOK'
  <1> USE DEF rowVars, totalVars, storeVars, feedVars, worldVars
  <1>0. TypeOK /\ SettleInv /\ cyc \in Cycles BY DEF LifecycleInv, CycleInv, TypeOK
  <1>1. ASSUME NEW l \in Lives, SettleStart(l) PROVE TypeOK'
    <2>1. Held(l) \in Int BY <1>0, Amounts
    <2>2. cyc' \in Cycles BY <1>1, <2>1 DEF SettleStart, Idle, Cycles
    <2> QED BY <1>0, <1>1, <2>2 DEF SettleStart, TypeOK, Held
  <1>2. ASSUME NEW l \in Lives, SettleMatched(l) \/ SettleUnmatched(l) PROVE TypeOK'
    <2>1. cyc' \in {Idle, [cyc EXCEPT !.pc = "cash"]}
      <3>1. CASE SettleMatched(l) BY <3>1 DEF SettleMatched
      <3>2. CASE SettleUnmatched(l) BY <3>2 DEF SettleUnmatched
      <3> QED BY <1>2, <3>1, <3>2
    <2>2. cyc' \in Cycles
      <3>1. [cyc EXCEPT !.pc = "cash"] \in Cycles BY <1>0 DEF Cycles
      <3> QED BY <2>1, <3>1, Records
    <2> QED BY <1>0, <1>2, <2>2 DEF SettleMatched, SettleUnmatched, TypeOK, Held
  <1>3. ASSUME NEW l \in Lives, SettleRecord(l) PROVE TypeOK'
    <2>1. cyc.n = Held(l) /\ Held(l) \in Nat /\ Loss(l) \in Int
      BY <1>0, <1>3, Amounts DEF SettleRecord, SettleInv
    <2>2. cyc.n * Exercise \in Nat BY <2>1
    <2>3. cyc' \in Cycles
      <3>1. cyc' = [cyc EXCEPT !.pc = "closing", !.n = -Loss(l) + cyc.n * Exercise]
        BY <1>3 DEF SettleRecord
      <3>2. -Loss(l) + cyc.n * Exercise \in Int BY <2>1, <2>2
      <3> QED BY <1>0, <3>1, <3>2 DEF Cycles
    <2>4. /\ gone' \in [Lives -> Nat] /\ credit' \in [Lives -> Nat]
      BY <1>0, <1>3, <2>1, <2>2 DEF TypeOK, SettleRecord
    <2>5. \A m \in Lives : Held(m)' >= 0
      BY <1>0, <1>3, <2>1 DEF TypeOK, SettleRecord, Held
    <2> QED BY <1>0, <1>3, <2>3, <2>4, <2>5 DEF SettleRecord, TypeOK
  <1>4. ASSUME NEW l \in Lives, CloseStart(l) PROVE TypeOK'
    <2>1. -Loss(l) \in Int BY <1>0, Amounts
    <2>2. cyc' \in Cycles BY <1>4, <2>1 DEF CloseStart, Idle, Cycles
    <2> QED BY <1>0, <1>4, <2>2 DEF CloseStart, TypeOK, Held
  <1>5. ASSUME NEW l \in Lives, Close(l) PROVE TypeOK'
    <2>1. cyc' \in Cycles /\ cyc.n \in Int BY <1>0, <1>5 DEF Close, Idle, Cycles
    <2> QED BY <1>0, <1>5, <2>1 DEF Close, TypeOK, Held
  <1> QED BY <1>1, <1>2, <1>3, <1>4, <1>5 DEF SettleNext

LEMMA SellTypes ==
  ASSUME TypeOK, NEW l \in Lives, NEW n \in Nat, Sell(l, n)
  PROVE  /\ order' \in Orders /\ cyc' \in Cycles /\ snap' \in Nat \cup {Stale}
         /\ faults' \in 0..MaxFaults
  <1>1. Selling(l, n) \in Orders BY DEF Selling, NoOrder, Orders
  <1>2. Idle \in Cycles BY DEF Idle, Cycles
  <1> QED BY <1>1, <1>2 DEF Sell, Posted, Raised, CallFails, TypeOK

LEMMA ChildType ==
  ASSUME TypeOK, NEW l \in Lives
  PROVE  Min({Held(l), Child}) \in Nat /\ Min({Held(l), Child}) <= Held(l)
  <1>1. Held(l) \in Nat BY Amounts
  <1> HIDE DEF Held
  <1>2. Min({Held(l), Child}) \in {Held(l), Child} /\ Min({Held(l), Child}) <= Held(l)
    BY <1>1, MinOfTwo
  <1> QED BY <1>1, <1>2

LEMMA TypeExit ==
  ASSUME LifecycleInv, ExitNext
  PROVE  TypeOK'
  <1> USE DEF rowVars, totalVars, storeVars, feedVars, worldVars
  <1>0. TypeOK BY DEF LifecycleInv
  <1>1. ASSUME NEW l \in Lives, SellSlice(l) PROVE TypeOK'
    <2>1. PICK n \in Nat : Sell(l, n) BY <1>0, <1>1, ChildType DEF SellSlice
    <2> QED BY <1>0, <1>1, <2>1, SellTypes DEF SellSlice, TypeOK, Held
  <1>2. ASSUME NEW l \in Lives, Exit(l) PROVE TypeOK'
    <2>1. PICK n \in Nat : Sell(l, n) BY <1>0, <1>2, ChildType DEF Exit
    <2>2. exit' \in [Lives -> BOOLEAN] BY <1>0, <1>2 DEF Exit, TypeOK
    <2> QED BY <1>0, <1>2, <2>1, <2>2, SellTypes DEF Exit, TypeOK, Held
  <1> QED BY <1>1, <1>2 DEF ExitNext

\* What Enter decides.
LEMMA EnterDecides ==
  ASSUME LifecycleInv, NEW l \in Lives, Enter(l)
  PROVE  /\ books \in Books /\ order = NoOrder /\ cyc' = Idle
         /\ state' = [state EXCEPT ![l] = "OPEN"]
         /\ \E n \in Nat \ {0}, b \in Nat, cash \in CashLevels :
              /\ n <= Depth - debits[books]
              /\ b = IF Open(l) THEN bankroll[l] ELSE Bankroll(cash)
              /\ Permits(l, b, cash, n)
              /\ bankroll' = [bankroll EXCEPT ![l] = b]
              /\ debits' = [debits EXCEPT ![books] = @ + n]
              /\ \/ /\ order' = Buying(l, n) /\ InWindow /\ snap' = Stale
                    /\ sent' = [sent EXCEPT ![books] = @ + n]
                    /\ UNCHANGED faults
                 \/ /\ UNCHANGED <<order, sent>> /\ snap' = Stale
                    /\ faults' \in {faults, faults + 1} /\ faults' <= MaxFaults
  <1>0. TypeOK BY DEF LifecycleInv
  <1>1. cyc.pc = "entering" /\ market BY DEF Enter, InputsUnchanged
  <1>2. books \in Books /\ order = NoOrder
    BY <1>0, <1>1 DEF LifecycleInv, SpendInv, CycleInv, TypeOK, Books
  <1>3. DepthLeft(books) \in Nat /\ DepthLeft(books) = Depth - debits[books]
    BY <1>0, <1>2 DEF TypeOK, DepthLeft
  <1>m. /\ Min({Child, DepthLeft(books)}) \in {Child, DepthLeft(books)}
        /\ Min({Child, DepthLeft(books)}) <= DepthLeft(books)
    <2>1. ASSUME NEW d \in Int
          PROVE  Min({Child, d}) \in {Child, d} /\ Min({Child, d}) <= d
      <3>1. Child \in Int OBVIOUS
      <3> QED BY <3>1, MinOfTwo, Zenon
    <2> QED BY <1>3, <2>1
  <1>4. PICK cash \in CashLevels, n \in 1..Min({Child, DepthLeft(books)}) :
          LET b == IF Open(l) THEN bankroll[l] ELSE Bankroll(cash) IN
          /\ Permits(l, b, cash, n)
          /\ bankroll' = [bankroll EXCEPT ![l] = b]
          /\ DebitDepth(books, l, n)
          /\ \/ /\ InWindow
                /\ Posted(Buying(l, n))
                /\ sent' = [sent EXCEPT ![books] = @ + n]
                /\ UNCHANGED faults
             \/ /\ \/ ~InWindow /\ UNCHANGED faults
                   \/ CallFails
                /\ snap' = Stale
                /\ UNCHANGED <<order, sent>>
    BY DEF Enter
  <1>5. n \in Nat \ {0} /\ n <= Depth - debits[books] BY <1>3, <1>m
  <1> DEFINE b == IF Open(l) THEN bankroll[l] ELSE Bankroll(cash)
  <1>6. b \in Nat BY <1>0, BankrollBound DEF TypeOK
  <1>7. /\ Permits(l, b, cash, n)
        /\ bankroll' = [bankroll EXCEPT ![l] = b]
        /\ debits' = [debits EXCEPT ![books] = @ + n]
    BY <1>4 DEF DebitDepth
  <1>8. \/ /\ order' = Buying(l, n) /\ InWindow /\ snap' = Stale
           /\ sent' = [sent EXCEPT ![books] = @ + n]
           /\ UNCHANGED faults
        \/ /\ UNCHANGED <<order, sent>> /\ snap' = Stale
           /\ faults' \in {faults, faults + 1} /\ faults' <= MaxFaults
    BY <1>0, <1>4 DEF Posted, CallFails, TypeOK
  <1>9. cyc' = Idle /\ state' = [state EXCEPT ![l] = "OPEN"] BY DEF Enter
  <1> HIDE DEF b
  <1>10. b = IF Open(l) THEN bankroll[l] ELSE Bankroll(cash) BY DEF b
  <1> QED BY <1>2, <1>5, <1>6, <1>7, <1>8, <1>9, <1>10

LEMMA TypeEntry ==
  ASSUME LifecycleInv, EntryNext
  PROVE  TypeOK'
  <1> USE DEF rowVars, totalVars, storeVars, feedVars, worldVars
  <1>0. TypeOK BY DEF LifecycleInv
  <1>1. ASSUME NEW l \in Lives \cup {NoLife}, EntryStart(l) PROVE TypeOK'
    <2>1. cyc' \in Cycles BY <1>1 DEF EntryStart, Cycles
    <2> QED BY <1>0, <1>1, <2>1 DEF EntryStart, TypeOK, Held
  <1>2. ASSUME NEW l \in Lives, Enter(l) PROVE TypeOK'
    <2>1. PICK n \in Nat \ {0}, b \in Nat :
            /\ n <= Depth - debits[books]
            /\ bankroll' = [bankroll EXCEPT ![l] = b]
            /\ debits' = [debits EXCEPT ![books] = @ + n]
            /\ \/ /\ order' = Buying(l, n) /\ snap' = Stale
                  /\ sent' = [sent EXCEPT ![books] = @ + n]
                  /\ UNCHANGED faults
               \/ /\ UNCHANGED <<order, sent>> /\ snap' = Stale
                  /\ faults' \in {faults, faults + 1} /\ faults' <= MaxFaults
      BY <1>2, EnterDecides
    <2>2. books \in Books /\ cyc' = Idle /\ state' = [state EXCEPT ![l] = "OPEN"]
      BY <1>2, EnterDecides
    <2>3. cyc' \in Cycles BY <2>2 DEF Idle, Cycles
    <2>4. order' \in Orders /\ snap' \in Nat \cup {Stale} /\ faults' \in 0..MaxFaults
      <3>1. order \in Orders /\ faults \in 0..MaxFaults BY <1>0 DEF TypeOK
      <3>2. Buying(l, n) \in Orders BY DEF Buying, NoOrder, Orders
      <3> QED BY <2>1, <3>1, <3>2
    <2>5. debits' \in [Books -> 0..Depth] /\ sent' \in [Books -> Nat]
      BY <1>0, <2>1, <2>2 DEF TypeOK
    <2>6. bankroll' \in [Lives -> Nat] /\ state' \in [Lives -> {"none", "OPEN", "CLOSED"}]
      BY <1>0, <2>1, <2>2 DEF TypeOK
    <2> QED BY <1>0, <1>2, <2>3, <2>4, <2>5, <2>6 DEF Enter, TypeOK, Held
  <1>3. ASSUME EntryDropped PROVE TypeOK'
    <2>1. cyc' \in Cycles BY <1>3 DEF EntryDropped, Idle, Cycles
    <2> QED BY <1>0, <1>3, <2>1 DEF EntryDropped, TypeOK, Held
  <1> QED BY <1>1, <1>2, <1>3 DEF EntryNext

LEMMA TypeAccount ==
  ASSUME LifecycleInv, AccountNext
  PROVE  TypeOK'
  <1> USE DEF rowVars, totalVars, storeVars, feedVars, worldVars
  <1>0. TypeOK /\ OrderInv /\ order \in Orders BY DEF LifecycleInv, TypeOK
  <1>1. ASSUME Refresh PROVE TypeOK'
    <2>1. snap' \in Nat \cup {Stale} BY <1>0, <1>1, NetType DEF Refresh
    <2>2. CASE order.st # "ended"
      <3>1. UNCHANGED <<bought, gone, debit, credit, order>> BY <1>1, <2>2 DEF Refresh
      <3> QED BY <1>0, <1>1, <2>1, <3>1 DEF Refresh, TypeOK, Held
    <2>3. CASE order.st = "ended"
      <3>1. /\ order.l \in Lives /\ order.filled \in Nat /\ order.cash \in Nat
            /\ order.side \in {"BUY", "SELL"} /\ order' = NoOrder
            /\ order.side = "SELL" => order.filled <= Held(order.l)
        BY <1>0, <1>1, <2>3, Amounts DEF Refresh, OrderInv, Orders
      <3>2. CASE order.side = "BUY"
        <4>1. /\ bought' = [bought EXCEPT ![order.l] = @ + order.filled]
              /\ debit' = [debit EXCEPT ![order.l] = @ + order.cash]
              /\ UNCHANGED <<gone, credit>>
          BY <1>1, <2>3, <3>2 DEF Refresh
        <4>2. bought' \in [Lives -> Nat] /\ debit' \in [Lives -> Nat]
          BY <1>0, <3>1, <4>1 DEF TypeOK
        <4>3. \A l \in Lives : Held(l)' >= 0 BY <1>0, <3>1, <4>1 DEF TypeOK, Held
        <4> QED BY <1>0, <1>1, <2>1, <3>1, <4>1, <4>2, <4>3, Records DEF Refresh, TypeOK
      <3>3. CASE order.side = "SELL"
        <4>1. /\ gone' = [gone EXCEPT ![order.l] = @ + order.filled]
              /\ credit' = [credit EXCEPT ![order.l] = @ + order.cash]
              /\ UNCHANGED <<bought, debit>>
          BY <1>1, <2>3, <3>3 DEF Refresh
        <4>2. gone' \in [Lives -> Nat] /\ credit' \in [Lives -> Nat]
          BY <1>0, <3>1, <4>1 DEF TypeOK
        <4>3. \A l \in Lives : Held(l)' >= 0 BY <1>0, <3>1, <3>3, <4>1 DEF TypeOK, Held
        <4> QED BY <1>0, <1>1, <2>1, <3>1, <4>1, <4>2, <4>3, Records DEF Refresh, TypeOK
      <3> QED BY <3>1, <3>2, <3>3
    <2> QED BY <2>2, <2>3
  <1>2. ASSUME Age PROVE TypeOK' BY <1>0, <1>2 DEF Age, TypeOK, Held
  <1>3. ASSUME NEW l \in Lives, LateCharge(l) PROVE TypeOK'
    <2>1. fees' \in [Lives -> Nat] /\ faults' \in 0..MaxFaults
      BY <1>0, <1>3 DEF TypeOK, LateCharge, CallFails
    <2> QED BY <1>0, <1>3, <2>1 DEF LateCharge, TypeOK, Held
  <1>4. ASSUME CycleFails PROVE TypeOK'
    <2>1. cyc' = Idle /\ snap' = Stale /\ faults' \in 0..MaxFaults
      BY <1>0, <1>4 DEF TypeOK, CycleFails, Raised, CallFails
    <2> QED BY <1>0, <1>4, <2>1, Records DEF CycleFails, TypeOK, Held
  <1> QED BY <1>1, <1>2, <1>3, <1>4 DEF AccountNext

\* How an order ends.
LEMMA EndMoves ==
  ASSUME LifecycleInv, End
  PROVE  \E n \in Nat, cash \in Nat :
           /\ n <= order.lots
           /\ order' = [order EXCEPT !.st = "ended", !.filled = n, !.cash = cash]
           /\ \/ /\ order.side = "BUY" /\ cash <= order.lots * Price
                 /\ hold' = [hold EXCEPT ![order.l] = @ + n]
                 /\ flow' = [flow EXCEPT ![order.l] = @ - cash]
              \/ /\ order.side = "SELL"
                 /\ hold' = [hold EXCEPT ![order.l] = @ - n]
                 /\ flow' = [flow EXCEPT ![order.l] = @ + cash]
  <1>0. /\ order.l \in Lives /\ order.lots \in Nat /\ order.side \in {"BUY", "SELL"}
        /\ hold[order.l] \in Nat /\ flow[order.l] \in Int
    BY DEF LifecycleInv, TypeOK, OrderInv, End, Orders
  <1>1. PICK n \in 0..order.lots, c \in IF order.side = "BUY" THEN Costs ELSE Credits :
          LET sign == IF order.side = "BUY" THEN 1 ELSE -1 IN
          /\ order' = [order EXCEPT !.st = "ended", !.filled = n, !.cash = n * c]
          /\ hold' = [hold EXCEPT ![order.l] = @ + sign * n]
          /\ flow' = [flow EXCEPT ![order.l] = @ - sign * n * c]
    BY DEF End
  <1>2. n \in Nat /\ n <= order.lots BY <1>0, <1>1
  <1>3. CASE order.side = "BUY"
    <2>1. c \in 0..Price /\ c \in Nat BY <1>3
    <2>2. n * c \in Nat /\ n * c <= order.lots * Price BY <1>0, <1>2, <2>1, CostBound
    <2>3. 1 * n = n /\ 1 * n * c = n * c BY <1>2, <2>1
    <2>4. /\ hold' = [hold EXCEPT ![order.l] = @ + n]
          /\ flow' = [flow EXCEPT ![order.l] = @ - n * c]
      BY <1>1, <1>3, <2>3
    <2> QED BY <1>1, <1>2, <1>3, <2>2, <2>4
  <1>4. CASE order.side = "SELL"
    <2>1. c \in Nat BY <1>4
    <2>2. n * c \in Nat BY <1>2, <2>1
    <2>3. (-1) * n = -n /\ (-1) * n * c = -(n * c) BY <1>2, <2>1
    <2>4. /\ hold' = [hold EXCEPT ![order.l] = hold[order.l] + (-n)]
          /\ flow' = [flow EXCEPT ![order.l] = flow[order.l] - (-(n * c))]
      BY <1>1, <1>4, <2>3
    <2>5. hold[order.l] + (-n) = hold[order.l] - n BY <1>0, <1>2
    <2>6. flow[order.l] - (-(n * c)) = flow[order.l] + n * c
      <3> DEFINE k == n * c
      <3>1. k \in Int BY <2>2
      <3> HIDE DEF k
      <3>2. flow[order.l] - (-k) = flow[order.l] + k BY <1>0, <3>1
      <3> QED BY <3>2 DEF k
    <2>7. /\ hold' = [hold EXCEPT ![order.l] = @ - n]
          /\ flow' = [flow EXCEPT ![order.l] = @ + n * c]
      BY <2>4, <2>5, <2>6, Zenon
    <2> QED BY <1>1, <1>2, <1>4, <2>2, <2>7
  <1> QED BY <1>0, <1>3, <1>4

\* While an order is live, what is held is what the ledger says.
LEMMA LiveHold ==
  ASSUME LifecycleInv, order.st = "live"
  PROVE  /\ order.l \in Lives
         /\ \A l \in Lives : ~Cleared(l) /\ hold[l] = Held(l) /\ flow[l] = Worth(l)
  <1>1. \A l \in Lives : Held(l) \in Nat /\ Worth(l) \in Int
    BY Amounts DEF LifecycleInv
  <1>2. \A l \in Lives : Unbooked(l) = 0 /\ Due(l) = 0 BY DEF Unbooked, Due, Ended
  <1>3. \A l \in Lives : ~Cleared(l) BY DEF LifecycleInv, BookInv
  <1>4. \A l \in Lives : hold[l] = Held(l) + Unbooked(l) /\ flow[l] = Worth(l) + Due(l)
    BY <1>3 DEF LifecycleInv, BookInv
  <1>5. order.l \in Lives BY DEF LifecycleInv, OrderInv
  <1> QED BY <1>1, <1>2, <1>3, <1>4, <1>5

LEMMA TypeBroker ==
  ASSUME LifecycleInv, BrokerNext
  PROVE  TypeOK'
  <1> USE DEF rowVars, totalVars, storeVars, feedVars, worldVars
  <1>0. TypeOK /\ order \in Orders BY DEF LifecycleInv, TypeOK
  <1>1. ASSUME End PROVE TypeOK'
    <2>1. order.l \in Lives /\ hold[order.l] = Held(order.l)
      BY <1>1, LiveHold DEF End
    <2>2. order.side = "SELL" => order.lots <= hold[order.l]
      BY <2>1 DEF LifecycleInv, OrderInv
    <2>3. PICK n \in Nat, cash \in Nat :
           /\ n <= order.lots
           /\ order' = [order EXCEPT !.st = "ended", !.filled = n, !.cash = cash]
           /\ \/ /\ order.side = "BUY"
                 /\ hold' = [hold EXCEPT ![order.l] = @ + n]
                 /\ flow' = [flow EXCEPT ![order.l] = @ - cash]
              \/ /\ order.side = "SELL"
                 /\ hold' = [hold EXCEPT ![order.l] = @ - n]
                 /\ flow' = [flow EXCEPT ![order.l] = @ + cash]
      BY <1>1, EndMoves
    <2>4. order' \in Orders BY <1>0, <2>3 DEF Orders
    <2>5. hold[order.l] \in Nat /\ order.lots \in Nat BY <1>0, <2>1 DEF TypeOK, Orders
    <2>6. hold' \in [Lives -> Nat] BY <1>0, <2>1, <2>2, <2>3, <2>5 DEF TypeOK
    <2>7. flow' \in [Lives -> Int] BY <1>0, <2>1, <2>3 DEF TypeOK
    <2> QED BY <1>0, <1>1, <2>4, <2>6, <2>7 DEF End, TypeOK, Held
  <1>2. ASSUME Lose PROVE TypeOK'
    <2>1. order' \in Orders /\ faults' \in 0..MaxFaults
      BY <1>0, <1>2 DEF TypeOK, Lose, CallFails, Orders
    <2> QED BY <1>0, <1>2, <2>1 DEF Lose, TypeOK, Held
  <1>3. ASSUME NEW l \in Lives, Clear(l) PROVE TypeOK'
    <2>1. hold[l] \in Nat BY <1>0 DEF TypeOK
    <2>2. hold[l] * Exercise \in Int BY <2>1
    <2>3. hold' \in [Lives -> Nat] /\ flow' \in [Lives -> Int]
      BY <1>0, <1>3, <2>2 DEF TypeOK, Clear
    <2>4. receipt' \in [Lives -> Receipts] BY <1>0, <1>3, <2>1 DEF TypeOK, Clear, Receipts
    <2> QED BY <1>0, <1>3, <2>3, <2>4 DEF Clear, TypeOK, Held
  <1>4. ASSUME NEW l \in Lives, Show(l) PROVE TypeOK'
    <2>1. [receipt[l] EXCEPT !.shown = TRUE] \in Receipts
      <3>1. receipt[l] \in Receipts BY <1>0 DEF TypeOK
      <3> QED BY <3>1 DEF Receipts
    <2>2. receipt' \in [Lives -> Receipts]
      <3>1. receipt' = [receipt EXCEPT ![l] = [receipt[l] EXCEPT !.shown = TRUE]]
        BY <1>4 DEF Show
      <3> QED BY <1>0, <2>1, <3>1 DEF TypeOK
    <2> QED BY <1>0, <1>4, <2>2 DEF Show, TypeOK, Held
  <1> QED BY <1>1, <1>2, <1>3, <1>4 DEF BrokerNext

LEMMA TypeOutside ==
  ASSUME LifecycleInv, OutsideNext
  PROVE  TypeOK'
  <1> USE DEF rowVars, totalVars, storeVars, feedVars, worldVars
  <1>0. TypeOK /\ cyc \in Cycles BY DEF LifecycleInv, TypeOK
  <1>1. [cyc EXCEPT !.ok = FALSE] \in Cycles BY <1>0 DEF Cycles
  <1>2. ASSUME SignalLost PROVE TypeOK'
    <2>1. faults' \in 0..MaxFaults BY <1>0, <1>2 DEF SignalLost, CallFails, TypeOK
    <2> QED BY <1>0, <1>1, <1>2, <2>1 DEF SignalLost, StatusChanged, TypeOK, Held
  <1>3. ASSUME SignalUp PROVE TypeOK'
    BY <1>0, <1>1, <1>3 DEF SignalUp, StatusChanged, TypeOK, Held
  <1>4. ASSUME MarketLost PROVE TypeOK'
    <2>1. faults' \in 0..MaxFaults BY <1>0, <1>4 DEF MarketLost, CallFails, TypeOK
    <2> QED BY <1>0, <1>4, <2>1 DEF MarketLost, TypeOK, Held
  <1>5. ASSUME NewBook PROVE TypeOK'
    BY <1>0, <1>5 DEF NewBook, TypeOK, Held
  <1>6. ASSUME Tick PROVE TypeOK'
    <2>1. clock' \in Phases BY <1>6 DEF Tick, Phases
    <2>2. cyc' \in Cycles BY <1>0, <1>1, <1>6 DEF Tick, StatusChanged
    <2> QED BY <1>0, <1>6, <2>1, <2>2 DEF Tick, TypeOK, Held
  <1>7. ASSUME OnFinal PROVE TypeOK'
    <2>1. /\ final' \in 0..2 /\ faults' \in 0..MaxFaults
      BY <1>0, <1>7 DEF OnFinal, CallFails, TypeOK
    <2>2. disarmed' \in BOOLEAN /\ latched' \in BOOLEAN BY <1>0, <1>7 DEF OnFinal, TypeOK
    <2> QED BY <1>0, <1>1, <1>7, <2>1, <2>2 DEF OnFinal, StatusChanged, TypeOK, Held
  <1>8. ASSUME Crash PROVE TypeOK'
    <2>1. cyc' = Idle /\ snap' = Stale /\ faults' \in 0..MaxFaults
      BY <1>0, <1>8 DEF TypeOK, Crash, Raised, CallFails
    <2> QED BY <1>0, <1>8, <2>1, Records DEF Crash, TypeOK, Held
  <1> QED BY <1>2, <1>3, <1>4, <1>5, <1>6, <1>7, <1>8 DEF OutsideNext

LEMMA TypeStep == LifecycleInv /\ [Next]_vars => TypeOK'
  <1> SUFFICES ASSUME LifecycleInv, [Next]_vars PROVE TypeOK' OBVIOUS
  <1>1. CASE UNCHANGED vars BY <1>1 DEF LifecycleInv, TypeOK, Held, vars
  <1> QED
    BY <1>1, TypeSettle, TypeExit, TypeEntry, TypeAccount, TypeBroker, TypeOutside DEF Next

----------------------------------------------------------------------------
(* Steps that move nothing *)

\* The ledger, the orders, the positions and the cash stay as they are.
Unmoved ==
  /\ UNCHANGED <<state, bankroll, bought, gone, debit, credit, posted, exit, debits>>
  /\ UNCHANGED <<order, hold, flow, sent>>
  /\ \A l \in Lives : receipt'[l].lots = receipt[l].lots
  /\ clock = "expired" => clock' = "expired"

\* Charges only grow, and only of what was bought.
FeesGrow ==
  \A l \in Lives : fees[l] <= fees'[l] /\ (state[l] = "none" => fees'[l] = fees[l])

LEMMA Same ==
  ASSUME UNCHANGED <<bought, gone, debit, credit, order>>
  PROVE  /\ \A l \in Lives : /\ Held(l)' = Held(l) /\ Worth(l)' = Worth(l)
                             /\ Unbooked(l)' = Unbooked(l) /\ Due(l)' = Due(l)
                             /\ Reserved(l)' = Reserved(l)
  BY DEF Held, Worth, Unbooked, Due, Ended, Reserved

LEMMA BooksSame ==
  ASSUME BookInv, UNCHANGED <<bought, gone, debit, credit, order, hold, flow>>,
         \A l \in Lives : receipt'[l].lots = receipt[l].lots,
         clock = "expired" => clock' = "expired"
  PROVE  BookInv'
  <1> SUFFICES ASSUME NEW l \in Lives
               PROVE  /\ Cleared(l)' => clock' = "expired" /\ order'.st # "live" /\ hold'[l] = 0
                      /\ \/ /\ ~Cleared(l)'
                            /\ hold'[l] = Held(l)' + Unbooked(l)'
                            /\ flow'[l] = Worth(l)' + Due(l)'
                         \/ /\ Cleared(l)'
                            /\ receipt'[l].lots = Held(l)' + Unbooked(l)'
                            /\ flow'[l] = Worth(l)' + Due(l)' + receipt'[l].lots * Exercise
                         \/ /\ Cleared(l)'
                            /\ Held(l)' + Unbooked(l)' = 0
                            /\ flow'[l] = Worth(l)' + Due(l)'
    BY DEF BookInv
  <1>1. /\ Held(l)' = Held(l) /\ Worth(l)' = Worth(l)
        /\ Unbooked(l)' = Unbooked(l) /\ Due(l)' = Due(l)
    BY Same
  <1>2. Cleared(l)' = Cleared(l) BY DEF Cleared
  <1> QED BY <1>1, <1>2 DEF BookInv

LEMMA UnmovedBooks ==
  ASSUME LifecycleInv, Unmoved
  PROVE  OrderInv' /\ BookInv'
  <1>1. OrderInv /\ order' = order BY DEF LifecycleInv, Unmoved
  <1>2. state' = state /\ bought' = bought /\ gone' = gone BY DEF Unmoved
  <1>3. OrderInv' BY <1>1, <1>2 DEF OrderInv, NoOrder, Open, Held
  <1>4. BookInv' BY BooksSame DEF LifecycleInv, Unmoved
  <1> QED BY <1>3, <1>4

LEMMA SpendSame ==
  ASSUME SpendInv, UNCHANGED <<bankroll, debit, debits, order, sent>>, market' => books' > 0
  PROVE  SpendInv'
  <1>1. \A l \in Lives : Reserved(l)' = Reserved(l) BY DEF Reserved
  <1>2. [l \in Lives |-> debit[l] + Reserved(l)]' = [l \in Lives |-> debit[l] + Reserved(l)]
    BY <1>1
  <1>3. SumFunctionOnSet([l \in Lives |-> debit[l] + Reserved(l)], Lives)'
          = SumFunctionOnSet([l \in Lives |-> debit[l] + Reserved(l)], Lives)
    BY <1>2
  <1>4. \A l \in Lives : (debit[l] + Reserved(l) <= Ceiling(bankroll[l]))'
    BY <1>1 DEF SpendInv, Ceiling
  <1>5. \A b \in Books : (sent[b] <= debits[b])' BY DEF SpendInv
  <1> QED BY <1>3, <1>4, <1>5 DEF SpendInv

\* A cycle that is not touched, or told that the status changed, goes on.
LEMMA CycleKept ==
  ASSUME LifecycleInv, TypeOK', Unmoved, cyc' \in {cyc, [cyc EXCEPT !.ok = FALSE]},
         FeesGrow, final' >= final, cyc'.ok => latched' = latched
  PROVE  CycleInv'
  <1>0. TypeOK /\ CycleInv /\ cyc \in Cycles BY DEF LifecycleInv, TypeOK
  <1>1. /\ cyc'.pc = cyc.pc /\ cyc'.l = cyc.l /\ cyc'.n = cyc.n
        /\ cyc'.ok => cyc.ok
    BY <1>0 DEF Cycles
  <1>2. \A l \in Lives : Held(l)' = Held(l) /\ Worth(l)' = Worth(l) /\ Open(l)' = Open(l)
    BY Same DEF Unmoved, Open
  <1>3. SettleInv'
    <2>1. \A l \in Lives : receipt'[l].lots = receipt[l].lots /\ fees[l] <= fees'[l]
      BY DEF Unmoved, FeesGrow
    <2>2. CASE cyc.pc \in {"report", "cash", "closing"}
      <3>1. cyc.l \in Lives /\ SettleInv BY <1>0, <2>2 DEF CycleInv, SettleInv
      <3>2. receipt'[cyc'.l].lots = receipt[cyc.l].lots BY <1>1, <2>1, <3>1
      <3>3. /\ state' = state /\ bought' = bought /\ gone' = gone /\ debit' = debit
            /\ credit' = credit
        BY DEF Unmoved
      <3>4. Worth(cyc.l) - fees[cyc.l] <= cyc.n => Worth(cyc.l) - fees'[cyc'.l] <= cyc'.n
        <4>1. /\ Worth(cyc.l) \in Int /\ fees[cyc.l] \in Int /\ fees'[cyc.l] \in Int
              /\ cyc.n \in Int /\ fees[cyc.l] <= fees'[cyc.l]
          BY <1>0, <2>1, <3>1, Amounts DEF TypeOK, Cycles
        <4> QED BY <1>1, <4>1
      <3>5. /\ Worth(cyc.l)' = Worth(cyc.l) /\ Held(cyc.l)' = Held(cyc.l)
            /\ Open(cyc.l)' = Open(cyc.l)
        BY <1>1, <3>3 DEF Worth, Held, Open
      <3> QED BY <1>1, <3>1, <3>2, <3>4, <3>5 DEF SettleInv
    <2>3. CASE cyc.pc \notin {"report", "cash", "closing"} BY <1>1, <2>3 DEF SettleInv
    <2> QED BY <2>2, <2>3
  <1>4. EntryInv'
    <2> SUFFICES ASSUME cyc.pc = "entering"
                 PROVE  (IF cyc.l = NoLife THEN NoneOpen
                         ELSE /\ Open(cyc.l)
                              /\ cyc.ok => ~latched /\ (exit[cyc.l] => final > 0))'
      BY <1>1 DEF EntryInv
    <2>1. CASE cyc.l = NoLife
      <3>1. NoneOpen BY <1>0, <2>1 DEF CycleInv, EntryInv
      <3> QED BY <1>1, <1>2, <2>1, <3>1 DEF NoneOpen
    <2>2. CASE cyc.l # NoLife
      <3>1. cyc.l \in Lives /\ Open(cyc.l) BY <1>0, <2>2 DEF CycleInv, EntryInv, Cycles
      <3>2. ASSUME cyc'.ok PROVE ~latched' /\ (exit'[cyc.l] => final' > 0)
        <4>1. ~latched /\ (exit[cyc.l] => final > 0)
          BY <1>0, <1>1, <2>2, <3>2 DEF CycleInv, EntryInv
        <4>2. final \in Int /\ final' \in Int /\ final' >= final BY <1>0 DEF TypeOK
        <4>3. final > 0 => final' > 0 BY <4>2
        <4>4. latched' = latched /\ exit' = exit BY <3>2 DEF Unmoved
        <4> QED BY <4>1, <4>3, <4>4
      <3>3. state' = state BY DEF Unmoved
      <3> QED BY <1>1, <2>2, <3>1, <3>2, <3>3 DEF Open
    <2> QED BY <2>1, <2>2
  <1>5. order' = order /\ (cyc.pc # "idle" => order = NoOrder) BY <1>0 DEF CycleInv, Unmoved
  <1>6. cyc'.pc # "idle" => order' = NoOrder' BY <1>1, <1>5 DEF NoOrder
  <1> QED BY <1>3, <1>4, <1>6 DEF CycleInv

LEMMA FeesSame == ASSUME TypeOK, UNCHANGED fees PROVE FeesGrow
  BY DEF TypeOK, FeesGrow

LEMMA CycleDone ==
  ASSUME cyc'.pc = "idle"
  PROVE  CycleInv'
  BY DEF CycleInv, SettleInv, EntryInv

LEMMA UnmovedInv ==
  ASSUME LifecycleInv, TypeOK', Unmoved, FeesGrow, CycleInv',
         market' => books' > 0, latched' => latched \/ disarmed', disarmed => disarmed'
  PROVE  LifecycleInv'
  <1>1. OrderInv' /\ BookInv' BY UnmovedBooks
  <1>2. LifeInv'
    <2>1. \A l \in Lives : Held(l)' = Held(l) /\ Worth(l)' = Worth(l)
      BY Same DEF Unmoved
    <2>2. UNCHANGED <<state, bought, gone, debit, credit, posted, exit>> BY DEF Unmoved
    <2>3. ASSUME NEW l \in Lives, state[l] = "none" PROVE Unused(l)'
      BY <2>2, <2>3 DEF LifecycleInv, LifeInv, Unused, FeesGrow
    <2>4. ASSUME NEW l \in Lives, state[l] = "CLOSED"
          PROVE  Held(l)' = 0 /\ Worth(l)' - fees'[l] <= posted'[l] /\ posted'[l] <= Worth(l)'
      <3>1. /\ Worth(l) \in Int /\ fees[l] \in Int /\ fees'[l] \in Int /\ posted[l] \in Int
            /\ fees[l] <= fees'[l]
        BY Amounts DEF LifecycleInv, TypeOK, FeesGrow
      <3>2. Held(l) = 0 /\ Worth(l) - fees[l] <= posted[l] /\ posted[l] <= Worth(l)
        BY <2>4 DEF LifecycleInv, LifeInv
      <3> QED BY <2>1, <2>2, <3>1, <3>2
    <2> QED BY <2>2, <2>3, <2>4 DEF LifeInv
  <1>3. LatchInv'
    <2>1. NoneOpen' = NoneOpen BY DEF NoneOpen, Open, Unmoved
    <2> QED BY <2>1 DEF LifecycleInv, LatchInv
  <1>4. SpendInv' BY SpendSame DEF LifecycleInv, Unmoved
  <1> QED BY <1>1, <1>2, <1>3, <1>4 DEF LifecycleInv

\* What a cycle captures at its first await is what the ledger says.
LEMMA SettleQuiet ==
  ASSUME LifecycleInv, TypeOK', NEW l \in Lives,
         SettleStart(l) \/ SettleMatched(l) \/ SettleUnmatched(l) \/ CloseStart(l)
  PROVE  LifecycleInv'
  <1> USE DEF rowVars, totalVars, storeVars, feedVars, worldVars
  <1>0. TypeOK /\ CycleInv /\ SpendInv /\ cyc \in Cycles BY DEF LifecycleInv, TypeOK
  <1>1. UNCHANGED <<rowVars, totalVars, storeVars, latched, snap, feedVars, worldVars>>
    BY DEF SettleStart, SettleMatched, SettleUnmatched, CloseStart
  <1>2. Unmoved /\ UNCHANGED fees /\ latched' = latched /\ disarmed' = disarmed
        /\ (market' => books' > 0)
    BY <1>0, <1>1 DEF Unmoved, SpendInv
  <1>3. CycleInv'
    <2>1. CASE SettleUnmatched(l) BY <2>1, CycleDone, Records DEF SettleUnmatched
    <2>2. CASE SettleMatched(l)
      <3>1. /\ cyc.pc = "report" /\ cyc.l = l /\ Match(l)
            /\ cyc' = [cyc EXCEPT !.pc = "cash"]
        BY <2>2 DEF SettleMatched
      <3>2. cyc'.pc = "cash" /\ cyc'.l = l /\ cyc'.n = cyc.n BY <1>0, <3>1 DEF Cycles
      <3>3. order' = NoOrder' BY <1>0, <1>1, <3>1 DEF CycleInv, NoOrder
      <3>4. SettleInv'
        <4>1. Open(l) /\ cyc.n = Held(l) /\ cyc.n > 0 BY <1>0, <3>1 DEF CycleInv, SettleInv
        <4>2. receipt'[l].lots = cyc.n BY <1>1, <3>1 DEF Match
        <4>3. state' = state /\ bought' = bought /\ gone' = gone BY <1>1
        <4> QED BY <3>2, <4>1, <4>2, <4>3 DEF SettleInv, Open, Held
      <3> QED BY <3>2, <3>3, <3>4 DEF CycleInv, EntryInv
    <2>3. CASE SettleStart(l)
      <3>1. /\ order = NoOrder /\ Open(l) /\ Held(l) > 0
            /\ cyc' = [Idle EXCEPT !.pc = "report", !.l = l, !.n = Held(l)]
        BY <2>3 DEF SettleStart, CanCycle, Pending, Gone
      <3>2. cyc'.pc = "report" /\ cyc'.l = l /\ cyc'.n = Held(l) BY <3>1 DEF Idle
      <3>3. state' = state /\ bought' = bought /\ gone' = gone BY <1>1
      <3>4. SettleInv' BY <3>1, <3>2, <3>3 DEF SettleInv, Open, Held
      <3> QED BY <1>1, <3>1, <3>2, <3>4 DEF CycleInv, EntryInv, NoOrder
    <2>4. CASE CloseStart(l)
      <3>1. /\ order = NoOrder /\ Open(l) /\ Held(l) = 0
            /\ cyc' = [Idle EXCEPT !.pc = "closing", !.l = l, !.n = -Loss(l)]
        BY <2>4 DEF CloseStart, CanCycle, Pending
      <3>2. cyc'.pc = "closing" /\ cyc'.l = l /\ cyc'.n = -Loss(l) BY <3>1 DEF Idle
      <3>3. /\ state' = state /\ bought' = bought /\ gone' = gone /\ debit' = debit
            /\ credit' = credit /\ fees' = fees
        BY <1>1
      <3>4. Worth(l) - fees[l] <= -Loss(l) /\ -Loss(l) <= Worth(l)
        <4>1. Loss(l) = fees[l] - Worth(l) /\ Worth(l) \in Int /\ fees[l] \in Nat
          BY <1>0, Amounts DEF TypeOK
        <4> QED BY <4>1
      <3>5. SettleInv' BY <3>1, <3>2, <3>3, <3>4 DEF SettleInv, Open, Held, Worth
      <3> QED BY <1>1, <3>1, <3>2, <3>5 DEF CycleInv, EntryInv, NoOrder
    <2> QED BY <2>1, <2>2, <2>3, <2>4
  <1> QED BY <1>0, <1>2, <1>3, UnmovedInv, FeesSame

LEMMA EntryQuiet ==
  ASSUME LifecycleInv, TypeOK',
         EntryDropped \/ \E l \in Lives \cup {NoLife} : EntryStart(l)
  PROVE  LifecycleInv'
  <1> USE DEF rowVars, totalVars, storeVars, feedVars, worldVars
  <1>0. TypeOK /\ LatchInv /\ SpendInv BY DEF LifecycleInv
  <1>1. UNCHANGED <<rowVars, totalVars, storeVars, latched, snap, feedVars, worldVars>>
    BY DEF EntryDropped, EntryStart
  <1>2. Unmoved /\ UNCHANGED fees /\ latched' = latched /\ disarmed' = disarmed
        /\ (market' => books' > 0)
    BY <1>0, <1>1 DEF Unmoved, SpendInv
  <1>3. CycleInv'
    <2>1. CASE EntryDropped BY <2>1, CycleDone, Records DEF EntryDropped
    <2>2. ASSUME NEW l \in Lives \cup {NoLife}, EntryStart(l) PROVE CycleInv'
      <3>1. /\ order = NoOrder
            /\ cyc' = [pc |-> "entering", l |-> l, ok |-> TRUE, n |-> 0]
        BY <2>2 DEF EntryStart, CanCycle, Pending
      <3>2. \/ l = NoLife /\ NoneOpen
            \/ l \in Lives /\ Open(l) /\ ((final > 0 /\ ~latched) \/ ~MustExit(l))
        BY <2>2 DEF EntryStart, Managed
      <3>3. l = NoLife \/ (Open(l) /\ ~latched /\ (exit[l] => final > 0))
        BY <3>2 DEF MustExit
      <3>4. l = NoLife => NoneOpen BY <3>2
      <3>5. cyc'.pc = "entering" /\ cyc'.l = l BY <3>1
      <3>6. state' = state /\ exit' = exit /\ final' = final /\ latched' = latched
        BY <1>1
      <3>7. EntryInv' BY <3>3, <3>4, <3>5, <3>6 DEF EntryInv, NoneOpen, Open
      <3>8. SettleInv' BY <3>5 DEF SettleInv
      <3> QED BY <1>1, <3>1, <3>7, <3>8 DEF CycleInv, NoOrder
    <2> QED BY <2>1, <2>2
  <1> QED BY <1>0, <1>2, <1>3, UnmovedInv, FeesSame

\* The account, the broker's statement, the feeds and the clock.
LEMMA OthersQuiet ==
  ASSUME LifecycleInv, TypeOK',
         \/ Age \/ CycleFails \/ (\E l \in Lives : Show(l))
         \/ SignalLost \/ SignalUp \/ MarketLost \/ NewBook \/ Tick \/ OnFinal \/ Crash
  PROVE  LifecycleInv'
  <1> USE DEF rowVars, totalVars, storeVars, feedVars, worldVars
  <1>0. /\ TypeOK /\ final \in Nat /\ books \in Nat
        /\ market => books > 0
        /\ receipt \in [Lives -> Receipts]
    BY DEF LifecycleInv, SpendInv, TypeOK
  <1>k. ASSUME Unmoved, UNCHANGED <<fees, latched>>, disarmed => disarmed', market' => books' > 0,
               \/ cyc' = Idle
               \/ cyc' \in {cyc, [cyc EXCEPT !.ok = FALSE]} /\ final' >= final
        PROVE  LifecycleInv'
    <2>1. CycleInv' BY <1>0, <1>k, CycleDone, CycleKept, Records, FeesSame
    <2> QED BY <1>0, <1>k, <2>1, UnmovedInv, FeesSame
  <1>1. ASSUME Age PROVE LifecycleInv'
    <2>1. Unmoved BY <1>1 DEF Age, Unmoved
    <2> QED BY <1>0, <1>1, <1>k, <2>1 DEF Age
  <1>2. ASSUME CycleFails PROVE LifecycleInv'
    <2>1. Unmoved BY <1>2 DEF CycleFails, Unmoved
    <2> QED BY <1>0, <1>2, <1>k, <2>1 DEF CycleFails, Raised
  <1>3. ASSUME NEW l \in Lives, Show(l) PROVE LifecycleInv'
    <2>1. \A m \in Lives : receipt'[m].lots = receipt[m].lots
      BY <1>0, <1>3 DEF Show, Receipts
    <2>2. Unmoved BY <1>3, <2>1 DEF Show, Unmoved
    <2> QED BY <1>0, <1>3, <1>k, <2>2 DEF Show
  <1>4. ASSUME SignalLost PROVE LifecycleInv'
    <2>1. Unmoved BY <1>4 DEF SignalLost, Unmoved
    <2> QED BY <1>0, <1>4, <1>k, <2>1 DEF SignalLost, StatusChanged
  <1>5. ASSUME SignalUp PROVE LifecycleInv'
    <2>1. Unmoved BY <1>5 DEF SignalUp, Unmoved
    <2> QED BY <1>0, <1>5, <1>k, <2>1 DEF SignalUp, StatusChanged
  <1>6. ASSUME MarketLost PROVE LifecycleInv'
    <2>1. Unmoved BY <1>6 DEF MarketLost, Unmoved
    <2> QED BY <1>0, <1>6, <1>k, <2>1 DEF MarketLost
  <1>7. ASSUME NewBook PROVE LifecycleInv'
    <2>1. Unmoved BY <1>7 DEF NewBook, Unmoved
    <2>2. books' > 0 BY <1>0, <1>7 DEF NewBook
    <2> QED BY <1>0, <1>7, <1>k, <2>1, <2>2 DEF NewBook
  <1>8. ASSUME Tick PROVE LifecycleInv'
    <2>1. Unmoved BY <1>8 DEF Tick, Unmoved
    <2> QED BY <1>0, <1>8, <1>k, <2>1 DEF Tick, StatusChanged
  <1>9. ASSUME OnFinal PROVE LifecycleInv'
    <2>1. Unmoved BY <1>9 DEF OnFinal, Unmoved
    <2>2. cyc' = [cyc EXCEPT !.ok = FALSE] /\ final' = final + 1 /\ fees' = fees
          /\ market' = market /\ books' = books
      BY <1>9 DEF OnFinal, StatusChanged
    <2>3. cyc'.ok = FALSE
      <3>1. cyc \in Cycles BY DEF LifecycleInv, TypeOK
      <3> QED BY <2>2, <3>1 DEF Cycles
    <2>4. CycleInv' BY <1>0, <2>1, <2>2, <2>3, CycleKept, FeesSame
    <2>5. (latched' => latched \/ disarmed') /\ (disarmed => disarmed')
      BY <1>9 DEF OnFinal
    <2> QED BY <1>0, <2>1, <2>2, <2>4, <2>5, UnmovedInv, FeesSame
  <1>10. ASSUME Crash PROVE LifecycleInv'
    <2>1. Unmoved BY <1>10 DEF Crash, Unmoved
    <2>2. CycleInv' BY <1>10, CycleDone, Records DEF Crash, Raised
    <2> QED BY <1>10, <2>1, <2>2, UnmovedInv, FeesSame DEF Crash, LifecycleInv
  <1> QED BY <1>1, <1>2, <1>3, <1>4, <1>5, <1>6, <1>7, <1>8, <1>9, <1>10

LEMMA LateChargeInv ==
  ASSUME LifecycleInv, TypeOK', NEW l \in Lives, LateCharge(l)
  PROVE  LifecycleInv'
  <1> USE DEF rowVars, totalVars, storeVars, feedVars, worldVars
  <1>0. TypeOK /\ SpendInv /\ LifeInv BY DEF LifecycleInv
  <1>1. Unmoved BY DEF LateCharge, Unmoved
  <1>2. FeesGrow
    <2>1. fees \in [Lives -> Nat] /\ bought[l] > 0 /\ fees' = [fees EXCEPT ![l] = @ + 1]
      BY <1>0 DEF TypeOK, LateCharge
    <2>2. state[l] # "none" BY <1>0, <2>1 DEF LifeInv, Unused
    <2> QED BY <2>1, <2>2 DEF FeesGrow
  <1>3. CycleInv'
    <2>1. cyc' = cyc /\ final' = final /\ latched' = latched BY DEF LateCharge
    <2>2. final' >= final BY <1>0, <2>1 DEF TypeOK
    <2> QED BY <1>1, <1>2, <2>1, <2>2, CycleKept
  <1>4. (market' => books' > 0) /\ latched' = latched /\ disarmed' = disarmed
    BY <1>0 DEF LateCharge, SpendInv
  <1> QED BY <1>1, <1>2, <1>3, <1>4, UnmovedInv

----------------------------------------------------------------------------
(* Steps of the cycle *)

LEMMA Unordered ==
  ASSUME order' = NoOrder
  PROVE  OrderInv'
  <1>1. /\ NoOrder.st = "none" /\ NoOrder.filled = 0 /\ NoOrder.lots = 0
        /\ NoOrder.side = "BUY" /\ NoOrder.cash = 0
    BY DEF NoOrder
  <1>2. 0 <= 0 * Price OBVIOUS
  <1>3. order'.st = "none" => order' = NoOrder' BY DEF NoOrder
  <1> QED BY <1>1, <1>2, <1>3 DEF OrderInv

LEMMA SettleRecordInv ==
  ASSUME LifecycleInv, TypeOK', NEW l \in Lives, SettleRecord(l)
  PROVE  LifecycleInv'
  <1> USE DEF rowVars, totalVars, storeVars, feedVars, worldVars
  <1>0. TypeOK /\ CycleInv /\ BookInv /\ LifeInv BY DEF LifecycleInv
  <1> DEFINE n == cyc.n
  <1>1. /\ cyc.pc = "cash" /\ cyc.l = l
        /\ gone' = [gone EXCEPT ![l] = @ + n]
        /\ credit' = [credit EXCEPT ![l] = @ + n * Exercise]
        /\ cyc' = [cyc EXCEPT !.pc = "closing", !.n = -Loss(l) + n * Exercise]
        /\ UNCHANGED <<rowVars, bought, debit, fees, storeVars, latched, snap, feedVars, worldVars>>
    BY DEF SettleRecord
  <1>2. /\ Open(l) /\ n = Held(l) /\ n > 0 /\ receipt[l].lots = n /\ order = NoOrder
    BY <1>0, <1>1 DEF CycleInv, SettleInv
  <1>3. /\ n \in Nat /\ Held(l) \in Nat /\ Worth(l) \in Int /\ fees[l] \in Nat
        /\ Loss(l) = fees[l] - Worth(l) /\ Loss(l) \in Int
    BY <1>0, <1>2, Amounts DEF TypeOK
  <1> HIDE DEF n
  <1>4. n * Exercise \in Nat BY <1>3
  <1>5. /\ Held(l)' = Held(l) - n /\ Worth(l)' = Worth(l) + n * Exercise
        /\ \A m \in Lives \ {l} : Held(m)' = Held(m) /\ Worth(m)' = Worth(m)
    <2>1. /\ bought[l] \in Nat /\ gone \in [Lives -> Nat] /\ debit[l] \in Nat
          /\ credit \in [Lives -> Nat]
      BY <1>0 DEF TypeOK
    <2> QED BY <1>1, <1>3, <1>4, <2>1 DEF Held, Worth
  <1>6. \A m \in Lives : /\ Unbooked(m) = 0 /\ Unbooked(m)' = 0 /\ Due(m) = 0 /\ Due(m)' = 0
    BY <1>1, <1>2 DEF Unbooked, Due, Ended, NoOrder
  <1>7. OrderInv' BY <1>1, <1>2, Unordered
  <1>8. LifeInv'
    <2>1. ASSUME NEW m \in Lives, state[m] = "none" PROVE Unused(m)'
      <3>1. m # l BY <1>2, <2>1 DEF Open
      <3>2. gone \in [Lives -> Nat] /\ credit \in [Lives -> Nat] BY <1>0 DEF TypeOK
      <3> QED BY <1>0, <1>1, <2>1, <3>1, <3>2 DEF LifeInv, Unused
    <2>2. ASSUME NEW m \in Lives, state[m] = "CLOSED"
          PROVE  Held(m)' = 0 /\ Worth(m)' - fees'[m] <= posted'[m] /\ posted'[m] <= Worth(m)'
      <3>1. m # l BY <1>2, <2>2 DEF Open
      <3> QED BY <1>0, <1>1, <1>5, <2>2, <3>1 DEF LifeInv
    <2> QED BY <1>1, <2>1, <2>2 DEF LifeInv
  <1>9. LatchInv' BY <1>1 DEF LifecycleInv, LatchInv, NoneOpen, Open
  <1>10. BookInv'
    <2> SUFFICES ASSUME NEW m \in Lives
                 PROVE  /\ Cleared(m)' => clock' = "expired" /\ order'.st # "live" /\ hold'[m] = 0
                        /\ \/ /\ ~Cleared(m)'
                              /\ hold'[m] = Held(m)' + Unbooked(m)'
                              /\ flow'[m] = Worth(m)' + Due(m)'
                           \/ /\ Cleared(m)'
                              /\ receipt'[m].lots = Held(m)' + Unbooked(m)'
                              /\ flow'[m] = Worth(m)' + Due(m)' + receipt'[m].lots * Exercise
                           \/ /\ Cleared(m)'
                              /\ Held(m)' + Unbooked(m)' = 0
                              /\ flow'[m] = Worth(m)' + Due(m)'
      BY DEF BookInv
    <2>1. Cleared(m)' = Cleared(m) BY <1>1 DEF Cleared
    <2>2. CASE m # l BY <1>0, <1>1, <1>5, <1>6, <2>1, <2>2 DEF BookInv
    <2>3. CASE m = l
      <3>1. Cleared(l) BY <1>2 DEF Cleared
      <3>2. flow[l] = Worth(l) + n * Exercise
        <4>1. Held(l) + Unbooked(l) = Held(l) BY <1>3, <1>6
        <4>2. Worth(l) + Due(l) = Worth(l) BY <1>3, <1>6
        <4> QED BY <1>0, <1>2, <3>1, <4>1, <4>2 DEF BookInv
      <3>3. Held(l)' = 0 BY <1>2, <1>3, <1>5
      <3>4. Held(l)' + Unbooked(l)' = 0 /\ Worth(l)' + Due(l)' = Worth(l) + n * Exercise
        BY <1>3, <1>4, <1>5, <1>6, <3>3
      <3> QED BY <1>0, <1>1, <2>1, <2>3, <3>1, <3>2, <3>4 DEF BookInv
    <2> QED BY <2>2, <2>3
  <1>11. CycleInv'
    <2>1. cyc'.pc = "closing" /\ cyc'.l = l /\ cyc'.n = -Loss(l) + n * Exercise
      BY <1>0, <1>1 DEF TypeOK, Cycles
    <2>2. Worth(l)' - fees'[l] <= cyc'.n /\ cyc'.n <= Worth(l)'
      BY <1>1, <1>3, <1>4, <1>5, <2>1
    <2>3. Held(l)' = 0 /\ Open(l)' BY <1>1, <1>2, <1>3, <1>5 DEF Open
    <2>4. SettleInv' BY <2>1, <2>2, <2>3 DEF SettleInv, Held, Worth, Open
    <2> QED BY <1>1, <1>2, <2>1, <2>4 DEF CycleInv, EntryInv, NoOrder
  <1>12. SpendInv' BY <1>1, SpendSame DEF LifecycleInv, SpendInv
  <1> QED BY <1>7, <1>8, <1>9, <1>10, <1>11, <1>12 DEF LifecycleInv

LEMMA CloseInv ==
  ASSUME LifecycleInv, TypeOK', NEW l \in Lives, Close(l)
  PROVE  LifecycleInv'
  <1> USE DEF rowVars, totalVars, storeVars, feedVars, worldVars
  <1>0. TypeOK /\ CycleInv /\ BookInv /\ LifeInv BY DEF LifecycleInv
  <1>1. /\ cyc.pc = "closing" /\ cyc.l = l
        /\ posted' = [posted EXCEPT ![l] = cyc.n]
        /\ state' = [state EXCEPT ![l] = "CLOSED"]
        /\ latched' = FALSE /\ cyc' = Idle
        /\ UNCHANGED <<bankroll, totalVars, storeVars, snap, feedVars, worldVars>>
    BY DEF Close
  <1>2. /\ order = NoOrder /\ Held(l) = 0
        /\ Worth(l) - fees[l] <= cyc.n /\ cyc.n <= Worth(l)
    BY <1>0, <1>1 DEF CycleInv, SettleInv
  <1>3. OrderInv' BY <1>1, <1>2, Unordered
  <1>4. LifeInv'
    <2>1. \A m \in Lives : Held(m)' = Held(m) /\ Worth(m)' = Worth(m)
      BY <1>1, Same
    <2>2. state \in [Lives -> {"none", "OPEN", "CLOSED"}] /\ posted \in [Lives -> Int]
      BY <1>0 DEF TypeOK
    <2>3. ASSUME NEW m \in Lives, m # l
          PROVE  state'[m] = state[m] /\ posted'[m] = posted[m]
      BY <1>1, <2>2, <2>3
    <2>4. state'[l] = "CLOSED" /\ posted'[l] = cyc.n BY <1>1, <2>2
    <2>5. ASSUME NEW m \in Lives, state'[m] = "none" PROVE Unused(m)'
      BY <1>0, <1>1, <2>3, <2>4, <2>5 DEF LifeInv, Unused
    <2>6. ASSUME NEW m \in Lives, state'[m] = "CLOSED"
          PROVE  Held(m)' = 0 /\ Worth(m)' - fees'[m] <= posted'[m] /\ posted'[m] <= Worth(m)'
      <3>1. fees' = fees BY <1>1
      <3>2. CASE m = l BY <1>2, <2>1, <2>4, <3>1, <3>2
      <3>3. CASE m # l BY <1>0, <2>1, <2>3, <2>6, <3>1, <3>3 DEF LifeInv
      <3> QED BY <3>2, <3>3
    <2> QED BY <2>5, <2>6 DEF LifeInv
  <1>5. LatchInv' BY <1>1 DEF LatchInv
  <1>6. BookInv' BY <1>0, <1>1, BooksSame
  <1>7. CycleInv' BY <1>1, CycleDone, Records
  <1>8. SpendInv' BY <1>1, SpendSame DEF LifecycleInv, SpendInv
  <1> QED BY <1>3, <1>4, <1>5, <1>6, <1>7, <1>8 DEF LifecycleInv

\* A sale, or the failure of its call, with or without the latch.
LEMMA SellInv ==
  ASSUME LifecycleInv, TypeOK', NEW l \in Lives, NEW n \in Nat, n <= Held(l),
         Managed(l), Sell(l, n),
         exit' \in {exit, [exit EXCEPT ![l] = TRUE]}, latched' \in {latched, TRUE},
         UNCHANGED <<rowVars, totalVars, debits, final, disarmed, feedVars, clock,
                     hold, flow, receipt, sent>>
  PROVE  LifecycleInv'
  <1> USE DEF rowVars, totalVars, feedVars
  <1>0. TypeOK /\ BookInv /\ LifeInv /\ SpendInv BY DEF LifecycleInv
  <1>1. order = NoOrder /\ cyc = Idle /\ Open(l) /\ clock # "expired"
    BY DEF Managed, CanCycle, Pending
  <1>2. cyc' = Idle /\ order' \in {order, Selling(l, n)}
    BY <1>1 DEF Sell, Posted, Raised
  <1>3. /\ Selling(l, n).st = "live" /\ Selling(l, n).l = l /\ Selling(l, n).side = "SELL"
        /\ Selling(l, n).lots = n /\ Selling(l, n).filled = 0
    BY DEF Selling, NoOrder
  <1>4. \A m \in Lives : Held(m)' = Held(m) /\ Worth(m)' = Worth(m) BY DEF Held, Worth
  <1>5. OrderInv'
    <2>1. CASE order' = order BY <1>1, <2>1, Unordered
    <2>2. CASE order' = Selling(l, n)
      <3>1. state' = state /\ bought' = bought /\ gone' = gone OBVIOUS
      <3> QED BY <1>1, <1>3, <2>2, <3>1 DEF OrderInv, Open, Held
    <2> QED BY <1>2, <2>1, <2>2
  <1>6. LifeInv'
    <2>1. ASSUME NEW m \in Lives, state[m] = "none" PROVE Unused(m)'
      <3>1. m # l BY <1>1, <2>1 DEF Open
      <3>2. exit'[m] = exit[m] BY <1>0, <3>1 DEF TypeOK
      <3> QED BY <1>0, <2>1, <3>2 DEF LifeInv, Unused
    <2> QED BY <1>0, <1>4, <2>1 DEF LifeInv
  <1>7. LatchInv' BY <1>1 DEF LatchInv, NoneOpen, Open
  <1>8. BookInv'
    <2>1. \A m \in Lives : ~Cleared(m) BY <1>0, <1>1 DEF BookInv
    <2>2. \A m \in Lives : ~Cleared(m)' BY <2>1 DEF Cleared
    <2>3. \A m \in Lives : /\ Unbooked(m) = 0 /\ Unbooked(m)' = 0 /\ Due(m) = 0 /\ Due(m)' = 0
      BY <1>1, <1>2, <1>3 DEF Unbooked, Due, Ended, NoOrder
    <2>4. \A m \in Lives : hold[m] = Held(m) + Unbooked(m) /\ flow[m] = Worth(m) + Due(m)
      BY <1>0, <2>1 DEF BookInv
    <2> QED BY <1>4, <2>2, <2>3, <2>4 DEF BookInv
  <1>9. CycleInv' BY <1>2, CycleDone, Records
  <1>10. SpendInv'
    <2>1. \A m \in Lives : Reserved(m)' = Reserved(m)
      BY <1>1, <1>2, <1>3 DEF Reserved, NoOrder
    <2>2. [m \in Lives |-> debit[m] + Reserved(m)]' = [m \in Lives |-> debit[m] + Reserved(m)]
      BY <2>1
    <2>3. SumFunctionOnSet([m \in Lives |-> debit[m] + Reserved(m)], Lives)'
            = SumFunctionOnSet([m \in Lives |-> debit[m] + Reserved(m)], Lives)
      BY <2>2
    <2>4. \A m \in Lives : (debit[m] + Reserved(m) <= Ceiling(bankroll[m]))'
      BY <1>0, <2>1 DEF SpendInv, Ceiling
    <2>5. (\A b \in Books : sent[b] <= debits[b])' /\ (market => books > 0)'
      BY <1>0 DEF SpendInv
    <2> QED BY <1>0, <2>3, <2>4, <2>5 DEF SpendInv
  <1> QED BY <1>5, <1>6, <1>7, <1>8, <1>9, <1>10 DEF LifecycleInv

LEMMA ExitInv ==
  ASSUME LifecycleInv, TypeOK', ExitNext
  PROVE  LifecycleInv'
  <1> USE DEF rowVars, totalVars, storeVars, feedVars, worldVars
  <1>0. TypeOK BY DEF LifecycleInv
  <1>1. ASSUME NEW l \in Lives, SellSlice(l) PROVE LifecycleInv'
    <2>1. PICK n \in 1..Min({Held(l), Child}) : Sell(l, n) BY <1>1 DEF SellSlice
    <2>2. Held(l) \in Nat BY <1>0, Amounts
    <2>3. n \in Nat /\ n <= Held(l) BY <1>0, <2>2, ChildType
    <2>4. Managed(l) BY <1>1 DEF SellSlice
    <2>5. exit' \in {exit, [exit EXCEPT ![l] = TRUE]} /\ latched' \in {latched, TRUE}
      BY <1>1 DEF SellSlice
    <2>6. UNCHANGED <<rowVars, totalVars, debits, final, disarmed, feedVars, clock,
                      hold, flow, receipt, sent>>
      BY <1>1 DEF SellSlice
    <2> QED BY <2>1, <2>3, <2>4, <2>5, <2>6, SellInv
  <1>2. ASSUME NEW l \in Lives, Exit(l) PROVE LifecycleInv'
    <2>1. /\ Managed(l) /\ Sell(l, Min({Held(l), Child}))
          /\ exit' = [exit EXCEPT ![l] = TRUE] /\ latched' = TRUE
          /\ UNCHANGED <<rowVars, totalVars, debits, final, disarmed, feedVars, clock,
                         hold, flow, receipt, sent>>
      BY <1>2 DEF Exit, ExitAllowed
    <2>2. Min({Held(l), Child}) \in Nat /\ Min({Held(l), Child}) <= Held(l)
      BY <1>0, ChildType
    <2> QED BY <2>1, <2>2, SellInv
  <1> QED BY <1>1, <1>2 DEF ExitNext

LEMMA EnterInv ==
  ASSUME LifecycleInv, TypeOK', NEW l \in Lives, Enter(l)
  PROVE  LifecycleInv'
  <1>0. TypeOK /\ BookInv /\ LifeInv /\ SpendInv BY DEF LifecycleInv
  <1>1. PICK n \in Nat \ {0}, b \in Nat, cash \in CashLevels :
              /\ n <= Depth - debits[books]
              /\ b = IF Open(l) THEN bankroll[l] ELSE Bankroll(cash)
              /\ Permits(l, b, cash, n)
              /\ bankroll' = [bankroll EXCEPT ![l] = b]
              /\ debits' = [debits EXCEPT ![books] = @ + n]
              /\ \/ /\ order' = Buying(l, n) /\ InWindow /\ snap' = Stale
                    /\ sent' = [sent EXCEPT ![books] = @ + n]
                    /\ UNCHANGED faults
                 \/ /\ UNCHANGED <<order, sent>> /\ snap' = Stale
                    /\ faults' \in {faults, faults + 1} /\ faults' <= MaxFaults
    BY EnterDecides
  <1>2. /\ books \in Books /\ order = NoOrder /\ cyc' = Idle
        /\ state' = [state EXCEPT ![l] = "OPEN"]
    BY EnterDecides
  <1>3. UNCHANGED <<posted, bought, gone, debit, credit, fees, exit, final, disarmed, latched,
                    up, market, books, clock, hold, flow, receipt>>
    BY DEF Enter, totalVars, feedVars
  <1>4. /\ Buying(l, n).st = "live" /\ Buying(l, n).l = l /\ Buying(l, n).side = "BUY"
        /\ Buying(l, n).lots = n /\ Buying(l, n).filled = 0 /\ Buying(l, n).cash = 0
    BY DEF Buying, NoOrder
  <1>5. /\ Open(l)'
        /\ \A m \in Lives \ {l} : state'[m] = state[m]
    BY <1>0, <1>2 DEF TypeOK, Open
  <1>6. n * Price \in Nat /\ n > 0 OBVIOUS
  <1>7. OrderInv'
    <2>1. CASE order' = order BY <1>2, <2>1, Unordered
    <2>2. CASE order' = Buying(l, n)
      <3>1. state'[l] = "OPEN" BY <1>5 DEF Open
      <3>2. 0 <= n * Price BY <1>6
      <3> QED BY <1>4, <2>2, <3>1, <3>2 DEF OrderInv, Open
    <2> QED BY <1>1, <2>1, <2>2
  <1>8. LifeInv'
    <2>1. \A m \in Lives : Held(m)' = Held(m) /\ Worth(m)' = Worth(m)
      BY <1>3 DEF Held, Worth
    <2>2. ASSUME NEW m \in Lives, m # l
          PROVE  /\ state'[m] = "none" => Unused(m)'
                 /\ state'[m] = "CLOSED" =>
                      Held(m)' = 0 /\ Worth(m)' - fees'[m] <= posted'[m] /\ posted'[m] <= Worth(m)'
      BY <1>0, <1>3, <1>5, <2>1, <2>2 DEF LifeInv, Unused
    <2>3. state'[l] = "OPEN" BY <1>5 DEF Open
    <2> QED BY <2>2, <2>3 DEF LifeInv
  <1>9. LatchInv' BY <1>5 DEF LatchInv, NoneOpen
  <1>10. BookInv'
    <2>1. \A m \in Lives : /\ Held(m)' = Held(m) /\ Worth(m)' = Worth(m) /\ Cleared(m)' = Cleared(m)
      BY <1>3 DEF Held, Worth, Cleared
    <2>2. \A m \in Lives : /\ Unbooked(m) = 0 /\ Unbooked(m)' = 0 /\ Due(m) = 0 /\ Due(m)' = 0
      BY <1>1, <1>2, <1>4 DEF Unbooked, Due, Ended, NoOrder
    <2>3. order' = order \/ \A m \in Lives : ~Cleared(m)
      BY <1>0, <1>1 DEF BookInv, InWindow
    <2>4. ASSUME NEW m \in Lives, Cleared(m) PROVE order'.st # "live"
      BY <1>0, <2>3, <2>4 DEF BookInv
    <2> QED BY <1>0, <1>3, <2>1, <2>2, <2>4 DEF BookInv
  <1>11. CycleInv' BY <1>2, CycleDone, Records
  <1>12. SpendInv'
    <2> DEFINE F == [m \in Lives |-> debit[m] + Reserved(m)]
               G == [m \in Lives |-> Spent(m)]
               H == [m \in Lives |-> debit'[m] + Reserved(m)']
    <2>1. /\ \A m \in Lives : Reserved(m) = 0 /\ debit[m] \in Nat /\ Spent(m) \in Nat
          /\ \A m \in Lives \ {l} : Reserved(m)' = 0
          /\ Reserved(l)' \in {0, n * Price}
      <3>1. \A m \in Lives : Reserved(m) = 0 BY <1>2 DEF Reserved, NoOrder
      <3>2. ASSUME NEW m \in Lives PROVE Reserved(m)' = 0 \/ (m = l /\ Reserved(m)' = n * Price)
        BY <1>1, <1>2, <1>4 DEF Reserved, NoOrder
      <3> QED BY <1>0, <3>1, <3>2, Amounts DEF TypeOK
    <2>2. n * Price <= Ceiling(b) - Spent(l) /\ n * Price <= CapRemaining
      BY <1>0, <1>1, PermitsBound
    <2>3. Reserved(l)' \in Nat /\ Reserved(l)' <= n * Price BY <1>6, <2>1
    <2>4. ASSUME NEW m \in Lives
          PROVE  debit'[m] + Reserved(m)' <= Ceiling(bankroll'[m])
      <3>1. CASE m = l
        <4>1. bankroll'[l] = b BY <1>0, <1>1 DEF TypeOK
        <4>2. Ceiling(b) \in Nat BY CeilingBound
        <4>3. debit[l] \in Nat /\ Spent(l) \in Nat /\ debit[l] <= Spent(l)
          <5>1. debit[l] + Reserved(l) <= Spent(l) BY <1>0, Amounts
          <5> QED BY <2>1, <5>1
        <4> QED BY <1>3, <1>6, <2>2, <2>3, <3>1, <4>1, <4>2, <4>3
      <3>2. CASE m # l
        <4>1. bankroll'[m] = bankroll[m] BY <1>0, <1>1, <3>2 DEF TypeOK
        <4> QED BY <1>0, <1>3, <2>1, <3>2, <4>1 DEF SpendInv
      <3> QED BY <3>1, <3>2
    <2>5. SumFunctionOnSet([m \in Lives |-> debit'[m] + Reserved(m)'], Lives) <= DebitCap
      <3>1. /\ IntOn(F, Lives) /\ IntOn(G, Lives) /\ \A m \in Lives : F[m] <= G[m]
        BY <1>0, <2>1, Amounts DEF IntOn
      <3>2. SumFunctionOnSet(F, Lives) <= SumFunctionOnSet(G, Lives) BY <3>1, SumMonotonic
      <3>3. /\ IntOn(H, Lives) /\ \A m \in Lives \ {l} : H[m] = F[m]
            /\ H[l] = F[l] + Reserved(l)' /\ F[l] \in Int /\ H[l] \in Int
        BY <1>3, <2>1, <2>3 DEF IntOn
      <3>4. SumFunctionOnSet(H, Lives) = SumFunctionOnSet(F, Lives) + H[l] - F[l]
        <4> HIDE DEF F, H
        <4> QED BY <3>1, <3>3, SumUpdate
      <3>5. SumFunctionOnSet(F, Lives) \in Int /\ SumFunctionOnSet(G, Lives) \in Int
        BY <3>1, SumType
      <3>6. n * Price <= DebitCap - SumFunctionOnSet(G, Lives) BY <2>2 DEF CapRemaining
      <3> HIDE DEF F, G, H
      <3>7. SumFunctionOnSet(H, Lives) <= DebitCap BY <1>6, <2>3, <3>2, <3>3, <3>4, <3>5, <3>6
      <3> QED BY <3>7 DEF H
    <2>6. ASSUME NEW d \in Books PROVE sent'[d] <= debits'[d]
      BY <1>0, <1>1, <1>2, <1>6 DEF SpendInv, TypeOK
    <2>7. (\A m \in Lives : debit[m] + Reserved(m) <= Ceiling(bankroll[m]))'
      BY <2>4 DEF Ceiling
    <2>8. (SumFunctionOnSet([m \in Lives |-> debit[m] + Reserved(m)], Lives) <= DebitCap)'
      BY <2>5
    <2> QED BY <1>0, <1>3, <2>6, <2>7, <2>8 DEF SpendInv
  <1> QED BY <1>7, <1>8, <1>9, <1>10, <1>11, <1>12 DEF LifecycleInv

----------------------------------------------------------------------------
(* Steps of the account and the broker *)

\* While an order is pending the cycle is idle.
LEMMA PendingIdle ==
  ASSUME LifecycleInv, order.st # "none"
  PROVE  cyc.pc = "idle"
  BY DEF LifecycleInv, CycleInv, NoOrder

\* Resolving an order that ended puts its fills into the ledger.
LEMMA Resolves ==
  ASSUME LifecycleInv, Refresh, order.st = "ended"
  PROVE  /\ \A l \in Lives : /\ Held(l)' = Held(l) + Unbooked(l)
                             /\ Worth(l)' = Worth(l) + Due(l)
                             /\ debit'[l] <= debit[l] + Reserved(l)
                             /\ Unbooked(l) \in Int /\ Due(l) \in Int
         /\ \A l \in Lives : l # order.l => UNCHANGED <<bought[l], gone[l], debit[l], credit[l]>>
  <1>0. TypeOK /\ order \in Orders /\ OrderInv BY DEF LifecycleInv, TypeOK
  <1>1. /\ order.l \in Lives /\ order.filled \in Nat /\ order.cash \in Nat
        /\ order.lots \in Nat /\ order.side \in {"BUY", "SELL"}
        /\ order.side = "BUY" => order.cash <= order.lots * Price
    BY <1>0 DEF OrderInv, Orders
  <1>2. /\ bought \in [Lives -> Nat] /\ gone \in [Lives -> Nat]
        /\ debit \in [Lives -> Nat] /\ credit \in [Lives -> Nat]
    BY <1>0 DEF TypeOK
  <1>3. \A l \in Lives : l # order.l => Unbooked(l) = 0 /\ Due(l) = 0 /\ Reserved(l) = 0
    BY DEF Unbooked, Due, Ended, Reserved
  <1>4. CASE order.side = "BUY"
    <2>1. /\ bought' = [bought EXCEPT ![order.l] = @ + order.filled]
          /\ debit' = [debit EXCEPT ![order.l] = @ + order.cash]
          /\ gone' = gone /\ credit' = credit
      BY <1>4 DEF Refresh
    <2>2. \A l \in Lives : l = order.l => /\ Unbooked(l) = order.filled /\ Due(l) = -order.cash
                                         /\ Reserved(l) = order.lots * Price
      BY <1>4 DEF Unbooked, Due, Ended, Reserved
    <2> QED BY <1>1, <1>2, <1>3, <1>4, <2>1, <2>2 DEF Held, Worth
  <1>5. CASE order.side = "SELL"
    <2>1. /\ gone' = [gone EXCEPT ![order.l] = @ + order.filled]
          /\ credit' = [credit EXCEPT ![order.l] = @ + order.cash]
          /\ bought' = bought /\ debit' = debit
      BY <1>5 DEF Refresh
    <2>2. \A l \in Lives : l = order.l => /\ Unbooked(l) = -order.filled /\ Due(l) = order.cash
                                         /\ Reserved(l) = 0
      BY <1>5 DEF Unbooked, Due, Ended, Reserved
    <2> QED BY <1>1, <1>2, <1>3, <2>1, <2>2 DEF Held, Worth
  <1> QED BY <1>1, <1>4, <1>5

LEMMA RefreshInv ==
  ASSUME LifecycleInv, TypeOK', Refresh
  PROVE  LifecycleInv'
  <1> USE DEF rowVars, totalVars, storeVars, feedVars, worldVars
  <1>0. TypeOK /\ BookInv /\ LifeInv /\ SpendInv /\ OrderInv BY DEF LifecycleInv
  <1>1. UNCHANGED <<rowVars, fees, storeVars, cyc, latched, feedVars, clock, hold, flow, receipt, sent>>
    BY DEF Refresh
  <1>2. CASE order.st # "ended"
    <2>1. UNCHANGED <<bought, gone, debit, credit, order>> BY <1>2 DEF Refresh
    <2>2. Unmoved BY <1>1, <2>1 DEF Unmoved
    <2>3. final' >= final BY <1>0, <1>1 DEF TypeOK
    <2>4. FeesGrow BY <1>0, <1>1, FeesSame
    <2>5. CycleInv' BY <1>1, <2>2, <2>3, <2>4, CycleKept
    <2> QED BY <1>0, <1>1, <2>2, <2>4, <2>5, UnmovedInv DEF SpendInv
  <1>3. CASE order.st = "ended"
    <2>0. order.l \in Lives /\ Open(order.l) /\ order' = NoOrder
      BY <1>0, <1>3 DEF OrderInv, Refresh
    <2>1. \A l \in Lives : /\ Held(l)' = Held(l) + Unbooked(l) /\ Worth(l)' = Worth(l) + Due(l)
                          /\ debit'[l] <= debit[l] + Reserved(l)
      BY <1>3, Resolves
    <2>2. \A l \in Lives : l # order.l => UNCHANGED <<bought[l], gone[l], debit[l], credit[l]>>
      BY <1>3, Resolves
    <2>3. OrderInv' BY <2>0, Unordered
    <2>4. LifeInv'
      <3>1. ASSUME NEW l \in Lives, state[l] # "OPEN"
            PROVE  /\ UNCHANGED <<bought[l], gone[l], debit[l], credit[l]>>
                   /\ Held(l)' = Held(l) /\ Worth(l)' = Worth(l)
        BY <2>0, <2>2, <3>1 DEF Open, Held, Worth
      <3>2. ASSUME NEW l \in Lives, state[l] = "none" PROVE Unused(l)'
        BY <1>0, <1>1, <3>1, <3>2 DEF LifeInv, Unused
      <3>3. ASSUME NEW l \in Lives, state[l] = "CLOSED"
            PROVE  Held(l)' = 0 /\ Worth(l)' - fees'[l] <= posted'[l] /\ posted'[l] <= Worth(l)'
        BY <1>0, <1>1, <3>1, <3>3 DEF LifeInv
      <3> QED BY <1>1, <3>2, <3>3 DEF LifeInv
    <2>5. LatchInv' BY <1>1 DEF LifecycleInv, LatchInv, NoneOpen, Open
    <2>6. BookInv'
      <3> SUFFICES ASSUME NEW l \in Lives
                   PROVE  /\ Cleared(l)' => clock' = "expired" /\ order'.st # "live" /\ hold'[l] = 0
                          /\ \/ /\ ~Cleared(l)'
                                /\ hold'[l] = Held(l)' + Unbooked(l)'
                                /\ flow'[l] = Worth(l)' + Due(l)'
                             \/ /\ Cleared(l)'
                                /\ receipt'[l].lots = Held(l)' + Unbooked(l)'
                                /\ flow'[l] = Worth(l)' + Due(l)' + receipt'[l].lots * Exercise
                             \/ /\ Cleared(l)'
                                /\ Held(l)' + Unbooked(l)' = 0
                                /\ flow'[l] = Worth(l)' + Due(l)'
        BY DEF BookInv
      <3>1. Cleared(l)' = Cleared(l) BY <1>1 DEF Cleared
      <3>2. Unbooked(l)' = 0 /\ Due(l)' = 0 /\ order'.st # "live"
        BY <2>0 DEF Unbooked, Due, Ended, NoOrder
      <3>3. /\ Held(l)' + Unbooked(l)' = Held(l) + Unbooked(l)
            /\ Worth(l)' + Due(l)' = Worth(l) + Due(l)
        <4>1. /\ Held(l) \in Int /\ Unbooked(l) \in Int /\ Worth(l) \in Int /\ Due(l) \in Int
          BY <1>0, <1>3, Amounts, Resolves
        <4> QED BY <2>1, <3>2, <4>1
      <3> QED BY <1>0, <1>1, <3>1, <3>2, <3>3 DEF BookInv
    <2>7. CycleInv' BY <1>1, <1>3, PendingIdle, CycleDone
    <2>8. SpendInv'
      <3> DEFINE F == [l \in Lives |-> debit[l] + Reserved(l)]
                 H == [l \in Lives |-> debit'[l] + Reserved(l)']
      <3>1. \A l \in Lives : Reserved(l)' = 0 BY <2>0 DEF Reserved, NoOrder
      <3>2. \A l \in Lives : /\ debit[l] + Reserved(l) \in Nat /\ debit'[l] \in Nat
        BY <1>0, Amounts DEF TypeOK
      <3>3. \A l \in Lives : debit'[l] + Reserved(l)' = debit'[l] BY <3>1, <3>2
      <3>4. \A l \in Lives : debit'[l] + Reserved(l)' <= debit[l] + Reserved(l)
        BY <2>1, <3>3
      <3>5. SumFunctionOnSet(H, Lives) <= SumFunctionOnSet(F, Lives)
        <4>1. /\ IntOn(F, Lives) /\ IntOn(H, Lives) /\ \A l \in Lives : H[l] <= F[l]
          BY <3>2, <3>3, <3>4 DEF IntOn
        <4> HIDE DEF F, H
        <4> QED BY <4>1, SumMonotonic
      <3>6. SumFunctionOnSet(H, Lives) <= DebitCap
        <4>1. IntOn(F, Lives) /\ IntOn(H, Lives) BY <3>2, <3>3 DEF IntOn
        <4>2. SumFunctionOnSet(F, Lives) \in Int /\ SumFunctionOnSet(H, Lives) \in Int
          BY <4>1, SumType
        <4>3. SumFunctionOnSet(F, Lives) <= DebitCap BY <1>0 DEF SpendInv
        <4> HIDE DEF F, H
        <4> QED BY <3>5, <4>2, <4>3
      <3>7. ASSUME NEW l \in Lives PROVE debit'[l] + Reserved(l)' <= Ceiling(bankroll'[l])
        <4>1. debit[l] + Reserved(l) <= Ceiling(bankroll[l]) BY <1>0 DEF SpendInv
        <4>2. Ceiling(bankroll[l]) \in Nat BY <1>0, CeilingBound DEF TypeOK
        <4> QED BY <1>1, <3>2, <3>3, <3>4, <4>1, <4>2
      <3>8. (\A l \in Lives : debit[l] + Reserved(l) <= Ceiling(bankroll[l]))'
        BY <3>7 DEF Ceiling
      <3>9. (SumFunctionOnSet([l \in Lives |-> debit[l] + Reserved(l)], Lives) <= DebitCap)'
        BY <3>6
      <3> QED BY <1>0, <1>1, <3>8, <3>9 DEF SpendInv
    <2> QED BY <2>3, <2>4, <2>5, <2>6, <2>7, <2>8 DEF LifecycleInv
  <1> QED BY <1>2, <1>3

\* An order that changes at the broker changes neither the ledger nor what is
\* reserved for it.
LEMMA OrderMoves ==
  ASSUME LifecycleInv, order.st # "none", order'.st # "none",
         order'.l = order.l, order'.side = order.side, order'.lots = order.lots,
         order'.filled <= order.lots, order.side = "BUY" => order'.cash <= order.lots * Price,
         UNCHANGED <<rowVars, totalVars, storeVars, cyc, latched, snap, feedVars, clock, receipt, sent>>
  PROVE  OrderInv' /\ LifeInv' /\ LatchInv' /\ CycleInv' /\ SpendInv'
  <1> USE DEF rowVars, totalVars, storeVars, feedVars
  <1>1. OrderInv'
    <2>1. OrderInv BY DEF LifecycleInv
    <2>2. state' = state /\ bought' = bought /\ gone' = gone OBVIOUS
    <2> QED BY <2>1, <2>2 DEF OrderInv, Open, Held
  <1>2. LifeInv' /\ LatchInv'
    BY DEF LifecycleInv, LifeInv, LatchInv, Unused, Held, Worth, NoneOpen, Open
  <1>3. CycleInv' BY PendingIdle, CycleDone
  <1>4. SpendInv'
    <2>1. \A m \in Lives : Reserved(m)' = Reserved(m) BY DEF Reserved
    <2>2. [m \in Lives |-> debit[m] + Reserved(m)]' = [m \in Lives |-> debit[m] + Reserved(m)]
      BY <2>1
    <2>3. SumFunctionOnSet([m \in Lives |-> debit[m] + Reserved(m)], Lives)'
            = SumFunctionOnSet([m \in Lives |-> debit[m] + Reserved(m)], Lives)
      BY <2>2
    <2>4. \A m \in Lives : (debit[m] + Reserved(m) <= Ceiling(bankroll[m]))'
      BY <2>1 DEF LifecycleInv, SpendInv, Ceiling
    <2>5. (\A b \in Books : sent[b] <= debits[b])' /\ (market => books > 0)'
      BY DEF LifecycleInv, SpendInv
    <2> QED BY <2>3, <2>4, <2>5 DEF LifecycleInv, SpendInv
  <1> QED BY <1>1, <1>2, <1>3, <1>4

LEMMA EndInv ==
  ASSUME LifecycleInv, TypeOK', End
  PROVE  LifecycleInv'
  <1>0. TypeOK /\ order \in Orders /\ order.st = "live" BY DEF LifecycleInv, TypeOK, End
  <1>1. PICK n \in Nat, cash \in Nat :
          /\ n <= order.lots
          /\ order' = [order EXCEPT !.st = "ended", !.filled = n, !.cash = cash]
          /\ \/ /\ order.side = "BUY" /\ cash <= order.lots * Price
                /\ hold' = [hold EXCEPT ![order.l] = @ + n]
                /\ flow' = [flow EXCEPT ![order.l] = @ - cash]
             \/ /\ order.side = "SELL"
                /\ hold' = [hold EXCEPT ![order.l] = @ - n]
                /\ flow' = [flow EXCEPT ![order.l] = @ + cash]
    BY EndMoves
  <1>2. /\ order'.st = "ended" /\ order'.l = order.l /\ order'.side = order.side
        /\ order'.lots = order.lots /\ order'.filled = n /\ order'.cash = cash
    BY <1>0, <1>1 DEF Orders
  <1>3. UNCHANGED <<rowVars, totalVars, storeVars, cyc, latched, snap, feedVars, clock,
                    receipt, sent>>
    BY DEF End
  <1>4. OrderInv' /\ LifeInv' /\ LatchInv' /\ CycleInv' /\ SpendInv'
    BY <1>0, <1>1, <1>2, <1>3, OrderMoves
  <1>5. /\ order.l \in Lives
        /\ \A l \in Lives : ~Cleared(l) /\ hold[l] = Held(l) /\ flow[l] = Worth(l)
    BY <1>0, LiveHold
  <1>6. \A l \in Lives : /\ Held(l)' = Held(l) /\ Worth(l)' = Worth(l) /\ ~Cleared(l)'
    BY <1>3, <1>5 DEF Held, Worth, Cleared, totalVars
  <1>7. ASSUME NEW l \in Lives
        PROVE  hold'[l] = Held(l)' + Unbooked(l)' /\ flow'[l] = Worth(l)' + Due(l)'
    <2>0. hold \in [Lives -> Nat] /\ flow \in [Lives -> Int] BY <1>0 DEF TypeOK
    <2>1. CASE l # order.l
      <3>1. Unbooked(l)' = 0 /\ Due(l)' = 0 BY <1>2, <2>1 DEF Unbooked, Due, Ended
      <3>2. hold'[l] = hold[l] /\ flow'[l] = flow[l] BY <1>1, <2>0, <2>1
      <3> QED BY <1>5, <1>6, <2>0, <3>1, <3>2
    <2>2. CASE l = order.l /\ order.side = "BUY"
      <3>1. Unbooked(l)' = n /\ Due(l)' = -cash BY <1>2, <2>2 DEF Unbooked, Due, Ended
      <3>2. hold'[l] = hold[l] + n /\ flow'[l] = flow[l] - cash BY <1>1, <2>0, <2>2
      <3> QED BY <1>5, <1>6, <2>0, <3>1, <3>2
    <2>3. CASE l = order.l /\ order.side = "SELL"
      <3>1. Unbooked(l)' = -n /\ Due(l)' = cash BY <1>2, <2>3 DEF Unbooked, Due, Ended
      <3>2. hold'[l] = hold[l] - n /\ flow'[l] = flow[l] + cash BY <1>1, <2>0, <2>3
      <3> QED BY <1>5, <1>6, <2>0, <3>1, <3>2
    <2> QED BY <1>1, <2>1, <2>2, <2>3
  <1>8. BookInv' BY <1>6, <1>7 DEF BookInv
  <1> QED BY <1>4, <1>8 DEF LifecycleInv

LEMMA LoseInv ==
  ASSUME LifecycleInv, TypeOK', Lose
  PROVE  LifecycleInv'
  <1>0. TypeOK /\ OrderInv /\ order \in Orders /\ order.st = "live"
    BY DEF LifecycleInv, TypeOK, Lose
  <1>1. /\ order'.st = "lost" /\ order'.l = order.l /\ order'.side = order.side
        /\ order'.lots = order.lots /\ order'.filled = order.filled /\ order'.cash = order.cash
    BY <1>0 DEF Lose, Orders
  <1>2. UNCHANGED <<rowVars, totalVars, storeVars, cyc, latched, snap, feedVars, clock,
                    receipt, sent>>
    BY DEF Lose
  <1>3. order.filled <= order.lots /\ (order.side = "BUY" => order.cash <= order.lots * Price)
    BY <1>0 DEF OrderInv
  <1>4. OrderInv' /\ LifeInv' /\ LatchInv' /\ CycleInv' /\ SpendInv'
    BY <1>0, <1>1, <1>2, <1>3, OrderMoves
  <1>5. BookInv'
    <2>1. \A l \in Lives : ~Cleared(l) /\ hold[l] = Held(l) /\ flow[l] = Worth(l)
      BY <1>0, LiveHold
    <2>2. \A l \in Lives : /\ Held(l)' = Held(l) /\ Worth(l)' = Worth(l) /\ ~Cleared(l)'
      BY <1>2, <2>1 DEF Held, Worth, Cleared, totalVars
    <2>3. \A l \in Lives : Unbooked(l)' = 0 /\ Due(l)' = 0 BY <1>1 DEF Unbooked, Due, Ended
    <2>4. \A l \in Lives : hold[l] \in Int /\ flow[l] \in Int BY <1>0 DEF TypeOK
    <2>5. hold' = hold /\ flow' = flow BY DEF Lose
    <2>6. ASSUME NEW l \in Lives
          PROVE  hold'[l] = Held(l)' + Unbooked(l)' /\ flow'[l] = Worth(l)' + Due(l)'
      BY <2>1, <2>2, <2>3, <2>4, <2>5
    <2> QED BY <2>2, <2>6 DEF BookInv
  <1> QED BY <1>4, <1>5 DEF LifecycleInv

LEMMA ClearInv ==
  ASSUME LifecycleInv, TypeOK', NEW l \in Lives, Clear(l)
  PROVE  LifecycleInv'
  <1> USE DEF rowVars, totalVars, storeVars, feedVars
  <1>0. TypeOK /\ BookInv /\ CycleInv /\ OrderInv BY DEF LifecycleInv
  <1>1. /\ clock = "expired" /\ order.st # "live" /\ hold[l] > 0
        /\ hold' = [hold EXCEPT ![l] = 0]
        /\ flow' = [flow EXCEPT ![l] = @ + hold[l] * Exercise]
        /\ receipt' = [receipt EXCEPT ![l].lots = hold[l]]
        /\ UNCHANGED <<rowVars, totalVars, storeVars, cyc, latched, snap, feedVars,
                       clock, order, faults, sent>>
    BY DEF Clear
  <1>2. hold \in [Lives -> Nat] /\ flow \in [Lives -> Int] BY <1>0 DEF TypeOK
  <1>3. /\ receipt'[l].lots = hold[l]
        /\ \A m \in Lives \ {l} : receipt'[m].lots = receipt[m].lots
    <2>1. receipt \in [Lives -> Receipts] BY <1>0 DEF TypeOK
    <2> QED BY <1>1, <2>1 DEF Receipts
  <1>4. ~Cleared(l) BY <1>0, <1>1, <1>2 DEF BookInv
  <1>5. \A m \in Lives : /\ Held(m)' = Held(m) /\ Worth(m)' = Worth(m)
                        /\ Unbooked(m)' = Unbooked(m) /\ Due(m)' = Due(m)
    BY <1>1, Same
  <1>6. OrderInv'
    <2>1. order' = order /\ state' = state /\ bought' = bought /\ gone' = gone BY <1>1
    <2> QED BY <1>0, <2>1 DEF OrderInv, NoOrder, Open, Held
  <1>7. LifeInv' /\ LatchInv'
    BY <1>1 DEF LifecycleInv, LifeInv, LatchInv, Unused, Held, Worth, NoneOpen, Open
  <1>8. BookInv'
    <2> SUFFICES ASSUME NEW m \in Lives
                 PROVE  /\ Cleared(m)' => clock' = "expired" /\ order'.st # "live" /\ hold'[m] = 0
                        /\ \/ /\ ~Cleared(m)'
                              /\ hold'[m] = Held(m)' + Unbooked(m)'
                              /\ flow'[m] = Worth(m)' + Due(m)'
                           \/ /\ Cleared(m)'
                              /\ receipt'[m].lots = Held(m)' + Unbooked(m)'
                              /\ flow'[m] = Worth(m)' + Due(m)' + receipt'[m].lots * Exercise
                           \/ /\ Cleared(m)'
                              /\ Held(m)' + Unbooked(m)' = 0
                              /\ flow'[m] = Worth(m)' + Due(m)'
      BY DEF BookInv
    <2>1. CASE m # l
      <3>1. hold'[m] = hold[m] /\ flow'[m] = flow[m] BY <1>1, <1>2, <2>1
      <3>2. Cleared(m)' = Cleared(m) BY <1>3, <2>1 DEF Cleared
      <3>3. receipt'[m].lots = receipt[m].lots BY <1>3, <2>1
      <3> QED BY <1>0, <1>1, <1>5, <3>1, <3>2, <3>3 DEF BookInv
    <2>2. CASE m = l
      <3>1. hold[l] = Held(l) + Unbooked(l) /\ flow[l] = Worth(l) + Due(l)
        BY <1>0, <1>4 DEF BookInv
      <3>2. hold'[l] = 0 /\ flow'[l] = flow[l] + hold[l] * Exercise BY <1>1, <1>2
      <3>3. Cleared(l)' BY <1>1, <1>3 DEF Cleared
      <3> QED BY <1>1, <1>3, <1>5, <2>2, <3>1, <3>2, <3>3
    <2> QED BY <2>1, <2>2
  <1>9. CycleInv'
    <2>1. state' = state /\ bought' = bought /\ gone' = gone /\ debit' = debit
          /\ credit' = credit /\ fees' = fees /\ cyc' = cyc /\ exit' = exit
          /\ latched' = latched /\ final' = final /\ order' = order
      BY <1>1
    <2>2. cyc.pc = "cash" => receipt'[cyc.l].lots = cyc.n
      <3> SUFFICES ASSUME cyc.pc = "cash" PROVE receipt'[cyc.l].lots = cyc.n OBVIOUS
      <3>1. cyc.l \in Lives /\ receipt[cyc.l].lots = cyc.n /\ cyc.n > 0
        BY <1>0 DEF CycleInv, SettleInv
      <3>2. cyc.l # l BY <1>4, <3>1 DEF Cleared
      <3> QED BY <1>3, <3>1, <3>2
    <2>3. SettleInv' BY <1>0, <2>1, <2>2 DEF CycleInv, SettleInv, Open, Held, Worth
    <2>4. EntryInv' BY <1>0, <2>1 DEF CycleInv, EntryInv, NoneOpen, Open
    <2> QED BY <1>0, <2>1, <2>3, <2>4 DEF CycleInv, NoOrder
  <1>10. SpendInv' BY <1>1, SpendSame DEF LifecycleInv, SpendInv
  <1> QED BY <1>6, <1>7, <1>8, <1>9, <1>10 DEF LifecycleInv

----------------------------------------------------------------------------
(* The invariant holds *)

LEMMA InvInit == Init => LifecycleInv
  <1> SUFFICES ASSUME Init PROVE LifecycleInv OBVIOUS
  <1>1. TypeOK BY TypeInit
  <1>2. /\ order = NoOrder /\ cyc = Idle /\ latched = FALSE /\ market = FALSE
        /\ NoOrder.st = "none" /\ NoOrder.filled = 0 /\ NoOrder.lots = 0 /\ NoOrder.cash = 0
        /\ NoOrder.side = "BUY" /\ cyc.pc = "idle"
    BY DEF Init, NoOrder, Idle
  <1>3. \A l \in Lives : /\ Held(l) = 0 /\ Worth(l) = 0 /\ Unbooked(l) = 0 /\ Due(l) = 0
                        /\ Reserved(l) = 0 /\ ~Cleared(l) /\ hold[l] = 0 /\ flow[l] = 0
                        /\ debit[l] = 0 /\ bankroll[l] = 0 /\ state[l] = "none" /\ Unused(l)
    BY <1>2 DEF Init, Zeros, Held, Worth, Unbooked, Due, Ended, Reserved, Cleared, Unused
  <1>4. OrderInv
    <2>1. 0 <= 0 * Price OBVIOUS
    <2> QED BY <1>2, <2>1 DEF OrderInv
  <1>5. LifeInv /\ BookInv BY <1>3 DEF LifeInv, BookInv
  <1>6. LatchInv /\ CycleInv BY <1>2 DEF LatchInv, CycleInv, SettleInv, EntryInv
  <1>7. SpendInv
    <2> DEFINE F == [l \in Lives |-> debit[l] + Reserved(l)]
    <2>1. \A l \in Lives : F[l] = 0 BY <1>3
    <2>2. IntOn(F, Lives) BY <2>1 DEF IntOn
    <2> HIDE DEF F
    <2>3. SumFunctionOnSet(F, Lives) = SumFunctionOnSet(F, {})
      BY <2>1, <2>2, SumRestrict
    <2>4. SumFunctionOnSet(F, Lives) <= DebitCap BY <2>3, SumEmpty
    <2>5. \A l \in Lives : debit[l] + Reserved(l) <= Ceiling(bankroll[l])
      <3>1. Ceiling(0) \in Nat BY CeilingBound
      <3> QED BY <1>3, <3>1
    <2>6. \A b \in Books : sent[b] <= debits[b] BY DEF Init
    <2> QED BY <1>2, <2>4, <2>5, <2>6 DEF SpendInv, F
  <1> QED BY <1>1, <1>4, <1>5, <1>6, <1>7 DEF LifecycleInv

LEMMA InvStep == LifecycleInv /\ [Next]_vars => LifecycleInv'
  <1> SUFFICES ASSUME LifecycleInv, [Next]_vars PROVE LifecycleInv' OBVIOUS
  <1>0. TypeOK /\ TypeOK' BY TypeStep DEF LifecycleInv
  <1>1. CASE UNCHANGED vars
    <2>1. Unmoved BY <1>1 DEF vars, Unmoved
    <2>2. final' >= final /\ FeesGrow BY <1>0, <1>1, FeesSame DEF TypeOK, vars
    <2>3. cyc' = cyc /\ latched' = latched /\ disarmed' = disarmed /\ market' = market
          /\ books' = books
      BY <1>1 DEF vars
    <2>4. CycleInv' BY <1>0, <2>1, <2>2, <2>3, CycleKept
    <2> QED BY <1>0, <2>1, <2>2, <2>3, <2>4, UnmovedInv DEF LifecycleInv, SpendInv
  <1>2. CASE SettleNext
    BY <1>0, <1>2, SettleQuiet, SettleRecordInv, CloseInv DEF SettleNext
  <1>3. CASE ExitNext BY <1>0, <1>3, ExitInv
  <1>4. CASE EntryNext BY <1>0, <1>4, EntryQuiet, EnterInv DEF EntryNext
  <1>5. CASE AccountNext
    BY <1>0, <1>5, RefreshInv, LateChargeInv, OthersQuiet DEF AccountNext
  <1>6. CASE BrokerNext
    BY <1>0, <1>6, EndInv, LoseInv, ClearInv, OthersQuiet DEF BrokerNext
  <1>7. CASE OutsideNext BY <1>0, <1>7, OthersQuiet DEF OutsideNext
  <1> QED BY <1>1, <1>2, <1>3, <1>4, <1>5, <1>6, <1>7 DEF Next

LEMMA InvHolds == Spec => []LifecycleInv
  BY InvInit, InvStep, PTL DEF Spec

----------------------------------------------------------------------------
(* Purchases *)

\* Only Enter opens a lifecycle or posts a purchase.
LEMMA OthersNeitherOpenNorBuy ==
  ASSUME LifecycleInv, [Next]_vars, \A l \in Lives : ~Enter(l)
  PROVE  OpensWithinCapital /\ NotEnlarged
  <1> USE DEF rowVars, totalVars, storeVars, feedVars, worldVars
  <1>1. ASSUME state' = state \/ \E l \in Lives : state' = [state EXCEPT ![l] = "CLOSED"],
               \/ order' = order \/ order' = NoOrder \/ order.st # "none"
               \/ \E l \in Lives, n \in Int : order' = Selling(l, n)
        PROVE  OpensWithinCapital /\ NotEnlarged
    <2>1. state \in [Lives -> {"none", "OPEN", "CLOSED"}] BY DEF LifecycleInv, TypeOK
    <2>2. \A l \in Lives : state'[l] = "OPEN" => state[l] = "OPEN" BY <1>1, <2>1
    <2>3. OpensWithinCapital BY <2>2 DEF OpensWithinCapital
    <2>4. ~(order = NoOrder /\ order'.st = "live" /\ order'.side = "BUY")
      <3>1. NoOrder.st = "none" /\ \A l \in Lives, n \in Int : Selling(l, n).side = "SELL"
        BY DEF NoOrder, Selling
      <3> QED BY <1>1, <3>1
    <2> QED BY <2>3, <2>4 DEF NotEnlarged
  <1>2. CASE UNCHANGED vars BY <1>1, <1>2 DEF vars
  <1>3. CASE SettleNext
    <2>1. order' = order
      BY <1>3 DEF SettleNext, SettleStart, SettleMatched, SettleUnmatched, SettleRecord,
                  CloseStart, Close
    <2>2. state' = state \/ \E l \in Lives : state' = [state EXCEPT ![l] = "CLOSED"]
      BY <1>3 DEF SettleNext, SettleStart, SettleMatched, SettleUnmatched, SettleRecord,
                  CloseStart, Close
    <2> QED BY <1>1, <2>1, <2>2
  <1>4. CASE ExitNext
    <2>1. \A l \in Lives : Min({Held(l), Child}) \in Int BY ChildType DEF LifecycleInv
    <2>2. PICK l \in Lives, n \in Int : Sell(l, n) /\ state' = state
      BY <1>4, <2>1 DEF ExitNext, SellSlice, Exit
    <2>3. order' = order \/ order' = Selling(l, n) BY <2>2 DEF Sell, Posted
    <2> QED BY <1>1, <2>2, <2>3
  <1>5. CASE EntryNext BY <1>1, <1>5 DEF EntryNext, EntryStart, EntryDropped
  <1>6. CASE AccountNext
    <2>1. state' = state
      BY <1>6 DEF AccountNext, Refresh, Age, LateCharge, CycleFails
    <2>2. order' = order \/ order' = NoOrder
      BY <1>6 DEF AccountNext, Refresh, Age, LateCharge, CycleFails
    <2> QED BY <1>1, <2>1, <2>2
  <1>7. CASE BrokerNext BY <1>1, <1>7 DEF BrokerNext, End, Lose, Clear, Show
  <1>8. CASE OutsideNext
    BY <1>1, <1>8 DEF OutsideNext, SignalLost, SignalUp, MarketLost, NewBook, Tick, OnFinal, Crash
  <1> QED BY <1>2, <1>3, <1>4, <1>5, <1>6, <1>7, <1>8 DEF Next

\* What all the lifecycles have lost, when none is open, is what the closed ones
\* have: the others bought nothing.
LEMMA LostByClosed ==
  ASSUME LifecycleInv, NoneOpen
  PROVE  SumFunctionOnSet(Losses, Lives) = -Pnl
  <1> DEFINE C == {l \in Lives : state[l] = "CLOSED"}
  <1>1. IntOn(Losses, Lives) BY Amounts DEF LifecycleInv, IntOn, Losses
  <1>2. \A l \in Lives \ C : Losses[l] = 0
    BY DEF LifecycleInv, TypeOK, LifeInv, Unused, NoneOpen, Open, Losses, Loss
  <1>3. SumFunctionOnSet(Losses, Lives) = SumFunctionOnSet(Losses, C)
    <2> HIDE DEF Losses
    <2> QED BY <1>1, <1>2, SumRestrict
  <1>4. SumFunctionOnSet(Losses, C) \in Int
    <2>1. IsFiniteSet(C) /\ IntOn(Losses, C) BY <1>1, FS_Subset DEF IntOn
    <2> QED BY <2>1, SumType
  <1> QED BY <1>3, <1>4 DEF Pnl

LEMMA EnterIsGuarded ==
  ASSUME LifecycleInv, NEW l \in Lives, Enter(l)
  PROVE  OpensWithinCapital /\ NotEnlarged
  <1>0. TypeOK /\ LifeInv /\ CycleInv /\ LatchInv BY DEF LifecycleInv
  <1>1. PICK n \in Nat \ {0}, b \in Nat, cash \in CashLevels :
              /\ n <= Depth - debits[books]
              /\ b = IF Open(l) THEN bankroll[l] ELSE Bankroll(cash)
              /\ Permits(l, b, cash, n)
              /\ bankroll' = [bankroll EXCEPT ![l] = b]
              /\ debits' = [debits EXCEPT ![books] = @ + n]
              /\ \/ /\ order' = Buying(l, n) /\ InWindow /\ snap' = Stale
                    /\ sent' = [sent EXCEPT ![books] = @ + n]
                    /\ UNCHANGED faults
                 \/ /\ UNCHANGED <<order, sent>> /\ snap' = Stale
                    /\ faults' \in {faults, faults + 1} /\ faults' <= MaxFaults
    BY EnterDecides
  <1>2. order = NoOrder /\ state' = [state EXCEPT ![l] = "OPEN"] BY EnterDecides
  <1>a. /\ NoOrder.st = "none" /\ Buying(l, n).st = "live" /\ Buying(l, n).l = l
        /\ Buying(l, n).side = "BUY" /\ Buying(l, n).lots = n
    BY DEF Buying, NoOrder
  <1>3. /\ cyc.pc = "entering" /\ cyc.ok /\ ~disarmed
        /\ IF cyc.l = NoLife THEN state[l] = "none" ELSE l = cyc.l
    BY DEF Enter, InputsUnchanged, PermitEntry
  <1>4. UNCHANGED <<debit, fees, credit, latched, exit, final>>
    BY DEF Enter, totalVars
  <1>5. IF cyc.l = NoLife THEN NoneOpen
        ELSE Open(cyc.l) /\ ~latched /\ (exit[cyc.l] => final > 0)
    BY <1>0, <1>3 DEF CycleInv, EntryInv
  <1>6. \/ state[l] = "none" /\ NoneOpen
        \/ Open(l) /\ ~latched /\ (exit[l] => final > 0)
    BY <1>3, <1>5
  <1>7. NotEnlarged
    <2>1. ~latched BY <1>0, <1>3, <1>6 DEF LatchInv
    <2>2. exit[l] => final > 0 BY <1>0, <1>6 DEF LifeInv, Unused
    <2>3. \A m \in Lives : order = NoOrder /\ order'.st = "live" /\ order'.l = m => m = l
      BY <1>1, <1>2, <1>a
    <2> QED BY <2>1, <2>2, <2>3 DEF NotEnlarged
  <1>8. OpensWithinCapital
    <2> SUFFICES ASSUME NEW m \in Lives, state[m] = "none", state'[m] = "OPEN"
                 PROVE  SumFunctionOnSet(Losses', Lives) + Reserved(m)' <= Capital
      BY DEF OpensWithinCapital
    <2>1. m = l /\ ~Open(l) /\ NoneOpen
      <3>1. state \in [Lives -> {"none", "OPEN", "CLOSED"}] BY <1>0 DEF TypeOK
      <3>2. m = l BY <1>2, <3>1
      <3> QED BY <1>6, <3>2 DEF Open
    <2>2. b = Bankroll(cash) BY <1>1, <2>1
    <2>3. n * Price \in Nat /\ n * Price > 0
      <3>1. n \in Int /\ Price \in Int /\ n > 0 /\ Price > 0 OBVIOUS
      <3> QED BY <3>1
    <2>4. n * Price <= b
      <3>1. n * Price <= Ceiling(b) - Spent(l) BY <1>0, <1>1, PermitsBound
      <3>2. Ceiling(b) \in Nat /\ Ceiling(b) <= b /\ Spent(l) \in Nat
        BY <1>0, CeilingBound, Amounts
      <3> QED BY <2>3, <3>1, <3>2
    <2>5. b <= Capital + Pnl
      <3>1. b > 0 BY <2>3, <2>4
      <3>2. Bankroll(cash) > 0 => Bankroll(cash) <= Capital + Pnl BY <1>0, BankrollBound
      <3> QED BY <2>2, <3>1, <3>2
    <2>6. Losses' = Losses BY <1>4 DEF Losses, Loss
    <2>7. SumFunctionOnSet(Losses, Lives) = -Pnl BY <2>1, LostByClosed
    <2>8. Reserved(m)' \in {0, n * Price}
      BY <1>1, <1>2, <1>a, <2>1 DEF Reserved
    <2>9. Reserved(m)' \in Nat /\ Reserved(m)' <= n * Price BY <2>3, <2>8
    <2>10. Pnl \in Int BY <1>0, PnlType
    <2> QED BY <2>3, <2>4, <2>5, <2>6, <2>7, <2>9, <2>10
  <1> QED BY <1>7, <1>8

LEMMA GuardStep == LifecycleInv /\ [Next]_vars => OpensWithinCapital /\ NotEnlarged
  <1> SUFFICES ASSUME LifecycleInv, [Next]_vars PROVE OpensWithinCapital /\ NotEnlarged
    OBVIOUS
  <1> QED BY OthersNeitherOpenNorBuy, EnterIsGuarded

----------------------------------------------------------------------------
(* The theorems *)

\* Every variable keeps its type; the ledger is never short, and no more of a
\* snapshot is debited than it showed.
THEOREM LifecycleTypeCorrect == Spec => []TypeOK
  <1>1. LifecycleInv => TypeOK BY DEF LifecycleInv
  <1> QED BY <1>1, InvHolds, PTL

\* A closed lifecycle is over at the broker too, and what was posted for it is
\* the cash it brought, up to the charges: whatever failed or crashed, and
\* whenever the statement and the charges came.
THEOREM ClosedIsOverHolds == Spec => []ClosedIsOver
  <1>1. LifecycleInv => ClosedIsOver
    <2> SUFFICES ASSUME LifecycleInv, NEW l \in Lives, state[l] = "CLOSED"
                 PROVE  /\ hold[l] = 0 /\ Held(l) = 0
                        /\ order.l # l
                        /\ flow[l] - fees[l] <= posted[l] /\ posted[l] <= flow[l]
      BY DEF ClosedIsOver
    <2>0. TypeOK /\ OrderInv /\ BookInv /\ LifeInv BY DEF LifecycleInv
    <2>1. order.l # l
      <3>1. order = NoOrder \/ Open(order.l) BY <2>0 DEF OrderInv
      <3>2. NoOrder.l = NoLife /\ l # NoLife BY DEF NoOrder
      <3> QED BY <3>1, <3>2 DEF Open
    <2>2. Unbooked(l) = 0 /\ Due(l) = 0 BY <2>1 DEF Unbooked, Due, Ended
    <2>3. Held(l) = 0 /\ Worth(l) - fees[l] <= posted[l] /\ posted[l] <= Worth(l)
      BY <2>0 DEF LifeInv
    <2>4. Worth(l) \in Int /\ hold[l] \in Nat /\ receipt[l].lots \in Nat
      <3>1. receipt[l] \in Receipts BY <2>0 DEF TypeOK
      <3> QED BY <2>0, <3>1, Amounts DEF TypeOK, Receipts
    <2>5. hold[l] = 0 /\ flow[l] = Worth(l)
      <3>1. Held(l) + Unbooked(l) = 0 /\ Worth(l) + Due(l) = Worth(l) BY <2>2, <2>3, <2>4
      <3>2. Cleared(l) => receipt[l].lots # 0 BY <2>4 DEF Cleared
      <3> QED BY <2>0, <3>1, <3>2 DEF BookInv
    <2> QED BY <2>1, <2>3, <2>5
  <1> QED BY <1>1, InvHolds, PTL

\* Purchases stay within the ceiling of the frozen bankroll, within the mandate's
\* cumulative cap, and within the depth of each snapshot.
THEOREM PurchasesWithinBoundsHolds == Spec => []PurchasesWithinBounds
  <1>1. LifecycleInv => PurchasesWithinBounds
    <2> SUFFICES ASSUME LifecycleInv PROVE PurchasesWithinBounds OBVIOUS
    <2>1. ASSUME NEW b \in Books PROVE sent[b] <= Depth
      <3>1. sent[b] \in Nat /\ debits[b] \in 0..Depth /\ sent[b] <= debits[b]
        BY DEF LifecycleInv, TypeOK, SpendInv
      <3> QED BY <3>1
    <2> QED BY <2>1 DEF LifecycleInv, SpendInv, PurchasesWithinBounds
  <1> QED BY <1>1, InvHolds, PTL

\* No opening brings the losses and the reserved cash above the capital, and no
\* position that is being exited is added to.
THEOREM CapitalIsGuardedHolds == Spec => CapitalIsGuarded
  <1>1. LifecycleInv /\ [Next]_vars => [OpensWithinCapital /\ NotEnlarged]_vars
    BY GuardStep
  <1> QED BY <1>1, InvHolds, PTL DEF Spec, CapitalIsGuarded
=============================================================================
