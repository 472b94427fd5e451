----------------------------- MODULE MCSession -----------------------------
(* The session engine and what it decides on, one part at a time: a behaviour  *)
(* belongs to the one "part" names and leaves the others at their start, since *)
(* they share no state. One run checks the safety of them all.                 *)
EXTENDS Lifecycle, TLC

CONSTANTS
  l1, l2,
  \* Signal
  Call, TickSize, Asks, Levels, Needed, MaxAge, Uncertainties, MaxUncertainty, MaxTime,
  MaxFrames, MaxConns, MaxCrashes,
  \* Inputs
  Values, Accepted, Kept,
  \* Seconds
  Options, Between, Forecasts, QuoteAge, Warm, Recent, Bucket, Deadline, Margin

ASSUME SessionAssumption ==
  /\ {MaxTime, MaxConns, QuoteAge, Warm, Recent, Deadline, Margin} \subseteq Nat
  /\ Forecasts \subseteq Nat /\ Between \subseteq Options
  /\ {Needed, MaxAge, MaxUncertainty, MaxFrames, MaxCrashes} \subseteq Nat
  /\ Uncertainties \subseteq Nat
  /\ Values \subseteq Nat \ {0} /\ Values # {} /\ Accepted \in Nat /\ Kept \in Nat /\ Accepted <= Kept

\* Lifecycles are interchangeable: no definition names one.
LivesSymmetry == Permutations({l1, l2})

VARIABLES
  part,
  now, signal, snapshot, status, listening, reference, heard, observations, lastAt,
  streaks, marketUp, bookOf, entry, frozen, fresh, frames, crashed,
  minute, link, rows, conflicts, epoch, recent, cache, read, published, versions, holes,
  omissions,
  tick, option, futures, tape, usable, quotes, fits, offers, sample, refreshed, attempt,
  dispatched, rejected, tapeEpoch

\* One contract while the auction runs; none while the reference is heard.
Signal == INSTANCE Signal WITH
  Calls <- {Call}, Puts <- {}, Strike <- [c \in {Call} |-> 1], CloseAt <- MaxTime,
  MaxFrames <- MaxFrames - 1, books <- bookOf
Reference == INSTANCE Signal WITH
  Calls <- {}, Puts <- {}, Strike <- <<>>, Levels <- {1}, CloseAt <- MaxTime,
  books <- bookOf

Inputs == INSTANCE Inputs WITH now <- minute, faults <- omissions

Seconds == INSTANCE Seconds WITH
  Needed <- 1, CloseAt <- MaxTime + 2, MaxTime <- MaxTime + 1, MaxMarket <- MaxConns,
  MaxFutures <- MaxConns, MaxFaults <- 1, now <- tick, market <- option, rows <- tape,
  epoch <- tapeEpoch, books <- offers, entry <- attempt, sent <- dispatched,
  faults <- rejected

auction == <<now, signal, snapshot, status, listening, reference, heard, observations,
             lastAt, streaks, marketUp, bookOf, entry, frozen, fresh, frames, crashed>>
minutes == <<minute, link, rows, conflicts, epoch, recent, cache, read, published,
             versions, holes, omissions>>
instants == <<tick, option, futures, tape, tapeEpoch, usable, quotes, fits, offers, sample,
              refreshed, attempt, dispatched, rejected>>
sessionVars == <<part, vars, auction, minutes, instants>>

Parts == {"lifecycle", "signal", "reference", "inputs", "seconds"}
SessionInit ==
  /\ part \in Parts
  /\ Init
  /\ IF part = "signal" THEN Signal!Init /\ frozen # Signal!NoReference
     ELSE Reference!Init /\ frozen = Reference!NoReference
  /\ Inputs!Init /\ Seconds!Init

SessionNext ==
  /\ UNCHANGED part
  /\ \/ /\ part = "lifecycle" /\ Next
        /\ UNCHANGED <<auction, minutes, instants>>
     \/ /\ part = "signal" /\ Signal!Next
        /\ UNCHANGED <<vars, minutes, instants>>
     \/ /\ part = "reference"
        /\ UNCHANGED <<marketUp, vars, minutes, instants>>
        /\ Reference!Next
     \/ /\ part = "inputs" /\ Inputs!Next
        /\ UNCHANGED <<vars, auction, instants>>
     \/ /\ part = "seconds" /\ Seconds!Next
        /\ UNCHANGED <<vars, auction, minutes>>

SessionSpec == SessionInit /\ [][SessionNext]_sessionVars

-----------------------------------------------------------------------------
\* Streaks have no gap (engine.py 109-179); the reference rests on observations
\* made in time (strategy.py 30-61) and is never changed (ledger.py 73-79).
SignalIsSound ==
  /\ [](part = "signal" => Signal!TypeOK /\ Signal!StreakUnbroken)
  /\ [](part = "reference" => Reference!ReferenceIsSound)
  /\ Reference!ReferenceFrozen

\* Strategies are evaluated on what is true (strategy_inputs.py, stream_minutes.py), and
\* a seconds entry rests on what is so as it leaves (seconds_strategies.py,
\* seconds_engine.py, future_input.py).
InputsAreCurrent ==
  [](part = "inputs" => Inputs!InputsAreTrue) /\ Seconds!SecondsAreCurrent
=============================================================================
