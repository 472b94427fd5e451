----------------------------- MODULE MCServices -----------------------------
(* The services around the order flow, one at a time: a behaviour belongs to   *)
(* the one "part" names and leaves the others at their start, since they share *)
(* no state. One run checks them all.                                          *)
EXTENDS Integers

CONSTANTS
  Contracts, Bootstrap, QueueSize, WireSize, MaxConns, MaxFrames, MaxWishes,
  MaxCrashes,
  Windows, Child, Sizes, MaxOrders, MaxTime,
  Procs, Trader, MaxAge, MaxTokens, MaxFaults,
  Tasks, Priorities, MaxReads,
  Kinds, MaxFailures,
  Asks, Bankrolls, Fee, Target, Delay, Patience, Hold, QuoteAge, MaxEpisodes,
  MaxSource, MaxRuns

ASSUME ServicesAssumption ==
  /\ Bootstrap \subseteq Contracts
  /\ QueueSize \in Nat /\ WireSize \in Nat /\ MaxConns \in Nat /\ MaxFrames \in Nat
  /\ MaxWishes \in Nat /\ MaxCrashes \in Nat
  /\ \A w \in Windows : w.span \in Nat /\ w.limit \in Nat
  /\ Child \in Nat \ {0} /\ Sizes \subseteq Nat /\ MaxOrders \in Nat /\ MaxTime \in Nat
  /\ Trader \in Procs /\ "nobody" \notin Procs
  /\ MaxAge \in Nat /\ MaxTokens \in Nat /\ MaxFaults \in Nat
  /\ Priorities \subseteq Nat /\ MaxReads \in Nat
  /\ Kinds \subseteq {"session", "profit"} /\ MaxFailures \in Nat
  /\ Asks \subseteq Nat \ {0} /\ Bankrolls \subseteq Nat /\ Fee \in Nat
  /\ Target \in Nat /\ Delay \in Nat /\ Patience \in Nat /\ Hold \in Nat /\ QuoteAge \in Nat
  /\ MaxEpisodes \in Nat /\ MaxSource \in Nat \ {0} /\ MaxRuns \in Nat

\* The anchors may move off the bootstrap, or ask for everything.
Wishes == {Contracts \ Bootstrap, Contracts}
\* Two of the four windows, with room for two sales more than the shorter span.
TwoWindows == {[span |-> 1, limit |-> 3], [span |-> 3, limit |-> 4]}

VARIABLES
  part,
  conn, link, subs, sent, wire, queue, handled, live, books, packets,
  wanted, applied, synced, sync, desired, wishes,
  intent, row, filled, notes, trader, lock, tool, stopFile, order, traded, resets, crashes,
  now, intents, count, held,
  time, issued, cache, tokenLock, proc, session, busy, faults,
  heap, task, worker, reads,
  kind, step, changed, config, override, marker, payload, migrated, edited,
  unit, service, failures,
  second, running, firstCash, account, history, ruled, episodes, top, kills,
  source, proof, verification, tested, slipped, mandate, authority, interlock, ledger, loaded,
  timer, daemon, writer, activation, refresh, runs, mishaps, wish

Feed == INSTANCE Feed
Recovery == INSTANCE Recovery
Rates == INSTANCE Rates
Tokens == INSTANCE Tokens
Reads == INSTANCE Reads
Deploy == INSTANCE Deploy

Paper == INSTANCE Paper WITH
  now <- second, up <- running, initial <- firstCash, row <- account, disk <- history,
  episode <- ruled, book <- top, faults <- kills

Activation == INSTANCE Activation WITH
  MaxFaults <- MaxCrashes,
  marker <- proof, config <- authority, unit <- loaded, service <- daemon, lock <- writer,
  tool <- activation, faults <- mishaps

feed == <<conn, link, subs, sent, wire, queue, handled, live, books, packets,
          wanted, applied, synced, sync, desired, wishes>>
recovery == <<intent, row, filled, notes, trader, lock, tool, stopFile, order, traded, resets, crashes>>
rates == <<now, intents, count, held>>
tokens == <<time, issued, cache, tokenLock, proc, session, busy, faults>>
turns == <<heap, task, worker, reads>>
upgrade == <<kind, step, changed, config, override, marker, payload, migrated, edited,
             unit, service, failures>>
simulation == <<second, running, firstCash, account, history, ruled, episodes, top, kills>>
admission == <<source, proof, verification, tested, slipped, mandate, authority, interlock, ledger,
               loaded, timer, daemon, writer, activation, refresh, runs, mishaps, wish>>
vars == <<part, feed, recovery, rates, tokens, turns, upgrade, simulation, admission>>

Parts == {"feed", "recovery", "rates", "tokens", "reads", "deploy", "paper", "activation"}
Init ==
  /\ part \in Parts
  /\ Feed!Init /\ Recovery!Init /\ Rates!Init /\ Tokens!Init /\ Reads!Init /\ Deploy!Init
  /\ Paper!Init /\ Activation!Init
  /\ part = "deploy" \/ kind = "session"

Next ==
  /\ UNCHANGED part
  /\ \/ /\ part = "feed" /\ Feed!Next
        /\ UNCHANGED <<recovery, rates, tokens, turns, upgrade, simulation, admission>>
     \/ /\ part = "recovery" /\ Recovery!Next
        /\ UNCHANGED <<feed, rates, tokens, turns, upgrade, simulation, admission>>
     \/ /\ part = "rates" /\ Rates!Next
        /\ UNCHANGED <<feed, recovery, tokens, turns, upgrade, simulation, admission>>
     \/ /\ part = "tokens" /\ Tokens!Next
        /\ UNCHANGED <<feed, recovery, rates, turns, upgrade, simulation, admission>>
     \/ /\ part = "reads" /\ Reads!Next
        /\ UNCHANGED <<feed, recovery, rates, tokens, upgrade, simulation, admission>>
     \/ /\ part = "deploy" /\ Deploy!Next
        /\ UNCHANGED <<feed, recovery, rates, tokens, turns, simulation, admission>>
     \/ /\ part = "paper" /\ Paper!Next
        /\ UNCHANGED <<feed, recovery, rates, tokens, turns, upgrade, admission>>
     \/ /\ part = "activation" /\ Activation!Next
        /\ UNCHANGED <<feed, recovery, rates, tokens, turns, upgrade, simulation>>

\* The feed's tasks run, and the loop calls sync again and again; the operator's
\* tool goes on until it is killed, systemd starts the trader again, somebody
\* removes what a killed tool left, and a running trader reconciles; the main loop
\* finds order_lock free now and then; the scheduler's worker wakes up; systemd
\* starts what is to run, and the activation goes on until it is killed.
Fairness ==
  /\ WF_feed(part = "feed" /\ Feed!Run) /\ WF_feed(part = "feed" /\ Feed!Sync)
  /\ WF_recovery(part = "recovery" /\ Recovery!Work)
  /\ SF_recovery(part = "recovery" /\ Recovery!StartTrader)
  /\ WF_recovery(part = "recovery" /\ Recovery!RemoveStopFile)
  /\ SF_recovery(part = "recovery" /\ Recovery!Reconcile)
  /\ SF_tokens(part = "tokens" /\ Tokens!Rotate)
  /\ WF_tokens(part = "tokens" /\ busy /\ Tokens!Order)
  /\ WF_turns(part = "reads" /\ Reads!Drain)
  /\ WF_admission(part = "activation" /\ Activation!ServiceSteps)
  /\ WF_admission(part = "activation" /\ Activation!ToolSteps)

Spec == Init /\ [][Next]_vars /\ Fairness

-----------------------------------------------------------------------------
\* The types of the six modules.
TypesOK ==
  /\ Feed!TypeOK /\ Recovery!TypeOK /\ Rates!TypeOK
  /\ Tokens!TypeOK /\ Reads!TypeOK /\ Deploy!TypeOK

\* Books come from the live connection and no frame is skipped (transport.py
\* 91-141, service.py 391-458), and a lasting connection ends up subscribed to what
\* is wanted (market_subscriptions.py 37-59).
FeedIsFollowed ==
  [](Feed!BooksAreLive /\ Feed!NothingSkipped) /\ Feed!WantedIsSubscribed

\* A probe is reset at most once (route_recovery.py 36-96), and a late fill of it is
\* booked all the same (orders.py 186-238, ledger.py 132-138).
ProbeIsRepaired == []Recovery!ResetOnce /\ Recovery!LateOrderIsRecorded

\* Entries leave the exits their place in every window (orders.py 100-114).
EntriesLeaveRoom == Rates!EntriesLeaveRoom

\* A replaced token is not traded on (service.py 699-715).
SupersededIsDropped == Tokens!SupersededIsDropped

\* No turn of the read scheduler is lost (read_scheduler.py 34-56).
TurnIsPassed == Reads!TurnIsPassed

\* An upgrade is applied or undone as a whole (upgrade-session-strategies.py
\* 133-167, activate-profit-exit.py 77-128), and orders are sent only by a process
\* whose activation is complete (activate-live.py, cli.py, release.py, session_refresh.py).
AuthorityIsSound == []Deploy!AllOrNothing /\ Activation!AuthorityIsSound

\* The simulated account adds up across kills (seconds_paper.py, seconds_observer.py).
PaperIsExact == Paper!PaperIsExact
=============================================================================
