------------------------------ MODULE Incidents ------------------------------
(* What is wrong with the trader becomes an incident, and an incident that     *)
(* lasts calls an agent to repair it: the collector checks what the trader     *)
(* publishes and keeps a file of incidents (dashboard/operations.py,           *)
(* dashboard/collect.py); a second machine reads it each minute and starts at  *)
(* most a few agents a day (ops/incident-repair.py). Both may be killed.       *)
EXTENDS Integers, Sequences, FiniteSets, SequencesExt

CONSTANTS
  Traders,     \* what the trader's status may be: what is wrong, and what it is there for
  Confirm,     \* time a fault lasts before it counts: 30 seconds
  Fresh,       \* of the file and of the answer: 20 and 60 seconds
  Pause,       \* after a run that repaired nothing: 5 minutes
  Grace,       \* of a monitor that does not answer: 60 seconds
  MaxDaily,    \* agents a day: 2
  Kept,        \* resolved incidents that are kept: 128
  DayLength,
  MaxTime, MaxFaults  \* bounds

VARIABLES
  now,
  trader,     \* its status
  file,       \* operations.json
  checked,    \* operations-health.json
  since,      \* since when each code was found by every check
  state,      \* the runner's state.json
  asked,      \* when the runner last asked
  run,        \* of the agent, or Idle
  agents,     \* that were started
  faults

vars == <<now, trader, file, checked, since, state, asked, run, agents, faults>>

Never == -1
NoFile == [at |-> Never, incidents |-> <<>>]
NewState == [attempts |-> <<>>, handled |-> {}, retry |-> <<>>, down |-> Never]
Idle == [phase |-> "IDLE", ids |-> {}, day |-> Never]
Day(t) == t \div DayLength
Recent(t) == t # Never /\ now - t <= Fresh
Get(f, x, default) == IF x \in DOMAIN f THEN f[x] ELSE default
Put(f, x, v) == [y \in DOMAIN f \cup {x} |-> IF y = x THEN v ELSE f[y]]

-----------------------------------------------------------------------------
(* fault_candidates *)

Always == {"TRADER_STALE", "ROUTE_OUTCOME_UNKNOWN", "REPLAY_FAILED", "DAY_AUDIT_UNAVAILABLE",
  "READY_NOT_DISPATCHED"}
WhenRequired == {"ACCOUNT_READ_FAILED", "ACCOUNT_NOT_RECONCILED", "SOFTWARE_UNVERIFIED",
  "OPTIONS_DISCONNECTED", "ORDERS_DISCONNECTED", "OPTIONS_STALE"}
WhenFunded == {"ROUTE_UNQUALIFIED", "FUTURES_UNUSABLE", "STRATEGY_CHECK_STALE",
  "SESSION_STATE_MISMATCH", "STRATEGY_INPUT_UNAVAILABLE"}
Immediate == {"ROUTE_OUTCOME_UNKNOWN", "REPLAY_FAILED", "READY_NOT_DISPATCHED", "SOFTWARE_UNVERIFIED"}

\* A trader that has nothing to do misses nothing it would need.
Required == trader.open \/ trader.held
FaultCandidates ==
  {code \in trader.wrong :
     \/ code \in Always
     \/ code \in WhenRequired /\ Required
     \/ code \in WhenFunded /\ Required /\ trader.funded
     \/ code = "MARKET_SESSION_UNKNOWN" /\ (trader.funded \/ trader.held)}

-----------------------------------------------------------------------------
(* advance_incidents, build_operations *)

Unresolved(i) == i.state # "RESOLVED"
StateOf(code, first) ==
  IF code \in Immediate \/ now - first >= Confirm THEN "OPEN" ELSE "PENDING"
\* An incident that is not over: seen again, or resolved.
Seen(i, codes) ==
  IF ~Unresolved(i) THEN i
  ELSE IF i.code \notin codes THEN [i EXCEPT !.state = "RESOLVED"]
  ELSE [i EXCEPT !.last = now,
                 !.state = IF StateOf(i.code, i.first) = "OPEN" THEN "OPEN" ELSE @]
\* A mutant of Appeared: a pending incident is taken for none.
AppearedUnlessOpen(incidents, codes) ==
  codes \ {i.code : i \in {j \in ToSet(incidents) : j.state = "OPEN"}}
\* The codes that are new.
Appeared(incidents, codes) ==
  codes \ {i.code : i \in {j \in ToSet(incidents) : Unresolved(j)}}
Record(code) == [code |-> code, first |-> now, last |-> now, state |-> StateOf(code, now)]
\* What is at the places "at" of s, in its order.
InOrder(s, at) ==
  [n \in 1..Cardinality(at) |-> s[CHOOSE k \in at : Cardinality({j \in at : j <= k}) = n]]
\* The resolved incidents that are last in the file are kept, and all that are not over.
Advance(incidents, codes) ==
  LET all == [i \in DOMAIN incidents |-> Seen(incidents[i], codes)]
               \o SetToSeq({Record(code) : code \in Appeared(incidents, codes)})
      live == {k \in DOMAIN all : Unresolved(all[k])}
      over == DOMAIN all \ live
  IN InOrder(all, {k \in over : Cardinality({j \in over : j > k}) < Kept}) \o InOrder(all, live)

\* A check of the collector: the file is replaced at once, its health after it.
Replace ==
  /\ file' = [at |-> now, incidents |-> Advance(file.incidents, FaultCandidates)]
  /\ since' = [code \in FaultCandidates |-> Get(since, code, now)]
Check ==
  /\ checked.at < now
  /\ Replace
  /\ checked' = [at |-> now, ok |-> TRUE]
  /\ UNCHANGED <<now, trader, state, asked, run, agents, faults>>

\* The check fails: the file is unreadable, or cannot be written; or the summary of the
\* day, which is written after it.
CheckFails ==
  /\ checked.at < now /\ faults < MaxFaults /\ faults' = faults + 1
  /\ checked' = [at |-> now, ok |-> FALSE]
  /\ Replace \/ UNCHANGED <<file, since>>
  /\ UNCHANGED <<now, trader, state, asked, run, agents>>

\* operations_view, incident-report.py: whether the answer tells of now.
Current == checked.at # Never /\ checked.ok /\ Recent(checked.at) /\ Recent(file.at)

-----------------------------------------------------------------------------
(* incident-repair.py *)

Id(i) == <<i.code, i.first>>
Attempts(d) == Get(state.attempts, d, 0)
\* A mutant of Due: the pause is not waited for.
DueUnhandled(id) == id \notin state.handled \/ id \in DOMAIN state.retry
\* An incident once handled is only handled again when its pause is over.
Due(id) == id \notin state.handled \/ Get(state.retry, id, MaxTime + 1) <= now
\* choose_incidents, of the incidents that are open
Choose(ids) == IF Attempts(Day(now)) >= MaxDaily THEN {} ELSE {id \in ids : Due(id)}
OpenIds == {Id(i) : i \in {j \in ToSet(file.incidents) : j.state = "OPEN"}}

\* The attempt is counted before the agent is started. The list of those handled is cut to
\* its last 1024, more than the attempts of weeks can name: it is not cut here.
Consume(ids, down) ==
  /\ state' = [state EXCEPT !.attempts = Put(@, Day(now), Attempts(Day(now)) + 1),
                            !.handled = @ \cup ids, !.down = down]
  /\ run' = [phase |-> "SAVED", ids |-> ids, day |-> Day(now)]

Ask == asked < now /\ asked' = now

\* A check of the runner that gets an answer; the lock keeps other runners out.
RunnerCheck ==
  /\ run = Idle /\ Current /\ Ask
  /\ IF Choose(OpenIds) # {}
     THEN Consume(Choose(OpenIds), Never)
     ELSE state' = [state EXCEPT !.down = Never] /\ UNCHANGED run
  /\ UNCHANGED <<now, trader, file, checked, since, agents, faults>>

\* The answer says that the monitor is not current. That is an incident of its own.
MonitorDown ==
  LET down == IF state.down = Never THEN now ELSE state.down
      chosen == Choose({<<"MONITOR_UNAVAILABLE", down>>})
  IN
  /\ run = Idle /\ ~Current /\ Ask
  /\ IF now - down >= Grace /\ chosen # {}
     THEN Consume(chosen, down)
     ELSE state' = [state EXCEPT !.down = down] /\ UNCHANGED run
  /\ UNCHANGED <<now, trader, file, checked, since, agents, faults>>

StartAgent ==
  /\ run.phase = "SAVED"
  /\ run' = [run EXCEPT !.phase = "RUNNING"]
  /\ agents' = Append(agents, [ids |-> run.ids, at |-> now, ended |-> Never, day |-> run.day])
  /\ UNCHANGED <<now, trader, file, checked, since, asked, state, faults>>

\* The end of the agent proves nothing: the runner asks again, and tries again later.
Repaired == Current /\ OpenIds = {}
AgentEnds ==
  /\ run.phase = "RUNNING"
  /\ agents' = [agents EXCEPT ![Len(agents)].ended = now]
  /\ state' = IF Repaired THEN state
              ELSE [state EXCEPT !.retry = [id \in DOMAIN @ \cup run.ids |->
                                              IF id \in run.ids THEN now + Pause ELSE @[id]]]
  /\ run' = Idle
  /\ UNCHANGED <<now, trader, file, checked, since, asked, faults>>

KillRunner ==
  /\ run # Idle /\ faults < MaxFaults /\ faults' = faults + 1
  /\ run' = Idle
  /\ UNCHANGED <<now, trader, file, checked, since, asked, state, agents>>

-----------------------------------------------------------------------------

\* The time between two checks passes, of the collector as of the runner.
Tick ==
  /\ now < MaxTime /\ now' = now + 1 /\ trader' \in Traders
  /\ UNCHANGED <<file, checked, since, state, asked, run, agents, faults>>

Init ==
  /\ now = 0 /\ trader \in Traders /\ file = NoFile /\ checked = [at |-> Never, ok |-> FALSE]
  /\ since = <<>> /\ state = NewState /\ run = Idle /\ asked = Never /\ agents = <<>> /\ faults = 0

Next ==
  \/ Tick \/ Check \/ CheckFails
  \/ RunnerCheck \/ MonitorDown \/ StartAgent \/ AgentEnds \/ KillRunner

Spec == Init /\ [][Next]_vars

-----------------------------------------------------------------------------
(* Properties *)

\* At most one incident of a code is not over; it is open only when its code is found at
\* once or was found by every check for the time it takes, and pending otherwise.
IncidentsAreConfirmed ==
  LET live == {k \in DOMAIN file.incidents : Unresolved(file.incidents[k])} IN
  /\ \A k, l \in live : file.incidents[k].code = file.incidents[l].code => k = l
  /\ DOMAIN since = {file.incidents[k].code : k \in live}
  /\ \A k \in live :
       LET i == file.incidents[k] IN
       /\ i.first = since[i.code] /\ i.last = file.at
       /\ i.state = "OPEN" <=> i.code \in Immediate \/ i.last - i.first >= Confirm

\* The checks of a day start no more agents than may be, whatever is killed and when.
Started(d) == {k \in DOMAIN agents : agents[k].day = d}
AgentsWithinBudget == \A d \in 0..Day(MaxTime) : Cardinality(Started(d)) <= MaxDaily

\* An agent is started a second time for an incident only when an earlier one ended long
\* enough ago.
RepeatsAreDue ==
  \A k \in DOMAIN agents : \A id \in agents[k].ids :
    (\E j \in 1..(k - 1) : id \in agents[j].ids) =>
      \E j \in 1..(k - 1) :
        id \in agents[j].ids /\ agents[j].ended # Never /\ agents[j].ended + Pause <= agents[k].at

IncidentsAreHandled == IncidentsAreConfirmed /\ AgentsWithinBudget /\ RepeatsAreDue
=============================================================================
