----------------------------- MODULE Activation -----------------------------
(* How the trader gets to send orders at all: a verification of the source     *)
(* (release.py), the first activation by the operator (ops/activate-live.py),  *)
(* systemd, the sessions of the service (service.py), the daily restart of a   *)
(* service that may not send orders (session_refresh.py), enable and disarm    *)
(* (cli.py). The parts run side by side and each may be killed between any two *)
(* steps. The account's checks and the amount are left out.                    *)
EXTENDS Integers, Sequences

CONSTANTS
  MaxSource,  \* versions of the source
  MaxFaults,  \* kills, crashes and boots
  MaxRuns     \* starts of a verification, of the daily restart, of the activation

VARIABLES
  source, marker, verification,
  mandate, config, interlock,    \* mandate.json, production.toml, and whether no override lifts it
  ledger,                        \* the mandate and the activation it records, and disarmed
  unit, timer,                   \* whether the unit systemd has loaded is read-only
  service, lock,
  tool, refresh,
  runs, faults,
  tested, slipped,               \* versions that passed, and that came as a marker was written
  wish                           \* of the operator, the last one that was put down

files == <<mandate, config, interlock>>
code == <<source, marker, verification, tested, slipped>>
vars == <<code, files, ledger, unit, timer, service, lock, tool, refresh, runs, faults, wish>>

None == 0
Sources == 1..MaxSource
NoSession == [writes |-> FALSE, verified |-> FALSE]

-----------------------------------------------------------------------------
(* release.py: run_verification *)

Verified == marker = source

\* The marker goes first.
Verify ==
  /\ verification.at = "idle" /\ runs < MaxRuns /\ runs' = runs + 1
  /\ marker' = None /\ verification' = [at |-> "testing", of |-> source]
  /\ UNCHANGED <<source, tested, slipped, files, ledger, unit, timer, service, lock, tool, refresh, faults, wish>>

\* A mutant of Unchanged: it is not compared.
UnchangedUnasked == TRUE
\* The tests pass, and the source is the one they began with.
Unchanged == source = verification.of
Passes ==
  /\ verification.at = "testing" /\ Unchanged
  /\ verification' = [verification EXCEPT !.at = "passed"]
  /\ tested' = tested \cup {verification.of}
  /\ UNCHANGED <<source, marker, slipped, files, ledger, unit, timer, service, lock, tool, refresh, runs, faults, wish>>

\* write_verification: the digest is taken once more.
WriteMarker ==
  /\ verification.at = "passed"
  /\ marker' = source /\ verification' = [verification EXCEPT !.at = "idle"]
  /\ UNCHANGED <<source, tested, slipped, files, ledger, unit, timer, service, lock, tool, refresh, runs, faults, wish>>

\* The tests fail, the source has changed, or the process is killed.
VerificationEnds ==
  /\ verification.at # "idle" /\ verification' = [verification EXCEPT !.at = "idle"]
  /\ UNCHANGED <<source, marker, tested, slipped, files, ledger, unit, timer, service, lock, tool, refresh, runs, faults, wish>>

\* Another version is put there.
Edit ==
  /\ source < MaxSource /\ source' = source + 1
  /\ slipped' = IF verification.at = "passed" THEN slipped \cup {source'} ELSE slipped
  /\ UNCHANGED <<marker, verification, tested, files, ledger, unit, timer, service, lock, tool, refresh, runs, faults, wish>>

-----------------------------------------------------------------------------
(* systemd and the service *)

Loaded == interlock
Started(s) == [s EXCEPT !.at = "starting", !.readOnly = unit, !.session = NoSession]
Stopped(s) == [s EXCEPT !.at = "down", !.session = NoSession]
LockAfterStop == IF lock = "service" THEN "free" ELSE lock

\* DhanBroker: what a session may do is read as it begins, but for the environment.
Session ==
  [writes |-> config = "live" /\ mandate = "live" /\ ~service.readOnly, verified |-> Verified]
Begins(session) ==
  /\ service' = [service EXCEPT !.at = "up", !.session = session, !.source = source]
  /\ ledger' = IF session.writes THEN [ledger EXCEPT !.mandate = mandate] ELSE ledger

\* run_service: one process is the account's writer. Another fails, and is tried again.
Acquire ==
  /\ service.at = "starting"
  /\ IF lock = "free"
     THEN lock' = "service" /\ Begins(Session)
     ELSE service' = [service EXCEPT !.at = "failed"] /\ UNCHANGED <<lock, ledger>>
  /\ UNCHANGED <<code, files, unit, timer, tool, refresh, runs, faults, wish>>

NewSession ==
  /\ service.at = "up" /\ Begins(Session)
  /\ UNCHANGED <<code, files, unit, timer, lock, tool, refresh, runs, faults, wish>>

\* Restart=on-failure
Restart ==
  /\ service.at = "failed" /\ service' = Started(service)
  /\ UNCHANGED <<code, files, ledger, unit, timer, lock, tool, refresh, runs, faults, wish>>

Crash ==
  /\ service.at = "up" /\ faults < MaxFaults /\ faults' = faults + 1
  /\ service' = [Stopped(service) EXCEPT !.at = "failed"] /\ lock' = "free"
  /\ UNCHANGED <<code, files, ledger, unit, timer, tool, refresh, runs, wish>>

\* permit_entry, of what is modelled here
MayOrder ==
  service.at = "up" /\ service.session.writes /\ service.session.verified /\ ~ledger.disarmed

Trade ==
  /\ MayOrder /\ ledger' = [ledger EXCEPT !.history = TRUE]
  /\ UNCHANGED <<code, files, unit, timer, service, lock, tool, refresh, runs, faults, wish>>

-----------------------------------------------------------------------------
(* ops/activate-live.py *)

\* A mutant of Steps: what lifts the interlock is written first.
StepsOverrideFirst ==
  <<"stop", "lock", "override", "mandate", "config", "ledger", "armed", "recorded", "unlock", "timer",
    "reload", "start", "done">>
\* A mutant of Steps: the units are not loaded again.
StepsWithoutReload ==
  <<"stop", "lock", "mandate", "config", "ledger", "armed", "recorded", "override", "unlock", "timer",
    "start", "done">>
Steps ==
  <<"stop", "lock", "mandate", "config", "ledger", "armed", "recorded", "override", "unlock", "timer",
    "reload", "start", "done">>
At(step) == tool.at \in DOMAIN Steps /\ Steps[tool.at] = step
Advance == tool' = [tool EXCEPT !.at = @ + 1]
Ended == tool.at = 0 \/ At("done")

\* Nothing was traded, and nothing is live yet: an activation is not repeated.
Activate ==
  /\ Ended /\ runs < MaxRuns /\ runs' = runs + 1
  /\ Verified /\ config = "off" /\ mandate = "off" /\ ~ledger.history
  /\ tool' = [at |-> 1, of |-> source, disturbed |-> FALSE]
  /\ UNCHANGED <<code, files, ledger, unit, timer, service, lock, refresh, faults, wish>>

StopService ==
  /\ At("stop") /\ Advance /\ service' = Stopped(service) /\ lock' = LockAfterStop
  /\ UNCHANGED <<code, files, ledger, unit, timer, refresh, runs, faults, wish>>

\* A service that was started meanwhile has the lock: the tool ends.
TakeLock ==
  /\ At("lock")
  /\ IF lock = "free" THEN lock' = "tool" /\ Advance
     ELSE tool' = [tool EXCEPT !.at = 0] /\ UNCHANGED lock
  /\ UNCHANGED <<code, files, ledger, unit, timer, service, refresh, runs, faults, wish>>

WriteFiles ==
  /\ \/ At("mandate") /\ mandate' = "live" /\ UNCHANGED <<config, interlock>>
     \/ At("config") /\ config' = "live" /\ UNCHANGED <<mandate, interlock>>
     \/ At("override") /\ interlock' = FALSE /\ UNCHANGED <<mandate, config>>
  /\ refresh' = IF refresh = "checked" THEN "overtaken" ELSE refresh
  /\ Advance
  /\ UNCHANGED <<code, ledger, unit, timer, service, lock, runs, faults, wish>>

\* Three transactions.
WriteLedger ==
  /\ \/ At("ledger") /\ ledger' = [ledger EXCEPT !.mandate = "live"] /\ UNCHANGED wish
     \/ At("armed") /\ ledger' = [ledger EXCEPT !.disarmed = FALSE] /\ wish' = "go"
     \/ At("recorded") /\ ledger' = [ledger EXCEPT !.of = source] /\ UNCHANGED wish
  /\ Advance
  /\ UNCHANGED <<code, files, unit, timer, service, lock, refresh, runs, faults>>

Unlock ==
  /\ At("unlock") /\ Advance /\ lock' = "free"
  /\ UNCHANGED <<code, files, ledger, unit, timer, service, refresh, runs, faults, wish>>

\* A service that is there is not started again.
CallSystemd ==
  /\ \/ At("timer") /\ timer' = FALSE /\ UNCHANGED <<unit, service>>
     \/ At("reload") /\ unit' = Loaded /\ UNCHANGED <<timer, service>>
     \/ /\ At("start") /\ UNCHANGED <<timer, unit>>
        /\ service' = IF service.at \in {"down", "failed"} THEN Started(service) ELSE service
  /\ Advance
  /\ UNCHANGED <<code, files, ledger, lock, refresh, runs, faults, wish>>

\* The tool is killed, or a step of it fails.
ToolEnds ==
  /\ ~Ended /\ faults < MaxFaults /\ faults' = faults + 1
  /\ tool' = [tool EXCEPT !.at = 0] /\ lock' = IF lock = "tool" THEN "free" ELSE lock
  /\ UNCHANGED <<code, files, ledger, unit, timer, service, refresh, runs, wish>>

-----------------------------------------------------------------------------
(* session_refresh.py, by a timer *)

\* A mutant of Refreshable: only the unit is looked at.
RefreshableByUnit == unit
\* What it looks at, and the restart, are two things.
Refreshable == config = "off" /\ mandate = "off" /\ unit
RefreshCheck ==
  /\ timer /\ refresh = "idle" /\ runs < MaxRuns /\ runs' = runs + 1
  /\ Refreshable /\ refresh' = "checked"
  /\ UNCHANGED <<code, files, ledger, unit, timer, service, lock, tool, faults, wish>>

RefreshRestart ==
  /\ refresh # "idle" /\ refresh' = "idle"
  /\ service' = Started(service) /\ lock' = LockAfterStop
  /\ tool' = [tool EXCEPT !.disturbed = TRUE]
  /\ UNCHANGED <<code, files, ledger, unit, timer, runs, faults, wish>>

-----------------------------------------------------------------------------
(* cli.py: they write to the ledger whoever else is at work *)

Enable ==
  /\ config = "live" /\ mandate = "live" /\ Verified
  /\ ledger' = [ledger EXCEPT !.disarmed = FALSE] /\ wish' = "go"
  /\ UNCHANGED <<code, files, unit, timer, service, lock, tool, refresh, runs, faults>>

Disarm ==
  /\ ledger' = [ledger EXCEPT !.disarmed = TRUE] /\ wish' = "stop"
  /\ UNCHANGED <<code, files, unit, timer, service, lock, tool, refresh, runs, faults>>

\* The machine starts again: systemd reads its files, and starts the service if it is enabled.
Boot(starts) ==
  /\ faults < MaxFaults /\ faults' = faults + 1
  /\ unit' = Loaded /\ lock' = "free"
  /\ service' = IF starts THEN [Started(service) EXCEPT !.readOnly = Loaded] ELSE Stopped(service)
  /\ tool' = [tool EXCEPT !.at = IF Ended THEN @ ELSE 0] /\ refresh' = "idle"
  /\ verification' = [verification EXCEPT !.at = "idle"]
  /\ UNCHANGED <<source, marker, tested, slipped, files, ledger, timer, runs, wish>>

Init ==
  /\ source = 1 /\ marker = None /\ verification = [at |-> "idle", of |-> 1]
  /\ tested = {} /\ slipped = {} /\ wish = "none"
  /\ mandate = "off" /\ config = "off" /\ interlock = TRUE
  /\ ledger = [mandate |-> "off", disarmed |-> FALSE, of |-> None, history |-> FALSE]
  /\ unit = TRUE /\ timer = TRUE /\ lock = "free"
  /\ service = [at |-> "down", readOnly |-> TRUE, session |-> NoSession, source |-> None]
  /\ tool = [at |-> 0, of |-> None, disturbed |-> FALSE] /\ refresh = "idle"
  /\ runs = 0 /\ faults = 0

ServiceSteps == Acquire \/ Restart
ToolSteps ==
  StopService \/ TakeLock \/ WriteFiles \/ WriteLedger \/ Unlock \/ CallSystemd
Next ==
  \/ Verify \/ Passes \/ WriteMarker \/ VerificationEnds \/ Edit
  \/ ServiceSteps \/ NewSession \/ Crash \/ Trade
  \/ Activate \/ ToolSteps \/ ToolEnds
  \/ RefreshCheck \/ RefreshRestart \/ Enable \/ Disarm
  \/ \E starts \in BOOLEAN : Boot(starts)

Spec == Init /\ [][Next]_vars /\ WF_vars(ServiceSteps) /\ WF_vars(ToolSteps)

-----------------------------------------------------------------------------
(* Properties *)

\* Whatever is killed, booted or started by itself on the way, no process may send orders
\* before the activation is complete: the mandate is the ledger's, the source is recorded,
\* and the operator's last word was not to stop.
OrdersAreAuthorised ==
  MayOrder =>
    /\ config = "live" /\ mandate = "live" /\ ledger.mandate = "live" /\ ledger.of # None
    /\ wish = "go"

\* A session that takes its source for verified began on a version that passed. Only one put
\* there as the marker was being written, after the comparison, is taken for another.
VerifiedIsTested ==
  service.session.verified => service.source \in tested \cup slipped

\* The daily restart does not hit a process that may send orders, unless the activation
\* began between its check and the restart.
FundedNotRestarted ==
  [][refresh = "checked" /\ refresh' = "idle" /\ faults' = faults => ~service.session.writes]_vars

\* An activation that ends undisturbed takes effect.
ActivationTakesEffect ==
  (At("done") /\ ~tool.disturbed /\ faults = 0) ~>
    (service.session.writes \/ faults > 0 \/ tool.disturbed)

AuthorityIsSound ==
  []OrdersAreAuthorised /\ []VerifiedIsTested /\ FundedNotRestarted /\ ActivationTakesEffect
=============================================================================
