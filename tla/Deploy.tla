------------------------------- MODULE Deploy -------------------------------
(* The upgrade of the trader: ops/upgrade-session-strategies.py ("session")    *)
(* and ops/activate-profit-exit.py ("profit") stop the service, migrate the    *)
(* ledger, replace three files one by one, start the service and look whether  *)
(* it is active; what fails on the way is compensated. The tool is not killed, *)
(* and its compensation does not fail.                                         *)
EXTENDS Integers

CONSTANTS
  Kinds,       \* "session", "profit"
  MaxFailures  \* bound of failures of the service

VARIABLES
  kind, step,
  changed,
  config, override, marker,  \* production.toml, 95-session-strategies.conf, software_verified.json
  payload, migrated,         \* what the ledger holds, and what the tool has put there
  edited,                    \* whether somebody else changed the configuration
  unit,                      \* the unit systemd has loaded
  service,                   \* its state, and the unit and configuration it was started with
  failures

files == <<config, override, marker>>
systemd == <<unit, service, failures>>
vars == <<kind, step, changed, files, payload, migrated, edited, systemd>>

Versions == {"old", "new"}
Started == [at |-> "up", unit |-> unit, config |-> config]

\* The steps inside the try blocks, and those behind the release of the lock.
Locked == {"locking", "comparing", "migrating", "config", "override", "marker", "verifying"}
Released == {"reloading", "starting", "activating"}
Undoing == {"stopping again", "ledger back", "files back", "reloading back", "starting back"}
Ended == {"applied", "refused"}

-----------------------------------------------------------------------------
(* The way forward *)

\* The checks, which leave the service alone, have passed.
Stop ==
  /\ step = "checked"
  /\ service' = [service EXCEPT !.at = "down"] /\ step' = "locking"
  /\ UNCHANGED <<kind, changed, files, payload, migrated, edited, unit, failures>>

TakeLock ==
  /\ step = "locking"
  /\ step' = "comparing"
  /\ UNCHANGED <<kind, changed, files, payload, migrated, edited, systemd>>

Compare ==
  /\ step = "comparing" /\ ~edited
  /\ step' = IF kind = "profit" THEN "migrating" ELSE "config"
  /\ changed' = (kind = "session")
  /\ UNCHANGED <<kind, files, payload, migrated, edited, systemd>>

\* The exit policy of an open position, or an extra attempt: there may be none.
Migrate(v) ==
  /\ step = "migrating"
  /\ payload' = v /\ migrated' = (v = "new")
  /\ changed' = TRUE /\ step' = "config"
  /\ UNCHANGED <<kind, files, edited, systemd>>

WriteConfig ==
  /\ step = "config"
  /\ config' = "new" /\ step' = "override"
  /\ UNCHANGED <<kind, changed, override, marker, payload, migrated, edited, systemd>>

WriteOverride ==
  /\ step = "override"
  /\ override' = "new" /\ step' = "marker"
  /\ UNCHANGED <<kind, changed, config, marker, payload, migrated, edited, systemd>>

WriteMarker ==
  /\ step = "marker"
  /\ marker' = "new" /\ step' = "verifying"
  /\ UNCHANGED <<kind, changed, config, override, payload, migrated, edited, systemd>>

Verify ==
  /\ step = "verifying"
  /\ step' = "reloading"
  /\ UNCHANGED <<kind, changed, files, payload, migrated, edited, systemd>>

Reload ==
  /\ step = "reloading" \/ step = "reloading back"
  /\ unit' = override
  /\ step' = IF step = "reloading" THEN "starting" ELSE "starting back"
  /\ UNCHANGED <<kind, changed, files, payload, migrated, edited, service, failures>>

\* Starting a service that is up does nothing.
Start ==
  /\ step = "starting" \/ step = "starting back"
  /\ service' = IF service.at = "up" THEN service ELSE Started
  /\ step' = IF step = "starting" THEN "activating" ELSE "refused"
  /\ UNCHANGED <<kind, changed, files, payload, migrated, edited, unit, failures>>

Active ==
  /\ step = "activating" /\ service.at = "up"
  /\ step' = "applied"
  /\ UNCHANGED <<kind, changed, files, payload, migrated, edited, systemd>>

-----------------------------------------------------------------------------
(* The way back *)

\* activate-profit-exit.py stops the service again only to change the ledger.
StopsAgain == step \in Released /\ (kind = "session" \/ migrated)

\* A step that fails has no effect.
Fail ==
  /\ step \in Locked \cup Released
  /\ step' = IF StopsAgain THEN "stopping again" ELSE "ledger back"
  /\ UNCHANGED <<kind, changed, files, payload, migrated, edited, systemd>>

StopAgain ==
  /\ step = "stopping again"
  /\ service' = [service EXCEPT !.at = "down"] /\ step' = "ledger back"
  /\ UNCHANGED <<kind, changed, files, payload, migrated, edited, unit, failures>>

LedgerBack ==
  /\ step = "ledger back"
  /\ payload' = IF migrated THEN "old" ELSE payload
  /\ step' = "files back"
  /\ UNCHANGED <<kind, changed, files, migrated, edited, systemd>>

RestoresComplete == marker = "new" \* mutant
\* A refusal before the first write must not undo somebody else's edit.
Restores == changed

FilesBack ==
  /\ step = "files back"
  /\ IF Restores THEN config' = "old" /\ override' = "old" /\ marker' = "old" ELSE UNCHANGED files
  /\ step' = "reloading back"
  /\ UNCHANGED <<kind, changed, payload, migrated, edited, systemd>>

-----------------------------------------------------------------------------
(* The others *)

\* The configuration may change until the tool compares it.
Edit ==
  /\ step \in {"checked", "locking", "comparing"} /\ ~edited
  /\ config' = "edited" /\ edited' = TRUE
  /\ UNCHANGED <<kind, step, changed, override, marker, payload, migrated, systemd>>

ServiceFails ==
  /\ service.at = "up" /\ failures < MaxFailures
  /\ service' = [service EXCEPT !.at = "failed"] /\ failures' = failures + 1
  /\ UNCHANGED <<kind, step, changed, files, payload, migrated, edited, unit>>

\* Restart=on-failure.
SystemdRestart ==
  /\ service.at = "failed"
  /\ service' = Started
  /\ UNCHANGED <<kind, step, changed, files, payload, migrated, edited, unit, failures>>

Init ==
  /\ kind \in Kinds /\ step = "checked" /\ changed = FALSE
  /\ config = "old" /\ override = "old" /\ marker = "old"
  /\ payload = "old" /\ migrated = FALSE /\ edited = FALSE
  /\ unit = "old" /\ service = Started /\ failures = 0

Next ==
  \/ Stop \/ TakeLock \/ Compare \/ (\E v \in Versions : Migrate(v))
  \/ WriteConfig \/ WriteOverride \/ WriteMarker \/ Verify
  \/ Reload \/ Start \/ Active
  \/ Fail \/ StopAgain \/ LedgerBack \/ FilesBack
  \/ Edit \/ ServiceFails \/ SystemdRestart

-----------------------------------------------------------------------------
(* Properties *)

TypeOK ==
  /\ step \in {"checked"} \cup Locked \cup Released \cup Undoing \cup Ended
  /\ config \in Versions \cup {"edited"} /\ override \in Versions /\ marker \in Versions
  /\ payload \in Versions /\ unit \in Versions
  /\ service.at \in {"up", "down", "failed"} /\ failures \in 0..MaxFailures

\* An upgrade that was applied has replaced all three files, one that was refused
\* has left files and ledger as they were, with the edit somebody made meanwhile;
\* and upgrade-session-strategies.py never lets the new release run on the old
\* configuration, or the old one on the new (upgrade-session-strategies.py
\* 133-167, activate-profit-exit.py 77-128).
AllOrNothing ==
  /\ step = "applied" => files = <<"new", "new", "new">> /\ ~edited
  /\ step = "refused" =>
       files = <<IF edited THEN "edited" ELSE "old", "old", "old">> /\ payload = "old"
  /\ kind = "session" /\ service.at = "up" => (service.unit = "new" <=> service.config = "new")
=============================================================================
