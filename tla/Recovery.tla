------------------------------ MODULE Recovery ------------------------------
(* The repair of a probe of unknown outcome: ops/recover-unknown-route.py with *)
(* route_recovery.py. The tool stops the trader, takes its lock, reads the     *)
(* account flat, has the broker cancel everything, reads it flat twice more    *)
(* and closes the intent; the trader goes on looking for the order, which may  *)
(* still turn up. The attempt was answered by an HTTP error.                   *)
EXTENDS Integers

CONSTANT MaxCrashes  \* bound of crashes of the tool and of the trader

VARIABLES
  \* ledger: state of the intent, orders row, fills row, incidents route-reset:*
  intent, row, filled, notes,
  trader, lock,
  tool,        \* the step of the tool, the reads of the account it has, their verdict,
               \* and whether the first of them showed the whole cash
  stopFile,    \* the drop-in 99-route-recovery-stop.conf
  order,       \* the broker's: held back, listed as open or ended, or gone
  traded,
  resets,      \* DELETE /positions requests sent
  crashes

ledger == <<intent, row, filled, notes>>
host == <<trader, lock, stopFile>>
broker == <<order, traded>>
vars == <<ledger, host, tool, broker, resets, crashes>>

Books == {"orders", "positions", "trades", "funds"}
IdleTool == [at |-> "idle", reads |-> {}, flat |-> TRUE, whole |-> TRUE]
Reading(at) == [tool EXCEPT !.at = at, !.reads = {}, !.flat = TRUE]
Crashed == crashes < MaxCrashes /\ crashes' = crashes + 1

-----------------------------------------------------------------------------
(* The ledger *)

Ended == {"FILLED", "CANCELLED"}
RecoveryClosedValid == intent = "RECOVERY_CLOSED" /\ "complete" \in notes /\ row = "none" /\ ~filled
Pending == intent \notin Ended /\ ~RecoveryClosedValid

EligibleAgain == Pending /\ intent = "SEND_UNKNOWN" /\ row = "none" /\ ~filled \* mutant
\* The sole pending intent is this probe, nothing is known of its order, and no
\* repair of it was ever started.
Eligible ==
  /\ Pending /\ intent = "SEND_UNKNOWN" /\ row = "none" /\ ~filled
  /\ "started" \notin notes

-----------------------------------------------------------------------------
(* The tool *)

Listed == order \in {"open", "ended"}
Whole == order # "open" /\ ~traded
\* What each of the four reads shows at the moment it is served; the later ones
\* must show the cash of the first.
ShowsFlat(book) ==
  CASE book = "orders" -> ~Listed
    [] book \in {"positions", "trades"} -> ~traded
    [] book = "funds" -> tool.at \in {"after", "again"} => Whole = tool.whole

\* The dry run has passed, and systemd stops the trader.
Begin ==
  /\ tool.at = "idle" /\ ~stopFile
  /\ Eligible /\ \A b \in Books : ShowsFlat(b)
  /\ stopFile' = TRUE /\ trader' = "down"
  /\ lock' = IF trader = "up" THEN "free" ELSE lock
  /\ tool' = Reading("stopped")
  /\ UNCHANGED <<ledger, broker, resets, crashes>>

TakeLock ==
  /\ tool.at = "stopped"
  /\ IF lock = "free" THEN lock' = "tool" /\ tool' = Reading("before")
     ELSE tool' = Reading("finishing") /\ UNCHANGED lock
  /\ UNCHANGED <<ledger, trader, stopFile, broker, resets, crashes>>

Read(book) ==
  /\ tool.at \in {"before", "after", "again"} /\ book \notin tool.reads
  /\ tool' = [tool EXCEPT !.reads = @ \cup {book}, !.flat = @ /\ ShowsFlat(book),
                !.whole = IF tool.at = "before" /\ book = "funds" THEN Whole ELSE @]
  /\ UNCHANGED <<ledger, host, broker, resets, crashes>>

AllRead == tool.reads = Books

Started ==
  /\ tool.at = "before" /\ AllRead
  /\ IF tool.flat /\ Eligible
     THEN notes' = notes \cup {"started"} /\ tool' = Reading("started")
     ELSE tool' = Reading("finishing") /\ UNCHANGED notes
  /\ UNCHANGED <<intent, row, filled, host, broker, resets, crashes>>

Post ==
  /\ tool.at = "started"
  /\ resets' = resets + 1 /\ tool' = Reading("resetting")
  /\ UNCHANGED <<ledger, host, broker, crashes>>

\* The broker cancels what is open, and sells what is held.
Cancelled == IF order = "open" THEN "ended" ELSE order

Answers == {"confirmed", "other", "error"}
Answer(a) ==
  /\ tool.at = "resetting"
  /\ order' \in IF a = "confirmed" THEN {Cancelled} ELSE {order, Cancelled}
  /\ notes' = notes \cup (CASE a = "confirmed" -> {"response", "ack"}
                            [] a = "other" -> {"response", "unconfirmed"}
                            [] a = "error" -> {"failure"})
  /\ tool' = IF a = "confirmed" THEN Reading("after") ELSE Reading("finishing")
  /\ UNCHANGED <<intent, row, filled, host, traded, resets, crashes>>

After ==
  /\ tool.at = "after" /\ AllRead
  /\ tool' = IF tool.flat THEN Reading("again") ELSE Reading("finishing")
  /\ UNCHANGED <<ledger, host, broker, resets, crashes>>

\* One transaction: the obligation is unchanged, the receipt, and the state.
Commit ==
  /\ tool.at = "again" /\ AllRead
  /\ IF tool.flat /\ intent = "SEND_UNKNOWN" /\ row = "none" /\ ~filled
     THEN intent' = "RECOVERY_CLOSED" /\ notes' = notes \cup {"complete"}
     ELSE UNCHANGED <<intent, notes>>
  /\ tool' = Reading("finishing")
  /\ UNCHANGED <<row, filled, host, broker, resets, crashes>>

\* The finally: the lock is released, the drop-in removed, the trader started.
Finish ==
  /\ tool.at = "finishing"
  /\ stopFile' = FALSE /\ tool' = IdleTool
  /\ trader' = "up" /\ lock' = "trader"
  /\ UNCHANGED <<ledger, broker, resets, crashes>>

\* A killed tool leaves the drop-in and a stopped trader, and its DELETE on the way.
CrashTool ==
  /\ tool.at # "idle" /\ Crashed
  /\ order' \in IF tool.at = "resetting" THEN {order, Cancelled} ELSE {order}
  /\ tool' = IdleTool
  /\ lock' = IF lock = "tool" THEN "free" ELSE lock
  /\ UNCHANGED <<ledger, trader, stopFile, traded, resets>>

RemoveStopFile ==
  /\ tool.at = "idle" /\ stopFile
  /\ stopFile' = FALSE
  /\ UNCHANGED <<ledger, trader, lock, tool, broker, resets, crashes>>

-----------------------------------------------------------------------------
(* The trader *)

StartTrader ==
  /\ trader = "down" /\ lock = "free"
  /\ trader' = "up" /\ lock' = "trader"
  /\ UNCHANGED <<ledger, stopFile, tool, broker, resets, crashes>>

CrashTrader ==
  /\ trader = "up" /\ Crashed
  /\ trader' = "down" /\ lock' = "free"
  /\ UNCHANGED <<ledger, stopFile, tool, broker, resets>>

LookedForPending == Pending \* mutant
\* reconcile looks up every intent without a known end, RECOVERY_CLOSED included.
LookedFor == intent \notin Ended

\* record_order reopens what a repair had closed.
Recorded ==
  /\ row' = order
  /\ notes' = IF intent = "RECOVERY_CLOSED" THEN notes \cup {"reopened"} ELSE notes

Reconcile ==
  /\ trader = "up" /\ LookedFor /\ Listed
  /\ Recorded
  /\ filled' = traded
  /\ intent' = IF order = "ended" THEN IF traded THEN "FILLED" ELSE "CANCELLED"
               ELSE IF intent = "RECOVERY_CLOSED" THEN "SENT" ELSE intent
  /\ UNCHANGED <<host, tool, broker, resets, crashes>>

\* The process stops behind record_order.
CrashInReconcile ==
  /\ trader = "up" /\ LookedFor /\ Listed /\ Crashed
  /\ Recorded
  /\ intent' = IF intent = "RECOVERY_CLOSED" THEN "SENT" ELSE intent
  /\ trader' = "down" /\ lock' = "free"
  /\ UNCHANGED <<filled, stopFile, tool, broker, resets>>

-----------------------------------------------------------------------------
(* The broker *)

\* The order that was answered by an error turns up, or never does.
Appear ==
  /\ order = "held"
  /\ order' \in {"open", "gone"}
  /\ UNCHANGED <<ledger, host, tool, traded, resets, crashes>>

End(t) ==
  /\ order = "open"
  /\ order' = "ended" /\ traded' = t
  /\ UNCHANGED <<ledger, host, tool, resets, crashes>>

Init ==
  /\ intent = "SEND_UNKNOWN" /\ row = "none" /\ filled = FALSE /\ notes = {}
  /\ trader = "up" /\ lock = "trader" /\ stopFile = FALSE
  /\ tool = IdleTool
  /\ order = "held" /\ traded = FALSE
  /\ resets = 0 /\ crashes = 0

Work == TakeLock \/ (\E b \in Books : Read(b)) \/ Started \/ Post
          \/ (\E a \in Answers : Answer(a)) \/ After \/ Commit \/ Finish
Next == Begin \/ Work \/ CrashTool \/ RemoveStopFile
          \/ StartTrader \/ CrashTrader \/ Reconcile \/ CrashInReconcile
          \/ Appear \/ (\E t \in BOOLEAN : End(t))

-----------------------------------------------------------------------------
(* Properties *)

TypeOK ==
  /\ intent \in {"SEND_UNKNOWN", "SENT", "RECOVERY_CLOSED"} \cup Ended
  /\ row \in {"none", "open", "ended"} /\ filled \in BOOLEAN
  /\ trader \in {"up", "down"} /\ lock \in {"free", "trader", "tool"}
  /\ (trader = "up" <=> lock = "trader") /\ stopFile \in BOOLEAN
  /\ tool.reads \subseteq Books /\ tool.flat \in BOOLEAN /\ tool.whole \in BOOLEAN
  /\ order \in {"held", "open", "ended", "gone"} /\ traded \in BOOLEAN /\ resets \in Nat

\* The broker is asked to cancel everything at most once for a probe, whatever the
\* answer and however often the tool is killed and called again
\* (route_recovery.py 55-59).
ResetOnce == resets <= 1

\* An order that turns up after all, even after the repair closed its intent, is
\* found, and its fill booked (orders.py 186-194, ledger.py 93-104, 133-138).
LateOrderIsRecorded == traded ~> (filled /\ intent = "FILLED")
=============================================================================
