------------------------------ MODULE Recorder ------------------------------
(* What is received is recorded twice: the frames of the feeds in a compressed *)
(* journal of the day (replay_journal.py), the evidence of a decision in the   *)
(* ledger's observations (service.py, record_legacy_frame). Each goes through  *)
(* a bounded queue and a worker that writes in another thread, so that it      *)
(* never holds up an order; what is lost is told to the loop (recorder_failed),*)
(* which then opens no position.                                               *)
EXTENDS Integers, Sequences

CONSTANTS
  Room,     \* of a queue: 4096
  Batch,    \* rows a worker writes at once: 256 and 128
  MaxRows, MaxStarts, MaxFaults  \* bounds

Logs == {"capture", "records"}
Kinds == {"market", "future", "evidence"}
\* The logs a receipt is offered to, within the window of the auction or with a position.
Offers(kind) ==
  CASE kind = "market" -> Logs
    [] kind = "future" -> {"capture"}
    [] OTHER -> {"records"}

VARIABLES
  start,      \* the session of the process, counted
  stage,      \* DOWN, UP, or the log that is being drained on the way out
  health,     \* of the journal
  failed,     \* recorder_failed
  serial,     \* rows the journal has numbered
  queue, batch,
  late,       \* batches whose worker is gone, which a thread may still write
  offered,    \* what was received for a log in this session
  disk,       \* what the file and the table hold, from all sessions
  faults

vars == <<start, stage, health, failed, serial, queue, batch, late, offered, disk, faults>>

Torn == [start |-> 0, id |-> 0, serial |-> 0]   \* the rest of writes that broke off
Bad == {"CAP_REACHED", "DISK_RESERVE", "QUEUE_OVERFLOW", "WRITE_FAILED"}
Empty == [log \in Logs |-> <<>>]
First(s, n) == IF Len(s) <= n THEN s ELSE SubSeq(s, 1, n)
Rest(s, n) == IF Len(s) <= n THEN <<>> ELSE SubSeq(s, n + 1, Len(s))
Received == Len(offered["capture"]) + Len(offered["records"])
NextId(log) == Len(offered[log]) + 1
NoneLate == [log \in Logs |-> {}]

-----------------------------------------------------------------------------
(* The session *)

\* New queues, a new journal: the name of its rows and their numbers begin anew.
\* Old files that cannot be removed stop the journal.
Start ==
  /\ stage = "DOWN" /\ start < MaxStarts
  /\ start' = start + 1 /\ stage' = "UP"
  /\ serial' = 0 /\ queue' = Empty /\ batch' = Empty /\ offered' = Empty
  /\ \/ health' = "WAITING" /\ failed' = FALSE /\ UNCHANGED faults
     \/ /\ faults < MaxFaults /\ faults' = faults + 1
        /\ health' = "WRITE_FAILED" /\ failed' = TRUE
  /\ UNCHANGED <<late, disk>>

\* Whether a log takes the row: the journal takes none after a failure.
Wants(log, kind) == log \in Offers(kind) /\ (log = "capture" => health \notin Bad)
Full(log) == Len(queue[log]) = Room

\* A mutant of Lost: only the journal tells that it lost a row.
LostByTheJournal(wants, takes) == "capture" \in wants \ takes
\* A row that finds the queue full is lost, and said to be.
Lost(wants, takes) == takes # wants
Receive(kind) ==
  LET wants == {log \in Logs : Wants(log, kind)}
      takes == {log \in wants : ~Full(log)}
  IN
  /\ stage = "UP" /\ Received < MaxRows
  /\ offered' = [log \in Logs |->
       IF log \in Offers(kind) THEN Append(offered[log], NextId(log)) ELSE offered[log]]
  /\ queue' = [log \in Logs |->
       IF log \in takes THEN Append(queue[log], NextId(log)) ELSE queue[log]]
  /\ failed' = (failed \/ Lost(wants, takes))
  /\ health' = IF "capture" \in wants \ takes THEN "QUEUE_OVERFLOW" ELSE health
  /\ UNCHANGED <<start, stage, serial, batch, late, disk, faults>>

-----------------------------------------------------------------------------
(* The workers *)

Take(log) ==
  /\ stage # "DOWN" /\ batch[log] = <<>> /\ queue[log] # <<>>
  /\ batch' = [batch EXCEPT ![log] = First(queue[log], Batch)]
  /\ queue' = [queue EXCEPT ![log] = Rest(@, Batch)]
  /\ UNCHANGED <<start, stage, health, failed, serial, late, offered, disk, faults>>

\* The rows of a batch as they are written: those of the journal are numbered.
Encoded(log) ==
  [i \in DOMAIN batch[log] |->
     [start |-> start, id |-> batch[log][i],
      serial |-> IF log = "capture" THEN serial + i ELSE 0]]
Numbered(log) == IF log = "capture" THEN serial + Len(batch[log]) ELSE serial

\* The batch is appended whole. That makes the journal RECORDING again, whatever it was.
Write(log) ==
  /\ stage # "DOWN" /\ batch[log] # <<>>
  /\ disk' = [disk EXCEPT ![log] = @ \o Encoded(log)]
  /\ serial' = Numbered(log)
  /\ health' = IF log = "capture" THEN "RECORDING" ELSE health
  /\ batch' = [batch EXCEPT ![log] = <<>>]
  /\ UNCHANGED <<start, stage, failed, queue, late, offered, faults>>

\* The batch is lost: the journal is at its daily cap, the disk at its reserve, or the
\* write fails, before all rows are numbered or after, perhaps after a part of it is
\* written. The table's is one transaction.
HealthAfter(reason) ==
  IF reason # "WRITE_FAILED" THEN reason
  ELSE IF health \in Bad THEN health ELSE "WRITE_FAILED"
WriteFails(log, reason) ==
  /\ stage # "DOWN" /\ batch[log] # <<>> /\ faults < MaxFaults
  /\ faults' = faults + 1
  /\ failed' = TRUE /\ batch' = [batch EXCEPT ![log] = <<>>]
  /\ IF log = "capture"
     THEN /\ health' = HealthAfter(reason)
          /\ \/ serial' = Numbered(log) /\ UNCHANGED disk
             \/ reason = "WRITE_FAILED" /\ serial' \in serial..Numbered(log) /\ UNCHANGED disk
             \/ /\ reason = "WRITE_FAILED" /\ serial' = Numbered(log)
                /\ disk' = [disk EXCEPT ![log] = Append(@, Torn)]
     ELSE reason = "WRITE_FAILED" /\ UNCHANGED <<health, serial, disk>>
  /\ UNCHANGED <<start, stage, queue, late, offered>>

-----------------------------------------------------------------------------
(* The way out: first the journal, then the records are given three seconds *)

Stop ==
  /\ stage = "UP" /\ stage' = "capture"
  /\ UNCHANGED <<start, health, failed, serial, queue, batch, late, offered, disk, faults>>

After(log) == IF log = "capture" THEN "records" ELSE "DOWN"
Drained(log) ==
  /\ stage = log /\ queue[log] = <<>> /\ batch[log] = <<>>
  /\ stage' = After(log)
  /\ UNCHANGED <<start, health, failed, serial, queue, batch, late, offered, disk, faults>>

\* The worker is cancelled, and what waits is dropped. The thread that writes goes on.
DrainTimesOut(log) ==
  /\ stage = log /\ queue[log] \o batch[log] # <<>>
  /\ queue' = [queue EXCEPT ![log] = <<>>] /\ batch' = [batch EXCEPT ![log] = <<>>]
  /\ late' = IF batch[log] = <<>> THEN late
             ELSE [late EXCEPT ![log] = @ \cup {Encoded(log)}]
  /\ stage' = After(log)
  /\ UNCHANGED <<start, health, failed, serial, offered, disk, faults>>

\* It may end as late as in the next session, which knows nothing of it.
LateWritten(log, rows) ==
  /\ disk' = [disk EXCEPT ![log] = @ \o rows]
  /\ late' = [late EXCEPT ![log] = @ \ {rows}]
  /\ UNCHANGED <<start, stage, health, failed, serial, queue, batch, offered, faults>>

LateFails(log, rows) ==
  /\ faults < MaxFaults /\ faults' = faults + 1
  /\ late' = [late EXCEPT ![log] = @ \ {rows}]
  /\ \/ UNCHANGED disk
     \/ log = "capture" /\ disk' = [disk EXCEPT ![log] = Append(@, Torn)]
  /\ UNCHANGED <<start, stage, health, failed, serial, queue, batch, offered>>

\* The process and its threads are killed.
Kill ==
  /\ stage # "DOWN" \/ late # NoneLate
  /\ faults < MaxFaults /\ faults' = faults + 1
  /\ stage' = "DOWN" /\ queue' = Empty /\ batch' = Empty /\ late' = NoneLate
  /\ \/ UNCHANGED disk
     \/ /\ batch["capture"] # <<>> \/ late["capture"] # {}
        /\ disk' = [disk EXCEPT !["capture"] = Append(@, Torn)]
  /\ UNCHANGED <<start, health, failed, serial, offered>>

Init ==
  /\ start = 0 /\ stage = "DOWN" /\ health = "WAITING" /\ failed = FALSE /\ serial = 0
  /\ queue = Empty /\ batch = Empty /\ late = NoneLate /\ offered = Empty /\ disk = Empty
  /\ faults = 0

Next ==
  \/ Start \/ Stop \/ Kill
  \/ \E kind \in Kinds : Receive(kind)
  \/ \E log \in Logs :
       \/ Take(log) \/ Write(log) \/ Drained(log) \/ DrainTimesOut(log)
       \/ \E reason \in Bad \ {"QUEUE_OVERFLOW"} : WriteFails(log, reason)
       \/ \E rows \in late[log] : LateWritten(log, rows) \/ LateFails(log, rows)

Spec == Init /\ [][Next]_vars

-----------------------------------------------------------------------------
(* Properties *)

\* As long as the loop may open positions, nothing of this session is lost: what was
\* received for a log is written up to some receipt, and what came after it is being
\* written or waits, in this order, although the last of an earlier session may come in
\* between. A journal that is recording again after an overflow does not make up for it.
NothingLostWhileAdmitted ==
  stage = "UP" /\ ~failed =>
    \A log \in Logs : \E done \in 0..Len(offered[log]) :
      /\ {disk[log][k].id : k \in {j \in DOMAIN disk[log] : disk[log][j].start = start}}
           = {offered[log][i] : i \in 1..done}
      /\ batch[log] \o queue[log] = SubSeq(offered[log], done + 1, Len(offered[log]))

\* A log keeps the order of the receipts of a session and holds none twice, whatever fails
\* and however late it is written, and the numbers in the journal rise with the receipts and
\* no faster: rows that follow each other have numbers that do.
OrderIsKept ==
  \A log \in Logs : \A i, j \in DOMAIN disk[log] :
    LET earlier == disk[log][i]
        later == disk[log][j]
    IN
    i < j /\ earlier.start = later.start /\ later.start > 0 =>
      /\ earlier.id < later.id
      /\ log = "capture" => later.serial - earlier.serial \in 1..(later.id - earlier.id)

RecordingIsTrue == NothingLostWhileAdmitted /\ OrderIsKept
=============================================================================
