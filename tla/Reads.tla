-------------------------------- MODULE Reads -------------------------------
(* The read scheduler (read_scheduler.py): broker reads take their turns by    *)
(* priority, one per interval, and any of them may be cancelled while it       *)
(* waits or just after its turn came.                                          *)
EXTENDS Integers, FiniteSets

CONSTANTS
  Tasks,
  Priorities,
  MaxReads     \* bound of reads

VARIABLES
  heap,        \* waiters: [priority, seq, task]; a cancelled entry stays in it
  task,        \* what each task is doing: its sequence number, and whether its turn came
  worker,      \* "none", "running", or "ended" when self.worker is a task that has ended
  reads        \* sequence

vars == <<heap, task, worker, reads>>

Idle == [seq |-> 0, at |-> "idle"]
Before(a, b) == a.priority < b.priority \/ (a.priority = b.priority /\ a.seq < b.seq)
\* The future of an entry is not done.
Open(e) == task[e.task] = [seq |-> e.seq, at |-> "waiting"]

Acquire(t, p) ==
  /\ task[t] = Idle /\ reads < MaxReads
  /\ reads' = reads + 1
  /\ heap' = heap \cup {[priority |-> p, seq |-> reads + 1, task |-> t]}
  /\ task' = [task EXCEPT ![t] = [seq |-> reads + 1, at |-> "waiting"]]
  /\ worker' = IF worker = "none" THEN "running" ELSE worker

\* What is left when entries are popped up to the first whose future is open.
Left ==
  LET open == {e \in heap : Open(e)} IN
  {e \in heap : \E d \in open : Before(d, e)}
Granted(t) == \E e \in heap : e.task = t /\ Open(e) /\ \A d \in heap : Open(d) => d = e \/ Before(e, d)

WorkerAfterEnded(left) == IF left = {} THEN "ended" ELSE "running" \* mutant
\* The finally of _drain: the next acquire starts another worker.
WorkerAfter(left) == IF left = {} THEN "none" ELSE "running"

\* The interval since the last read is over.
Drain ==
  /\ worker = "running"
  /\ heap' = Left
  /\ task' = [t \in Tasks |-> IF Granted(t) THEN [task[t] EXCEPT !.at = "turn"] ELSE task[t]]
  /\ worker' = WorkerAfter(Left)
  /\ UNCHANGED reads

\* The request goes out, or its task was cancelled as its turn came.
Leave(t) ==
  /\ task[t].at = "turn"
  /\ task' = [task EXCEPT ![t] = Idle]
  /\ UNCHANGED <<heap, worker, reads>>

Cancel(t) ==
  /\ task[t].at = "waiting"
  /\ task' = [task EXCEPT ![t] = Idle]
  /\ UNCHANGED <<heap, worker, reads>>

Init == heap = {} /\ task = [t \in Tasks |-> Idle] /\ worker = "none" /\ reads = 0

Next == Drain \/ (\E t \in Tasks : Leave(t) \/ Cancel(t) \/ (\E p \in Priorities : Acquire(t, p)))

-----------------------------------------------------------------------------
TypeOK ==
  /\ heap \subseteq [priority : Priorities, seq : 1..MaxReads, task : Tasks]
  /\ task \in [Tasks -> [seq : 0..MaxReads, at : {"idle", "waiting", "turn"}]]
  /\ worker \in {"none", "running"} /\ reads \in 0..MaxReads

\* No turn is lost: while reads wait, one of them gets its turn or all are
\* cancelled, whichever were cancelled before and whenever the worker ended
\* (read_scheduler.py 34-56). An urgent read may still overtake the others for ever.
SomeoneWaits == \E t \in Tasks : task[t].at = "waiting"
TurnIsPassed == SomeoneWaits ~> (~SomeoneWaits \/ \E t \in Tasks : task[t].at = "turn")
=============================================================================
