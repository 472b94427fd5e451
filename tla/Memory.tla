------------------------------- MODULE Memory -------------------------------
(* What is remembered of the days after the ledger's window has moved on:      *)
(* every half minute the collector counts the attempts and the closed trades   *)
(* of each day in the newest lifecycles (dashboard/learning.py), adds the days *)
(* the health receipts tell of (dashboard/session_audit.py), and merges them   *)
(* into a file that is never pruned. Money is left out, but for whether the    *)
(* charges of a day are complete.                                              *)
EXTENDS Integers, Sequences, FiniteSets, FiniteSetsExt, SequencesExt

CONSTANTS
  Window,      \* lifecycles that are read: 5000
  Retained,    \* days a health file is kept: 7
  MaxDay, MaxLives, MaxFaults  \* bounds

VARIABLES
  today,
  lives,      \* the lifecycles, the newest last; the last one may be open
  audit,      \* the days a health file is there for
  torn,       \* of them, those whose last line broke off
  memory,     \* session-memory.json
  faults

vars == <<today, lives, audit, torn, memory, faults>>

Open == 0
NoRow == [trades |-> 0, attempts |-> 0, filled |-> 0, net |-> FALSE, health |-> FALSE]
Days == 1..MaxDay

-----------------------------------------------------------------------------
(* session_reviews *)

Seen == IF Len(lives) <= Window THEN ToSet(lives)
        ELSE {lives[i] : i \in (Len(lives) - Window + 1)..Len(lives)}
Truncated == Len(lives) > Window

\* An attempt is of the day it was sent, a trade of the day it was closed.
Attempts(L, d) == {l \in L : l.opened = d}
Trades(L, d) == {l \in L : l.closed = d /\ l.filled}
ReviewOf(L, d) ==
  [trades |-> Cardinality(Trades(L, d)), attempts |-> Cardinality(Attempts(L, d)),
   filled |-> Cardinality({l \in Attempts(L, d) : l.filled}),
   net |-> Trades(L, d) # {} /\ \A l \in Trades(L, d) : l.charged,
   health |-> FALSE]
Reviewed(L) == {d \in Days : Attempts(L, d) \cup Trades(L, d) # {}}

-----------------------------------------------------------------------------
(* diagnostic_history, archive_reviews *)

\* The days of the health files are added, with a row of no trades if there is none.
Result ==
  [d \in Reviewed(Seen) \cup audit |->
     [(IF d \in Reviewed(Seen) THEN ReviewOf(Seen, d) ELSE NoRow) EXCEPT !.health = d \in audit]]

\* A mutant of Keeps: the oldest day of a window that is cut off replaces what is there.
KeepsUnlessSeen(result, d) == d \in DOMAIN memory /\ d \notin DOMAIN result
\* The oldest day of a window that is cut off may lack trades: what is there is kept. So it
\* is when the day is only known by its health file.
Keeps(result, d) ==
  /\ d \in DOMAIN memory
  /\ d \in DOMAIN result => Truncated /\ d = Min(DOMAIN result)
Merged(old, row) ==
  IF old.trades > 0 /\ row.trades = 0
  THEN [old EXCEPT !.health = @ \/ row.health] ELSE row
Archive(result) ==
  [d \in DOMAIN memory \cup DOMAIN result |->
     IF Keeps(result, d) THEN memory[d]
     ELSE IF d \in DOMAIN memory THEN Merged(memory[d], result[d]) ELSE result[d]]

\* build_learning
Build ==
  /\ memory' = Archive(Result)
  /\ UNCHANGED <<today, lives, audit, torn, faults>>

\* It fails, before it wrote the memory or after; what was shown before is shown as stale.
BuildFails ==
  /\ faults < MaxFaults /\ faults' = faults + 1
  /\ memory' \in {memory, Archive(Result)}
  /\ UNCHANGED <<today, lives, audit, torn>>

-----------------------------------------------------------------------------
(* append_session_audit *)

\* Files that are too old go with the next receipt. A last line that broke off stops the
\* receipts of the day.
Receipt ==
  /\ today \notin torn
  /\ audit' = {d \in audit \cup {today} : today - d < Retained}
  /\ torn' = torn \cap audit'
  /\ UNCHANGED <<today, lives, memory, faults>>

Kill ==
  /\ faults < MaxFaults /\ faults' = faults + 1
  /\ today \notin torn
  /\ audit' = audit \cup {today} /\ torn' = torn \cup {today}
  /\ UNCHANGED <<today, lives, memory>>

-----------------------------------------------------------------------------
(* The trader, one lifecycle at a time, some of them overnight *)

Holding == lives # <<>> /\ lives[Len(lives)].closed = Open
\* In the days there are health files of, no more than the window holds.
WithinWindow ==
  audit # {} =>
    Cardinality({l \in ToSet(lives) : l.opened >= Min(audit) \/ l.closed >= Min(audit)}) < Window
Enter(filled) ==
  /\ ~Holding /\ Len(lives) < MaxLives /\ WithinWindow
  /\ lives' = Append(lives, [id |-> Len(lives) + 1, opened |-> today, filled |-> filled, charged |-> FALSE,
                             closed |-> IF filled THEN Open ELSE today])
  /\ UNCHANGED <<today, audit, torn, memory, faults>>
Close ==
  /\ Holding /\ lives' = [lives EXCEPT ![Len(lives)].closed = today]
  /\ UNCHANGED <<today, audit, torn, memory, faults>>
Charge(i) ==
  /\ lives[i].filled /\ lives[i].closed # Open /\ ~lives[i].charged
  /\ lives' = [lives EXCEPT ![i].charged = TRUE]
  /\ UNCHANGED <<today, audit, torn, memory, faults>>
NewDay ==
  /\ today < MaxDay /\ today' = today + 1
  /\ UNCHANGED <<lives, audit, torn, memory, faults>>

Init ==
  /\ today = 1 /\ lives = <<>> /\ audit = {} /\ torn = {} /\ memory = <<>> /\ faults = 0

Next ==
  \/ Build \/ BuildFails \/ Receipt \/ Kill \/ NewDay \/ Close
  \/ \E filled \in BOOLEAN : Enter(filled)
  \/ \E i \in DOMAIN lives : Charge(i)

Spec == Init /\ [][Next]_vars

-----------------------------------------------------------------------------
(* Properties *)

\* A day's outcome is not forgotten when its lifecycles leave the window, nor while only
\* some of them are left in it, and its net result stays known.
DaysAreRemembered ==
  [][\A d \in DOMAIN memory :
       /\ d \in DOMAIN memory'
       /\ memory'[d].trades >= memory[d].trades
       /\ memory'[d].attempts >= memory[d].attempts
       /\ memory[d].net /\ memory'[d].trades = memory[d].trades => memory'[d].net]_vars

\* What is remembered is never more than what happened, and the net result is only called
\* known when every charge is.
MemoryIsTrue ==
  \A d \in DOMAIN memory :
    LET all == ReviewOf(ToSet(lives), d) IN
    /\ memory[d].trades <= all.trades /\ memory[d].attempts <= all.attempts
    /\ memory[d].net => Cardinality({l \in Trades(ToSet(lives), d) : l.charged}) >= memory[d].trades
=============================================================================
