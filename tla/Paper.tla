------------------------------- MODULE Paper -------------------------------
(* The simulated account of one seconds strategy (seconds_paper.py) and the     *)
(* process that steps and saves it (seconds_observer.py): orders that arrive    *)
(* after a delay, at the quote of that moment, and a history that outlives the  *)
(* process. One contract, one unit.                                             *)
EXTENDS Integers

CONSTANTS
  Asks,        \* prices
  Bankrolls,   \* what the broker may report as available
  Fee,         \* of one order
  Target,      \* what a signal expects
  Delay, Patience,    \* until an order arrives, and how long a purchase then waits
  Hold,        \* from a signal to the deadline of its position
  QuoteAge,    \* of a current quote
  MaxTime, MaxEpisodes, MaxFaults  \* bounds

VARIABLES
  now,
  up,       \* the observer is in its loop
  initial,  \* PaperLab.initial
  row,      \* PaperLab.rows of the strategy
  disk,     \* seconds-paper-state.json
  episode,  \* of the signal a rule gives, 0 for none
  episodes, \* that there were
  book,     \* the top of the book
  faults    \* kills

vars == <<now, up, initial, row, disk, episode, episodes, book, faults>>

NoBook == [ask |-> 0, bid |-> 0, deep |-> FALSE, at |-> 0]
NoOrder == [side |-> "none", limit |-> 0, due |-> 0, deadline |-> 0]
NoPosition == [entry |-> 0, debit |-> 0, deadline |-> 0, triggered |-> FALSE]
NoHistory == [initial |-> 0]

\* PaperLab.__init__
Fresh(bankroll) ==
  [cash |-> bankroll, net |-> 0, signals |-> 0, entries |-> 0, closed |-> 0, missed |-> 0,
   pending |-> NoOrder, position |-> NoPosition, last |-> 0]

Pending == row.pending
Position == row.position
Open == Position # NoPosition

Current == book # NoBook /\ now - book.at <= QuoteAge
SellFees(orders) == orders * Fee
Debit(limit) == limit + Fee
\* The sale keeps back the fees of three orders, and a twentieth of the cash is
\* not used.
Affordable(limit) == 100 * (Debit(limit) + SellFees(3)) <= 95 * row.cash

-----------------------------------------------------------------------------
(* PaperLab.step *)

Missed == [row EXCEPT !.pending = NoOrder, !.missed = @ + 1]

\* Not due, or without a quote: a purchase is given up after a while, a sale waits.
Late(grace) == now > Pending.due + grace
AwaitQuote ==
  /\ Pending # NoOrder /\ now >= Pending.due /\ ~Current
  /\ ~Open /\ Late(Patience)
  /\ row' = Missed

\* A purchase is filled at its limit while the signal it was decided on lasts and
\* twice its size is offered.
Eligible ==
  /\ episode # 0 /\ episode = row.last
  /\ book.ask <= Pending.limit /\ book.deep /\ ~Late(Patience)

Bought ==
  [row EXCEPT !.cash = @ - Debit(Pending.limit), !.entries = @ + 1, !.pending = NoOrder,
     !.position = [entry |-> Pending.limit, debit |-> Debit(Pending.limit),
                   deadline |-> Pending.deadline, triggered |-> FALSE]]
Buy ==
  /\ Pending.side = "BUY" /\ now >= Pending.due /\ Current
  /\ row' = IF Eligible /\ Affordable(Pending.limit) THEN Bought ELSE Missed

\* A sale that finds no depth at its limit is offered again, lower.
Proceeds == Pending.limit - SellFees(1)
Sold ==
  [row EXCEPT !.cash = @ + Proceeds, !.net = @ + Proceeds - Position.debit,
     !.closed = @ + 1, !.pending = NoOrder, !.position = NoPosition]
Below(bid) == IF bid > 2 THEN bid - 2 ELSE 1
Sell ==
  /\ Pending.side = "SELL" /\ now >= Pending.due /\ Current
  /\ row' = IF book.bid >= Pending.limit /\ book.deep THEN Sold
            ELSE [row EXCEPT !.missed = @ + 1, !.pending.limit = Below(book.bid),
                             !.pending.due = now + Delay]

\* Whether the profit guard has triggered, which it stays, and whether the future
\* has moved against the position.
Watch ==
  /\ Open /\ Pending = NoOrder /\ Current /\ book.deep
  /\ \E triggered, invalid \in BOOLEAN :
       LET guarded == [row EXCEPT !.position.triggered = @ \/ triggered]
           leave == \/ book.bid >= Target \/ 100 * book.bid <= 95 * Position.entry
                    \/ invalid \/ guarded.position.triggered \/ now >= Position.deadline
       IN row' = IF leave
                 THEN [guarded EXCEPT !.pending = [side |-> "SELL", limit |-> Below(book.bid),
                                                   due |-> now + Delay, deadline |-> 0]]
                 ELSE guarded

\* A new episode is counted; the candidate may fail.
Limits ==
  {l \in {p + 2 : p \in Asks} :
     Current /\ book.deep /\ l >= book.ask + 2 /\ Affordable(l)}
Signal ==
  /\ ~Open /\ Pending = NoOrder
  /\ episode # 0 /\ episode # row.last
  /\ LET counted == [row EXCEPT !.last = episode, !.signals = @ + 1]
     IN \/ row' = counted
        \/ \E limit \in Limits :
             row' = [counted EXCEPT !.pending =
                       [side |-> "BUY", limit |-> limit, due |-> now + Delay,
                        deadline |-> now + Hold]]

Step ==
  /\ up /\ (AwaitQuote \/ Buy \/ Sell \/ Watch \/ Signal)
  /\ UNCHANGED <<now, up, initial, disk, episode, episodes, book, faults>>

-----------------------------------------------------------------------------
(* The process *)

Saved == [initial |-> initial, row |-> row]

Save ==
  /\ up /\ disk' = Saved
  /\ UNCHANGED <<now, up, initial, row, episode, episodes, book, faults>>

\* A stop, or an exception: saved on the way out. A kill is not.
Stop ==
  /\ up /\ up' = FALSE /\ disk' = Saved
  /\ book' = NoBook /\ episode' = 0
  /\ row' = Fresh(0) /\ initial' = 0
  /\ UNCHANGED <<now, episodes, faults>>
Kill ==
  /\ up /\ faults < MaxFaults /\ faults' = faults + 1
  /\ up' = FALSE /\ book' = NoBook /\ episode' = 0
  /\ row' = Fresh(0) /\ initial' = 0
  /\ UNCHANGED <<now, disk, episodes>>

OpenedAnew(readable, bankroll) == \* mutant: a history that cannot be read is none
  IF disk = NoHistory \/ ~readable THEN initial' = bankroll /\ row' = Fresh(bankroll)
  ELSE initial' = disk.initial /\ row' = disk.row
\* A history that is there and cannot be read is not replaced.
Opened(readable, bankroll) ==
  /\ disk # NoHistory => readable
  /\ IF disk = NoHistory THEN initial' = bankroll /\ row' = Fresh(bankroll)
     ELSE initial' = disk.initial /\ row' = disk.row
Start ==
  /\ ~up /\ up' = TRUE
  /\ \E readable \in BOOLEAN, bankroll \in Bankrolls : Opened(readable, bankroll)
  /\ UNCHANGED <<now, disk, episode, episodes, book, faults>>

\* Quotes with a spread of one tick, a lost socket, and the episodes of the rule.
Quote ==
  /\ up
  /\ \/ book' = NoBook
     \/ \E ask \in Asks, deep \in BOOLEAN :
          book' = [ask |-> ask, bid |-> ask - 1, deep |-> deep, at |-> now]
  /\ UNCHANGED <<now, up, initial, row, disk, episode, episodes, faults>>
Rule ==
  /\ up
  /\ \/ episode # 0 /\ episode' = 0 /\ UNCHANGED episodes
     \/ /\ episode = 0 /\ episodes < MaxEpisodes
        /\ episodes' = episodes + 1 /\ episode' = episodes'
     \/ /\ episode = 0 /\ episodes > 0  \* the same episode again
        /\ episode' = episodes /\ UNCHANGED episodes
  /\ UNCHANGED <<now, up, initial, row, disk, book, faults>>
Pass ==
  /\ now < MaxTime /\ now' = now + 1
  /\ UNCHANGED <<up, initial, row, disk, episode, episodes, book, faults>>

Init ==
  /\ now = 0 /\ up = FALSE /\ initial = 0 /\ row = Fresh(0) /\ disk = NoHistory
  /\ episode = 0 /\ episodes = 0 /\ book = NoBook /\ faults = 0

Next == Step \/ Save \/ Stop \/ Kill \/ Start \/ Quote \/ Rule \/ Pass

Spec == Init /\ [][Next]_vars

-----------------------------------------------------------------------------
(* What must hold *)

\* What is held, spent and earned adds up; the fees of the way out can always be
\* paid; an order belongs to what it trades.
Adds(first, r) ==
  /\ r.cash + r.position.debit = first + r.net
  /\ r.cash >= 0
  /\ r.entries = r.closed + (IF r.position # NoPosition THEN 1 ELSE 0)
  /\ r.entries <= r.signals
  /\ r.pending.side = "SELL" => r.position # NoPosition
  /\ r.pending.side = "BUY" => r.position = NoPosition

Booked(h) == IF h = NoHistory THEN 0 ELSE h.row.signals + h.row.closed + h.row.missed
\* The simulated account adds up in memory and on disk, whatever is killed and
\* restarted, and what was once saved is not forgotten (seconds_paper.py 27-92,
\* seconds_observer.py 69-184).
PaperIsExact ==
  /\ [](up => Adds(initial, row))
  /\ [](disk # NoHistory => Adds(disk.initial, disk.row))
  /\ [][Booked(disk') >= Booked(disk)]_disk
=============================================================================
