-------------------------- MODULE DirectionalProofs --------------------------
(***************************************************************************)
(* Proofs about Directional, for any keys and families, any number of      *)
(* lifecycle rows, and any bounds on time and faults.                      *)
(***************************************************************************)
EXTENDS Directional, TLAPS

USE ConstantsAssumption DEF world, ledgerVars, memory, broker, history

----------------------------------------------------------------------------
(* The inductive invariant *)

\* No order is under way while the main loop awaits, and a sale offers or has
\* sold no more than its row holds.
OrderInv ==
  /\ cyc.at # "idle" => order.state = "none"
  /\ cyc.at = "closing" => cyc.life \in Lives /\ life[cyc.life].state = "OPEN"
  /\ order.state # "none" => order.life \in Lives
  /\ order.side = "SELL" => /\ order.state = "live" => hold <= Held(order.life)
                            /\ order.state = "ended" => order.filled <= Held(order.life)

\* Every entry of today left the row of its family.
FamilyInv ==
  /\ families \subseteq {Family[k] : k \in enabled}
  /\ \A l \in Lives : life[l].state # "NONE" =>
       Family[life[l].key] \in families \/ life[l].key = Carried

\* The episode at hand is one of an enabled shock.
ShockKeys == {k \in enabled : Kind[k] = "shock"}
EpisodeInv ==
  /\ sample \in ShockKeys \cup {None} /\ bar.key \in ShockKeys \cup {None}
  /\ bar.qualifying => bar.key # None

\* What a signal is entered by is its first evaluation.
SignalInv ==
  /\ \A k \in Keys : IF Kind[k] = "seconds" THEN first[k] \in {NoTime, Bucket[k]}
                                            ELSE first[k] = recorded[k]
  /\ \A k \in signals : Kind[k] \in {"minute", "rebound"} /\ recorded[k] # NoTime
  /\ \A k \in samples : Kind[k] = "seconds" /\ first[k] = clock

\* The ratchet remembers the best profit that was ever seen.
PeakInv == \A l \in Lives : best[l] = guard[l].peak

DirectionalInv ==
  /\ TypeOK /\ OrderInv /\ FamilyInv /\ OneEntryPerFamily /\ EpisodeInv /\ SignalInv
  /\ dropped \subseteq consumed
  /\ PeakInv /\ FloorBinds

----------------------------------------------------------------------------
(* Types *)

LEMMA TimeTypes ==
  /\ 0 \in Time /\ NoTime \in MaybeTime /\ NoTime \notin Time
  /\ Time \subseteq MaybeTime /\ Time \subseteq Nat
  /\ \A t \in Time : t # NoTime
  BY DEF Time, MaybeTime, NoTime

LEMMA ConfigTypes ==
  TypeOK => enabled \subseteq Keys /\ expiry \in Nat
  BY DEF TypeOK

LEMMA BlankTypes ==
  /\ Idle \in Cycles
  /\ NoBar \in Bars /\ NoGuard \in Guards /\ NoOrder \in Orders /\ NoLife \in Rows
  /\ Start(Carried) \in Rows
  /\ None \notin Lives /\ 1 \in Lives
  <1>1. Idle \in Cycles BY TimeTypes DEF Idle, Cycles
  <1>2. NoBar \in Bars BY TimeTypes DEF NoBar, Bars
  <1>3. NoGuard \in Guards BY DEF NoGuard, Guards
  <1>4. NoOrder \in Orders BY DEF NoOrder, Orders
  <1>5. NoLife \in Rows /\ Start(Carried) \in Rows BY DEF NoLife, Rows, Start
  <1>6. None \notin Lives /\ 1 \in Lives BY DEF Lives
  <1> QED BY <1>1, <1>2, <1>3, <1>4, <1>5, <1>6

LEMMA FaultTypes ==
  TypeOK /\ Fault => faults' \in 0..MaxFaults
  BY DEF TypeOK, Fault

LEMMA HeldType ==
  ASSUME TypeOK, NEW l \in Lives
  PROVE  /\ life[l].bought \in Nat /\ life[l].sold \in Nat /\ Held(l) \in Nat
         /\ life[l].sold <= life[l].bought
  <1>1. life[l] \in Rows /\ life[l].sold <= life[l].bought BY DEF TypeOK
  <1> QED BY <1>1 DEF Rows, Held

LEMMA InvalidatedType ==
  TypeOK => Invalidated \subseteq Keys /\ consumed \subseteq Invalidated
  BY DEF TypeOK, Invalidated

LEMMA MissedTypes ==
  ASSUME TypeOK, NEW t
  PROVE  Missed(t) \subseteq Keys /\ Due(t) \subseteq Keys /\ Unconsumed \subseteq Keys
  BY ConfigTypes DEF TypeOK, Missed, Due, Unconsumed

LEMMA MetTypes == TypeOK => Met \subseteq Keys /\ Decidable \subseteq Keys
  <1> SUFFICES ASSUME TypeOK PROVE Met \subseteq Keys /\ Decidable \subseteq Keys OBVIOUS
  <1>1. cyc.keys \subseteq Keys BY DEF TypeOK, Cycles
  <1> QED BY <1>1, MissedTypes DEF Met, Decidable

LEMMA TypeInit == Init => TypeOK
  <1> SUFFICES ASSUME Init PROVE TypeOK OBVIOUS
  <1>1. <<enabled, expiry>> \in Configs
    <2>1. PICK c \in Configs : enabled = c[1] /\ expiry = c[2] BY DEF Init
    <2>2. c = <<c[1], c[2]>> OBVIOUS
    <2> QED BY <2>1, <2>2
  <1>2. life \in [Lives -> Rows] /\ hold \in Nat BY BlankTypes DEF Init
  <1>3. \A l \in Lives : /\ life[l].sold <= life[l].bought
                         /\ life[l].state # "NONE" => life[l].key \in Keys
    <2>1. /\ NoLife.sold <= NoLife.bought /\ Start(Carried).sold <= Start(Carried).bought
          /\ NoLife.state = "NONE" /\ Start(Carried).key = Carried
      BY DEF NoLife, Start
    <2> QED BY <2>1 DEF Init
  <1>4. guard \in [Lives -> Guards] BY BlankTypes DEF Init
  <1>5. recorded \in [Keys -> MaybeTime] /\ exit \in [Lives -> MaybeTime]
        /\ closedAt \in [Lives -> MaybeTime] /\ clock \in Time /\ lastClosed \in MaybeTime
        /\ first \in [Keys -> MaybeTime]
    BY TimeTypes DEF Init
  <1>6. bar \in Bars /\ order \in Orders /\ cyc \in Cycles BY BlankTypes DEF Init
  <1>7. faults \in 0..MaxFaults BY DEF Init
  <1>8. best \in [Lives -> NetLevels \cup {NoQuote}] /\ breached \in [Lives -> BOOLEAN]
    BY DEF Init
  <1> QED BY <1>1, <1>2, <1>3, <1>4, <1>5, <1>6, <1>7, <1>8 DEF Init, TypeOK

LEMMA TypeInput == TypeOK /\ InputNext => TypeOK'
  <1> SUFFICES ASSUME TypeOK, InputNext PROVE TypeOK' OBVIOUS
  <1> USE TimeTypes
  <1>1. ASSUME NEW k \in Keys, NEW e \in Minutes, UpdateMinute(k, e) PROVE TypeOK'
    <2>1. e \in MaybeTime BY DEF Minutes
    <2>2. first' \in [Keys -> MaybeTime] BY <1>1, <2>1 DEF TypeOK, UpdateMinute
    <2>3. recorded' \in [Keys -> MaybeTime] BY <1>1, <2>1 DEF TypeOK, UpdateMinute
    <2>4. signals' \subseteq Keys BY <1>1 DEF TypeOK, UpdateMinute
    <2> QED BY <1>1, <2>2, <2>3, <2>4 DEF TypeOK, UpdateMinute
  <1>2. ASSUME NEW k \in Keys, TapeSignals(k) PROVE TypeOK'
    <2>1. first' \in [Keys -> MaybeTime] BY <1>2 DEF TypeOK, TapeSignals
    <2>2. samples' \subseteq Keys BY <1>2 DEF TypeOK, TapeSignals
    <2> QED BY <1>2, <2>1, <2>2 DEF TypeOK, TapeSignals
  <1>3. ASSUME NEW k \in Keys, TapeMoves(k) PROVE TypeOK'
    BY <1>3 DEF TypeOK, TapeMoves
  <1>4. ASSUME NEW q \in BOOLEAN, NEW b \in Minutes, ShockBar(q, b) PROVE TypeOK'
    <2>1. PICK k \in Episode(q) :
           /\ bar' = [at |-> b, qualifying |-> q, key |-> k, conflicted |-> FALSE]
           /\ sample' = k
           /\ recorded' = IF q /\ recorded[k] = NoTime THEN [recorded EXCEPT ![k] = b] ELSE recorded
           /\ first' = IF q /\ first[k] = NoTime THEN [first EXCEPT ![k] = b] ELSE first
      BY <1>4 DEF ShockBar
    <2>2. b \in MaybeTime BY DEF Minutes
    <2>3. k \in Keys \cup {None}
      BY ConfigTypes DEF Episode, UnusedShock, TypeOK, Bars
    <2>4. bar' \in Bars BY <2>1, <2>2, <2>3 DEF Bars
    <2>5. recorded' \in [Keys -> MaybeTime] BY <2>1, <2>2 DEF TypeOK
    <2>6. first' \in [Keys -> MaybeTime] BY <2>1, <2>2 DEF TypeOK
    <2> QED BY <1>4, <2>1, <2>3, <2>4, <2>5, <2>6 DEF TypeOK, ShockBar
  <1>5. ASSUME NEW q \in BOOLEAN, ShockRetry(q) PROVE TypeOK'
    <2>0. bar \in Bars BY DEF TypeOK
    <2>a. [bar EXCEPT !.conflicted = TRUE] \in Bars BY <2>0 DEF Bars
    <2>1. bar' \in Bars BY <1>5, <2>0, <2>a DEF ShockRetry
    <2>2. sample' \in Keys \cup {None} BY <1>5 DEF TypeOK, ShockRetry, Bars
    <2>3. consumed' \subseteq Keys BY <1>5, InvalidatedType DEF TypeOK, ShockRetry
    <2> QED BY <1>5, <2>1, <2>2, <2>3 DEF TypeOK, ShockRetry
  <1>6. CASE InputsArrive BY <1>6 DEF TypeOK, InputsArrive
  <1>7. CASE InputsFail BY <1>7, FaultTypes DEF TypeOK, InputsFail
  <1>8. CASE Disconnect BY <1>8, FaultTypes, InvalidatedType DEF TypeOK, Disconnect
  <1>9. CASE Connect BY <1>9 DEF TypeOK, Connect
  <1> QED BY <1>1, <1>2, <1>3, <1>4, <1>5, <1>6, <1>7, <1>8, <1>9 DEF InputNext

LEMMA DecidedTypes ==
  ASSUME TypeOK, NEW k \in Decidable, NEW l \in Lives, Decided(k, l)
  PROVE  /\ life' \in [Lives -> Rows] /\ consumed' \subseteq Keys
         /\ \A m \in Lives : /\ life'[m].sold <= life'[m].bought
                             /\ life'[m].state # "NONE" => life'[m].key \in Keys
  <1>1. k \in Keys BY MetTypes
  <1>2. [NoLife EXCEPT !.state = "OPEN", !.key = k] \in Rows BY <1>1 DEF NoLife, Rows
  <1>3. life' \in [Lives -> Rows] BY <1>2 DEF TypeOK, Decided
  <1>4. consumed' \subseteq Keys BY <1>1, MetTypes DEF TypeOK, Decided
  <1>5. \A m \in Lives : /\ life'[m].sold <= life'[m].bought
                         /\ life'[m].state # "NONE" => life'[m].key \in Keys
    BY <1>1 DEF TypeOK, Decided, NoLife
  <1> QED BY <1>3, <1>4, <1>5

LEMMA TypeEntry == TypeOK /\ EntryNext => TypeOK'
  <1> SUFFICES ASSUME TypeOK, EntryNext PROVE TypeOK' OBVIOUS
  <1>1. CASE EnterStart
    <2>1. cyc' \in Cycles BY <1>1, BlankTypes DEF TypeOK, EnterStart, Cycles
    <2>2. consumed' \subseteq Keys BY <1>1, MissedTypes DEF TypeOK, EnterStart
    <2> QED BY <1>1, <2>1, <2>2 DEF TypeOK, EnterStart
  <1>2. CASE EnterMissed BY <1>2, MissedTypes DEF TypeOK, EnterMissed
  <1>3. CASE EnterShockStart
    <2>1. cyc' \in Cycles BY <1>3, BlankTypes DEF TypeOK, EnterShockStart, Cycles
    <2> QED BY <1>3, <2>1 DEF TypeOK, EnterShockStart
  <1>4. CASE EnterShockMissed BY <1>4 DEF TypeOK, EnterShockMissed
  <1>5. ASSUME NEW k \in Keys, NEW l \in Lives, NEW n \in Lots, Enter(k, l, n) PROVE TypeOK'
    <2>1. k \in Decidable /\ Decided(k, l) BY <1>5 DEF Enter
    <2>a. n \in Nat OBVIOUS
    <2>b. [state |-> "live", side |-> "BUY", life |-> l, lots |-> n, filled |-> 0] \in Orders
      BY <2>a DEF Orders
    <2>2. order' \in Orders BY <1>5, <2>b DEF TypeOK, Enter
    <2> QED BY <1>5, <2>1, <2>2, DecidedTypes, BlankTypes DEF TypeOK, Enter
  <1>6. CASE EntryConflict BY <1>6, BlankTypes DEF TypeOK, EntryConflict
  <1>7. CASE EntryDropped BY <1>7, BlankTypes, MetTypes DEF TypeOK, EntryDropped
  <1> QED BY <1>1, <1>2, <1>3, <1>4, <1>5, <1>6, <1>7 DEF EntryNext

LEMMA WatchTypes ==
  ASSUME TypeOK, NEW l \in Lives, NEW n \in NetLevels, NEW asked \in BOOLEAN
  PROVE  /\ Observed(life[l].key, guard[l], n, asked) \in Guards
         /\ Persisted(guard[l], Observed(life[l].key, guard[l], n, asked)) \in Guards
         /\ Floored(life[l].key, n, n) \in BOOLEAN
  <1>1. guard[l] \in Guards BY DEF TypeOK
  <1>2. Peak(guard[l], n) \in NetLevels \cup {NoQuote} BY <1>1 DEF Peak, Guards
  <1>3. Observed(life[l].key, guard[l], n, asked).triggered \in BOOLEAN
    BY <1>1 DEF Observed, Guards
  <1>4. Observed(life[l].key, guard[l], n, asked) \in Guards
    BY <1>2, <1>3 DEF Observed, Guards
  <1> QED BY <1>4 DEF Persisted, Floored

\* What a book shows is booked in the ratchet and in the history.
WatchedBy(l, n, asked) ==
  /\ guard' = [guard EXCEPT ![l] = Persisted(@, Observed(life[l].key, @, n, asked))]
  /\ best' = [best EXCEPT ![l] = IF @ = NoQuote \/ n > @ THEN n ELSE @]
  /\ breached' = [breached EXCEPT ![l] = @ \/ Floored(life[l].key, best'[l], n)]

LEMMA WatchedTypes ==
  ASSUME TypeOK, NEW l \in Lives, NEW n \in NetLevels, NEW asked \in BOOLEAN,
         WatchedBy(l, n, asked)
  PROVE  /\ guard' \in [Lives -> Guards]
         /\ best' \in [Lives -> NetLevels \cup {NoQuote}]
         /\ breached' \in [Lives -> BOOLEAN]
  <1>1. guard' \in [Lives -> Guards] BY WatchTypes DEF TypeOK, WatchedBy
  <1>2. best' \in [Lives -> NetLevels \cup {NoQuote}] BY DEF TypeOK, WatchedBy
  <1>3. (breached[l] \/ Floored(life[l].key, best'[l], n)) \in BOOLEAN OBVIOUS
  <1>4. breached' \in [Lives -> BOOLEAN] BY <1>3 DEF TypeOK, WatchedBy
  <1> QED BY <1>1, <1>2, <1>4

LEMMA OfferTypes ==
  ASSUME TypeOK, NEW l \in Lives, NEW due, Offer(l, due)
  PROVE  order' \in Orders /\ fresh' \in BOOLEAN
  <1>1. order' \in Orders BY DEF TypeOK, Offer, Orders
  <1>2. fresh' \in BOOLEAN BY DEF TypeOK, Offer
  <1> QED BY <1>1, <1>2

LEMMA LatchedType ==
  ASSUME TypeOK, NEW l \in Lives, life[l].key \in Keys
  PROVE  Latched(l) \in MaybeTime
  <1>1. exit[l] \in MaybeTime /\ clock \in 0..MaxTime /\ MaxTime \in Nat
    BY DEF TypeOK, Time
  <1>2. CASE exit[l] # NoTime BY <1>1, <1>2 DEF Latched
  <1>3. CASE exit[l] = NoTime /\ clock >= ExitAt[life[l].key]
    <2>1. Latched(l) = ExitAt[life[l].key] BY <1>3 DEF Latched
    <2>2. ExitAt[life[l].key] \in Nat OBVIOUS
    <2>3. ExitAt[life[l].key] \in 0..MaxTime BY <1>1, <1>3, <2>2
    <2> QED BY <2>1, <2>3 DEF MaybeTime, Time
  <1>4. CASE exit[l] = NoTime /\ ~(clock >= ExitAt[life[l].key])
    BY <1>4, TimeTypes DEF Latched
  <1> QED BY <1>2, <1>3, <1>4

LEMMA ManagedIsOpen ==
  ASSUME TypeOK, NEW l \in Lives, MayManage(l)
  PROVE  /\ life[l].state = "OPEN" /\ life[l].key \in Keys
         /\ cyc.at = "idle" /\ order.state = "none" /\ hold = Held(l)
  BY DEF TypeOK, MayManage, Active

LEMMA WatchedIsWatchedBy ==
  ASSUME NEW l, NEW n, Watched(l, n)
  PROVE  WatchedBy(l, n, FALSE)
  BY DEF Watched, WatchedBy

\* What a step of manage changes, for either kind of position.
LEMMA ManageMoves ==
  ASSUME TypeOK, NEW l \in Lives, NEW n \in NetLevels \cup {NoQuote},
         \/ \E asked \in MaybeTime : Manage(l, n, asked)
         \/ \E asked \in BOOLEAN : ManageShock(l, n, asked)
  PROVE  /\ MayManage(l)
         /\ \E due : Offer(l, due)
         /\ \E due \in MaybeTime : exit' = [exit EXCEPT ![l] = due]
         /\ exit[l] # NoTime => exit'[l] # NoTime
         /\ \/ UNCHANGED <<guard, best, breached>>
            \/ /\ guard' = [guard EXCEPT ![l].triggered = TRUE]
               /\ UNCHANGED <<best, breached>>
            \/ n \in NetLevels /\ \E asked \in BOOLEAN : WatchedBy(l, n, asked)
         /\ UNCHANGED <<world, recorded, consumed, families, bar, life, reboundExited,
                        lastClosed, signals, samples, sample, inputs, feed, cyc, hold,
                        first, dropped, closedAt>>
  <1>0. clock \in MaybeTime /\ clock # NoTime /\ exit \in [Lives -> MaybeTime]
    BY TimeTypes DEF TypeOK
  <1>1. ASSUME NEW asked \in MaybeTime, Manage(l, n, asked) PROVE
               /\ MayManage(l)
               /\ \E due : Offer(l, due)
               /\ \E due \in MaybeTime : exit' = [exit EXCEPT ![l] = due]
               /\ exit[l] # NoTime => exit'[l] # NoTime
               /\ \/ UNCHANGED <<guard, best, breached>>
                  \/ n \in NetLevels /\ WatchedBy(l, n, FALSE)
    <2>1. MayManage(l) BY <1>1 DEF Manage
    <2>2. Latched(l) \in MaybeTime BY <2>1, ManagedIsOpen, LatchedType
    <2>3. PICK due \in MaybeTime : exit' = [exit EXCEPT ![l] = due]
      BY <1>0, <1>1, <2>2 DEF Manage
    <2>4. exit[l] # NoTime => exit'[l] # NoTime BY <1>0, <1>1 DEF Manage, Latched
    <2>5. \/ UNCHANGED <<guard, best, breached>>
          \/ n \in NetLevels /\ WatchedBy(l, n, FALSE)
      BY <1>1, WatchedIsWatchedBy DEF Manage, Unwatched
    <2> QED BY <1>1, <2>1, <2>3, <2>4, <2>5 DEF Manage
  <1>2. ASSUME NEW asked \in BOOLEAN, ManageShock(l, n, asked) PROVE
               /\ MayManage(l)
               /\ \E due : Offer(l, due)
               /\ \E due \in MaybeTime : exit' = [exit EXCEPT ![l] = due]
               /\ exit[l] # NoTime => exit'[l] # NoTime
               /\ \/ UNCHANGED <<guard, best, breached>>
                  \/ /\ guard' = [guard EXCEPT ![l].triggered = TRUE]
                     /\ UNCHANGED <<best, breached>>
                  \/ n \in NetLevels /\ WatchedBy(l, n, asked)
    <2>1. MayManage(l) /\ \E due : Offer(l, due) BY <1>2 DEF ManageShock
    <2>2. exit' = exit \/ exit' = [exit EXCEPT ![l] = clock] BY <1>2 DEF ManageShock
    <2>3. \E due \in MaybeTime : exit' = [exit EXCEPT ![l] = due]
      <3>1. exit = [exit EXCEPT ![l] = exit[l]] BY <1>0
      <3> QED BY <1>0, <2>2, <3>1
    <2>4. exit[l] # NoTime => exit'[l] # NoTime BY <1>0, <2>2
    <2>5. CASE n = NoQuote
      <3>1. guard' = [guard EXCEPT ![l] = [guard[l] EXCEPT !.triggered = @ \/ asked]]
            /\ UNCHANGED <<best, breached>>
        BY <1>2, <2>5 DEF ManageShock, Persisted
      <3>2. guard \in [Lives -> Guards] /\ guard[l].triggered \in BOOLEAN
        BY DEF TypeOK, Guards
      <3>3. CASE guard[l].triggered \/ asked
        <4>1. [guard[l] EXCEPT !.triggered = @ \/ asked] = [guard[l] EXCEPT !.triggered = TRUE]
          BY <3>3
        <4> QED BY <3>1, <4>1, <2>1, <2>3, <2>4
      <3>4. CASE ~(guard[l].triggered \/ asked)
        <4>1. [guard[l] EXCEPT !.triggered = @ \/ asked] = [guard[l] EXCEPT !.triggered = FALSE]
          BY <3>4
        <4>2. [guard[l] EXCEPT !.triggered = FALSE] = guard[l]
          BY <3>2, <3>4 DEF Guards
        <4>3. guard' = guard BY <3>1, <3>2, <4>1, <4>2
        <4> QED BY <3>1, <4>3, <2>1, <2>3, <2>4
      <3> QED BY <3>3, <3>4
    <2>6. CASE n # NoQuote
      <3>1. WatchedBy(l, n, asked) BY <1>2, <2>6 DEF ManageShock, WatchedBy
      <3> QED BY <2>1, <2>3, <2>4, <2>6, <3>1
    <2> QED BY <2>5, <2>6
  <1>3. UNCHANGED <<world, recorded, consumed, families, bar, life, reboundExited,
                    lastClosed, signals, samples, sample, inputs, feed, cyc, hold,
                    first, dropped, closedAt>>
    BY DEF Manage, ManageShock
  <1> QED BY <1>1, <1>2, <1>3

LEMMA ClosesTypes ==
  ASSUME TypeOK, OrderInv, cyc.at = "closing", Closes(cyc.life)
  PROVE  /\ life' \in [Lives -> Rows]
         /\ \A l \in Lives : /\ life'[l].sold <= life'[l].bought
                             /\ life'[l].state # "NONE" => life'[l].key \in Keys
         /\ closedAt' \in [Lives -> MaybeTime]
         /\ cyc.now \in MaybeTime /\ cyc.life \in Lives
  <1>1. cyc.now \in MaybeTime /\ cyc.life \in Lives /\ life[cyc.life].state = "OPEN"
    BY TimeTypes DEF TypeOK, Cycles, OrderInv
  <1>2. /\ life' \in [Lives -> Rows]
        /\ \A l \in Lives : /\ life'[l].sold <= life'[l].bought
                            /\ life'[l].state # "NONE" => life'[l].key \in Keys
    BY <1>1 DEF TypeOK, Closes, Rows
  <1>3. closedAt' \in [Lives -> MaybeTime] BY <1>1 DEF TypeOK, Closes
  <1> QED BY <1>1, <1>2, <1>3

LEMMA TypeManage == TypeOK /\ OrderInv /\ ManageNext => TypeOK'
  <1> SUFFICES ASSUME TypeOK, OrderInv, ManageNext PROVE TypeOK' OBVIOUS
  <1>1. ASSUME NEW l \in Lives, CloseStart(l) PROVE TypeOK'
    <2>1. cyc' \in Cycles BY <1>1, BlankTypes DEF TypeOK, CloseStart, Cycles
    <2> QED BY <1>1, <2>1 DEF TypeOK, CloseStart
  <1>2. CASE Close
    <2>1. Closes(cyc.life) /\ cyc.at = "closing" BY <1>2 DEF Close
    <2>4. lastClosed' \in MaybeTime BY <1>2, <2>1, ClosesTypes DEF TypeOK, Close, Marks
    <2>5. reboundExited' \in BOOLEAN BY <1>2 DEF TypeOK, Close, Marks
    <2> QED BY <1>2, <2>1, <2>4, <2>5, BlankTypes, ClosesTypes DEF TypeOK, Close
  <1>3. CASE CycleFails BY <1>3, BlankTypes, FaultTypes DEF TypeOK, CycleFails
  <1>4. ASSUME NEW l \in Lives, NEW n \in NetLevels \cup {NoQuote},
               \/ \E asked \in MaybeTime : Manage(l, n, asked)
               \/ \E asked \in BOOLEAN : ManageShock(l, n, asked)
        PROVE  TypeOK'
    <2>0. PICK due : Offer(l, due) BY <1>4, ManageMoves
    <2>1. order' \in Orders /\ fresh' \in BOOLEAN BY <2>0, OfferTypes
    <2>2. exit' \in [Lives -> MaybeTime]
      <3>1. PICK d \in MaybeTime : exit' = [exit EXCEPT ![l] = d] BY <1>4, ManageMoves
      <3> QED BY <3>1 DEF TypeOK
    <2>3. /\ guard' \in [Lives -> Guards]
          /\ best' \in [Lives -> NetLevels \cup {NoQuote}]
          /\ breached' \in [Lives -> BOOLEAN]
      <3>1. guard \in [Lives -> Guards] /\ best \in [Lives -> NetLevels \cup {NoQuote}]
            /\ breached \in [Lives -> BOOLEAN]
        BY DEF TypeOK
      <3>2. [guard EXCEPT ![l].triggered = TRUE] \in [Lives -> Guards] BY <3>1 DEF Guards
      <3>3. CASE UNCHANGED <<guard, best, breached>> BY <3>1, <3>3
      <3>4. CASE /\ guard' = [guard EXCEPT ![l].triggered = TRUE]
                 /\ UNCHANGED <<best, breached>>
        BY <3>1, <3>2, <3>4
      <3>5. ASSUME n \in NetLevels, NEW asked \in BOOLEAN, WatchedBy(l, n, asked)
            PROVE  /\ guard' \in [Lives -> Guards]
                   /\ best' \in [Lives -> NetLevels \cup {NoQuote}]
                   /\ breached' \in [Lives -> BOOLEAN]
        <4>1. TypeOK /\ l \in Lives /\ n \in NetLevels /\ asked \in BOOLEAN BY <3>5
        <4> QED BY ONLY <3>5, <4>1, WatchedTypes
      <3> QED BY <1>4, <3>3, <3>4, <3>5, ManageMoves
    <2> QED BY <1>4, <2>1, <2>2, <2>3, ManageMoves DEF TypeOK
  <1> QED BY <1>1, <1>2, <1>3, <1>4 DEF ManageNext

LEMMA RestartTypes ==
  ASSUME TypeOK, Restart
  PROVE  /\ signals' = {} /\ samples' = {} /\ sample' = None
         /\ inputs' = "none" /\ feed' = FALSE /\ fresh' = FALSE
         /\ cyc' \in Cycles /\ cyc' = Idle /\ faults' \in 0..MaxFaults
  BY BlankTypes, FaultTypes DEF Restart

LEMMA BookedRow ==
  ASSUME NEW row \in Rows, NEW b \in Nat, NEW s \in Nat
  PROVE  [row EXCEPT !.bought = b, !.sold = s] \in Rows
  BY DEF Rows

LEMMA TypeRefresh == TypeOK /\ OrderInv /\ Refresh => TypeOK'
  <1> SUFFICES ASSUME TypeOK, OrderInv, Refresh PROVE TypeOK' OBVIOUS
  <1>1. CASE order.state = "none" BY <1>1, BlankTypes DEF TypeOK, Refresh
  <1>2. CASE order.state # "none"
    <2>1. order.life \in Lives /\ order.state = "ended" /\ order.filled \in Nat
          /\ order.side \in {"BUY", "SELL"}
      BY <1>2 DEF TypeOK, OrderInv, Refresh, Orders
    <2>2. Booked("BUY") \in Nat /\ Booked("SELL") \in Nat BY <2>1 DEF Booked
    <2>3. life' = [life EXCEPT ![order.life] = BookedIn(life[order.life])]
      BY <1>2 DEF Refresh
    <2>4. life' \in [Lives -> Rows]
      <3>1. life \in [Lives -> Rows] /\ life[order.life] \in Rows BY <2>1 DEF TypeOK
      <3>2. /\ life[order.life].bought + Booked("BUY") \in Nat
            /\ life[order.life].sold + Booked("SELL") \in Nat
        BY <2>1, <2>2, HeldType
      <3>3. BookedIn(life[order.life]) \in Rows
        BY <3>1, <3>2, BookedRow DEF BookedIn
      <3> QED BY <2>3, <3>1, <3>3
    <2>5. \A l \in Lives : life'[l].state = life[l].state /\ life'[l].key = life[l].key
      BY <2>1, <2>3 DEF TypeOK, Rows, BookedIn
    <2>6. \A l \in Lives \ {order.life} : life'[l] = life[l] BY <2>1, <2>3 DEF TypeOK
    <2>7. life'[order.life].bought = life[order.life].bought + Booked("BUY")
          /\ life'[order.life].sold = life[order.life].sold + Booked("SELL")
      BY <2>1, <2>3 DEF TypeOK, Rows, BookedIn
    <2>8. Booked("SELL") <= Held(order.life)
      BY <2>1, HeldType DEF OrderInv, Booked
    <2>9. life'[order.life].sold <= life'[order.life].bought
      BY <2>1, <2>2, <2>7, <2>8, HeldType DEF Held
    <2>10. \A l \in Lives : /\ life'[l].sold <= life'[l].bought
                            /\ life'[l].state # "NONE" => life'[l].key \in Keys
      BY <2>5, <2>6, <2>9 DEF TypeOK
    <2> QED BY <2>4, <2>10, BlankTypes DEF TypeOK, Refresh
  <1> QED BY <1>1, <1>2

LEMMA TypeOutside == TypeOK /\ OrderInv /\ OutsideNext => TypeOK'
  <1> SUFFICES ASSUME TypeOK, OrderInv, OutsideNext PROVE TypeOK' OBVIOUS
  <1>1. CASE Invalidate BY <1>1, FaultTypes DEF TypeOK, Invalidate
  <1>2. ASSUME NEW n \in 0..order.lots, End(n) PROVE TypeOK'
    <2>1. order.lots \in Nat /\ hold \in Nat /\ n \in Nat /\ (order.side = "SELL" => n <= hold)
          /\ order.side \in {"BUY", "SELL"}
      BY <1>2 DEF TypeOK, Orders, End
    <2>2. hold' \in Nat BY <1>2, <2>1 DEF End
    <2>3. order' \in Orders BY <1>2, <2>1 DEF TypeOK, End, Orders
    <2> QED BY <1>2, <2>2, <2>3 DEF TypeOK, End
  <1>3. CASE Clear BY <1>3 DEF TypeOK, Clear
  <1>4. CASE Tick
    <2>1. clock' \in Time BY <1>4 DEF TypeOK, Tick, Time
    <2> QED BY <1>4, <2>1 DEF TypeOK, Tick
  <1>5. CASE Crash BY <1>5, RestartTypes DEF TypeOK, Crash, Restart
  <1>6. CASE CrashInClose
    <2>1. Closes(cyc.life) /\ cyc.at = "closing" BY <1>6 DEF CrashInClose
    <2> QED BY <1>6, <2>1, ClosesTypes, RestartTypes DEF TypeOK, CrashInClose, Restart
  <1>7. CASE CrashInEnter
    <2>1. PICK k \in Decidable, l \in Lives : Decided(k, l) BY <1>7 DEF CrashInEnter
    <2> QED BY <1>7, <2>1, DecidedTypes, RestartTypes DEF TypeOK, CrashInEnter, Restart
  <1>8. CASE CrashInManage
    <2>1. PICK l \in Lives, n \in NetLevels : WatchedBy(l, n, FALSE)
      BY <1>8 DEF CrashInManage, WatchedBy
    <2>2. /\ guard' \in [Lives -> Guards]
          /\ best' \in [Lives -> NetLevels \cup {NoQuote}]
          /\ breached' \in [Lives -> BOOLEAN]
      BY <2>1, WatchedTypes
    <2> QED BY <1>8, <2>2, BlankTypes, FaultTypes DEF TypeOK, CrashInManage
  <1>9. CASE Refresh BY <1>9, TypeRefresh
  <1> QED BY <1>1, <1>2, <1>3, <1>4, <1>5, <1>6, <1>7, <1>8, <1>9 DEF OutsideNext

LEMMA TypeStep == TypeOK /\ OrderInv /\ [Next]_vars => TypeOK'
  <1> SUFFICES ASSUME TypeOK, OrderInv, [Next]_vars PROVE TypeOK' OBVIOUS
  <1>1. CASE UNCHANGED vars BY <1>1 DEF TypeOK, vars
  <1> QED BY <1>1, TypeInput, TypeEntry, TypeManage, TypeOutside DEF Next

----------------------------------------------------------------------------
(* What keeps each part of the invariant *)

LEMMA Unmoved ==
  ASSUME DirectionalInv
  PROVE  /\ UNCHANGED <<cyc, order, hold, life>> => OrderInv'
         /\ UNCHANGED <<life, families, enabled>> => FamilyInv'
         /\ UNCHANGED life => OneEntryPerFamily'
         /\ UNCHANGED <<sample, bar, enabled>> => EpisodeInv'
         /\ UNCHANGED <<first, recorded, signals, samples, clock>> => SignalInv'
         /\ UNCHANGED <<best, guard>> => PeakInv'
         /\ UNCHANGED <<breached, guard, exit>> => FloorBinds'
         /\ dropped' = dropped /\ consumed \subseteq consumed' => (dropped \subseteq consumed)'
  <1> USE DEF DirectionalInv
  <1>1. UNCHANGED <<cyc, order, hold, life>> => OrderInv' BY DEF OrderInv, Held
  <1>2. UNCHANGED <<life, families, enabled>> => FamilyInv' BY DEF FamilyInv
  <1>3. UNCHANGED life => OneEntryPerFamily' BY DEF OneEntryPerFamily
  <1>4. UNCHANGED <<sample, bar, enabled>> => EpisodeInv' BY DEF EpisodeInv, ShockKeys
  <1>5. UNCHANGED <<first, recorded, signals, samples, clock>> => SignalInv'
    BY DEF SignalInv
  <1>6. UNCHANGED <<best, guard>> => PeakInv' BY DEF PeakInv
  <1>7. UNCHANGED <<breached, guard, exit>> => FloorBinds' BY DEF FloorBinds
  <1> QED BY <1>1, <1>2, <1>3, <1>4, <1>5, <1>6, <1>7

LEMMA IdleMoves ==
  ASSUME DirectionalInv, cyc' = Idle, UNCHANGED <<order, hold, life>>
  PROVE  OrderInv'
  BY DEF DirectionalInv, OrderInv, Idle, Held

LEMMA ForgetMoves ==
  ASSUME DirectionalInv, UNCHANGED <<first, recorded, bar, enabled>>,
         signals' = {}, samples' = {}, sample' = None
  PROVE  SignalInv' /\ EpisodeInv'
  BY DEF DirectionalInv, SignalInv, EpisodeInv, ShockKeys

LEMMA InvInit == Init => DirectionalInv
  <1> SUFFICES ASSUME Init PROVE DirectionalInv OBVIOUS
  <1>1. TypeOK BY TypeInit
  <1>2. OrderInv BY DEF Init, OrderInv, Idle, NoOrder
  <1>3. FamilyInv /\ OneEntryPerFamily
    <2>1. \A l \in Lives : life[l].state # "NONE" => l = 1 /\ life[l].key = Carried
      BY DEF Init, NoLife, Start
    <2> QED BY <2>1 DEF Init, FamilyInv, OneEntryPerFamily
  <1>4. EpisodeInv BY DEF Init, EpisodeInv, NoBar
  <1>5. SignalInv BY DEF Init, SignalInv
  <1>6. PeakInv /\ FloorBinds BY DEF Init, PeakInv, FloorBinds, NoGuard
  <1>7. dropped \subseteq consumed BY DEF Init
  <1> QED BY <1>1, <1>2, <1>3, <1>4, <1>5, <1>6, <1>7 DEF DirectionalInv

----------------------------------------------------------------------------
(* Evaluations *)

LEMMA InvInput == DirectionalInv /\ InputNext => DirectionalInv'
  <1> SUFFICES ASSUME DirectionalInv, InputNext PROVE DirectionalInv' OBVIOUS
  <1>0. TypeOK /\ TypeOK' BY TypeInput DEF DirectionalInv
  <1>1. ASSUME NEW k \in Keys, NEW e \in Minutes, UpdateMinute(k, e) PROVE DirectionalInv'
    <2>1. e # NoTime BY DEF Minutes, Time, NoTime
    <2>2. SignalInv'
      <3>1. \A j \in Keys \ {k} : first'[j] = first[j] /\ recorded'[j] = recorded[j]
        BY <1>0, <1>1 DEF TypeOK, UpdateMinute
      <3>2. first'[k] = recorded'[k] /\ (k \in signals' => recorded'[k] # NoTime)
        BY <1>0, <1>1, <2>1
           DEF TypeOK, UpdateMinute, Keeps, DirectionalInv, SignalInv
      <3>3. signals' \subseteq signals \cup {k} /\ UNCHANGED <<samples, clock>>
        BY <1>1 DEF UpdateMinute
      <3>4. Kind[k] \in {"minute", "rebound"} BY <1>1 DEF UpdateMinute
      <3> QED BY <1>0, <3>1, <3>2, <3>3, <3>4 DEF TypeOK, DirectionalInv, SignalInv
    <2> QED BY <1>0, <1>1, <2>2, Unmoved DEF UpdateMinute, DirectionalInv
  <1>2. ASSUME NEW k \in Keys, TapeSignals(k) PROVE DirectionalInv'
    <2>1. clock # NoTime /\ clock = Bucket[k] /\ Kind[k] = "seconds"
      BY <1>0, <1>2, TimeTypes DEF TypeOK, TapeSignals
    <2>2. \A j \in Keys \ {k} : first'[j] = first[j]
      BY <1>0, <1>2 DEF TypeOK, TapeSignals
    <2>3. first'[k] = clock
      BY <1>0, <1>2, <2>1 DEF TypeOK, TapeSignals, DirectionalInv, SignalInv
    <2>4. SignalInv'
      BY <1>0, <1>2, <2>1, <2>2, <2>3 DEF TypeOK, TapeSignals, DirectionalInv, SignalInv
    <2> QED BY <1>0, <1>2, <2>4, Unmoved DEF TapeSignals, DirectionalInv
  <1>3. ASSUME NEW k \in Keys, TapeMoves(k) PROVE DirectionalInv'
    <2>1. SignalInv' BY <1>3 DEF TapeMoves, DirectionalInv, SignalInv
    <2> QED BY <1>0, <1>3, <2>1, Unmoved DEF TapeMoves, DirectionalInv
  <1>4. ASSUME NEW q \in BOOLEAN, NEW b \in Minutes, ShockBar(q, b) PROVE DirectionalInv'
    <2>1. PICK k \in Episode(q) :
           /\ bar' = [at |-> b, qualifying |-> q, key |-> k, conflicted |-> FALSE]
           /\ sample' = k
           /\ recorded' = IF q /\ recorded[k] = NoTime THEN [recorded EXCEPT ![k] = b] ELSE recorded
           /\ first' = IF q /\ first[k] = NoTime THEN [first EXCEPT ![k] = b] ELSE first
      BY <1>4 DEF ShockBar
    <2>2. enabled' = enabled BY <1>4 DEF ShockBar
    <2>3. k \in ShockKeys \cup {None} /\ (q => k \in ShockKeys)
      BY DEF Episode, UnusedShock, ShockKeys, DirectionalInv, EpisodeInv
    <2>4. EpisodeInv'
      <3>1. bar'.key = k /\ bar'.qualifying = q /\ sample' = k BY <2>1
      <3>2. q => k # None BY <1>0, <2>3, ConfigTypes DEF ShockKeys
      <3>3. ShockKeys' = ShockKeys BY <2>2 DEF ShockKeys
      <3> QED BY <2>3, <3>1, <3>2, <3>3 DEF EpisodeInv
    <2>5. SignalInv'
      <3>1. CASE ~q
        <4>1. first' = first /\ recorded' = recorded BY <2>1, <3>1
        <4> QED BY <1>4, <4>1, Unmoved DEF ShockBar
      <3>2. CASE q
        <4>1. k \in Keys /\ Kind[k] = "shock" /\ k \notin signals /\ k \notin samples
              /\ first[k] = recorded[k]
          BY <1>0, <2>3, <3>2, ConfigTypes DEF ShockKeys, DirectionalInv, SignalInv
        <4>2. \A j \in Keys \ {k} : first'[j] = first[j] /\ recorded'[j] = recorded[j]
          BY <1>0, <2>1, <4>1 DEF TypeOK
        <4>3. first'[k] = recorded'[k] BY <1>0, <2>1, <4>1 DEF TypeOK
        <4>4. UNCHANGED <<signals, samples, clock>> BY <1>4 DEF ShockBar
        <4> QED BY <1>0, <4>1, <4>2, <4>3, <4>4 DEF TypeOK, DirectionalInv, SignalInv
      <3> QED BY <3>1, <3>2
    <2> QED BY <1>0, <1>4, <2>4, <2>5, Unmoved DEF ShockBar, DirectionalInv
  <1>5. ASSUME NEW q \in BOOLEAN, ShockRetry(q) PROVE DirectionalInv'
    <2>1. consumed \subseteq consumed' BY <1>0, <1>5, InvalidatedType DEF ShockRetry
    <2>2. EpisodeInv'
      <3>1. bar'.key = bar.key /\ bar'.qualifying = bar.qualifying
        BY <1>0, <1>5 DEF TypeOK, ShockRetry, Bars
      <3>2. sample' \in {None, bar.key} /\ enabled' = enabled BY <1>5 DEF ShockRetry
      <3> QED BY <3>1, <3>2 DEF DirectionalInv, EpisodeInv, ShockKeys
    <2> QED BY <1>0, <1>5, <2>1, <2>2, Unmoved DEF ShockRetry, DirectionalInv
  <1>6. CASE InputsArrive \/ InputsFail \/ Connect
    BY <1>0, <1>6, Unmoved DEF InputsArrive, InputsFail, Connect, DirectionalInv
  <1>7. CASE Disconnect
    <2>1. (dropped \subseteq consumed)'
      BY <1>7 DEF Disconnect, Invalidated, DirectionalInv
    <2>2. SignalInv' BY <1>7 DEF Disconnect, DirectionalInv, SignalInv
    <2>3. EpisodeInv' BY <1>7 DEF Disconnect, DirectionalInv, EpisodeInv, ShockKeys
    <2> QED BY <1>0, <1>7, <2>1, <2>2, <2>3, Unmoved DEF Disconnect, DirectionalInv
  <1> QED BY <1>1, <1>2, <1>3, <1>4, <1>5, <1>6, <1>7 DEF InputNext

----------------------------------------------------------------------------
(* Entries *)

\* What may be decided is enabled, and neither it nor its family is spent.
LEMMA DecidableIsFree ==
  ASSUME DirectionalInv, NEW k \in Decidable
  PROVE  /\ k \in enabled /\ k \in Keys /\ k \notin consumed /\ Family[k] \notin families
         /\ k \in signals \/ k \in samples \/ Kind[k] = "shock"
  <1>0. TypeOK BY DEF DirectionalInv
  <1>1. k \in Keys BY <1>0, MetTypes
  <1>2. CASE Sole
    <2>1. k = sample /\ k \notin consumed /\ Family[k] \notin families
      BY <1>2 DEF Decidable, Valid, Conflict, FamilyKey
    <2> QED BY <1>1, <2>1 DEF DirectionalInv, EpisodeInv, ShockKeys
  <1>3. CASE ~Sole
    BY <1>1, <1>3 DEF Decidable, Due, Unconsumed, FamilyKey
  <1> QED BY <1>2, <1>3

LEMMA DecidedKeeps ==
  ASSUME DirectionalInv, NEW k \in Decidable, NEW l \in Lives, Decided(k, l),
         UNCHANGED enabled
  PROVE  /\ FamilyInv' /\ OneEntryPerFamily' /\ consumed \subseteq consumed'
         /\ life'[l].key = k /\ life[l].state = "NONE"
         /\ \A m \in Lives \ {l} : life'[m] = life[m]
  <1>0. TypeOK BY DEF DirectionalInv
  <1>1. k \in enabled /\ k \in Keys /\ Family[k] \notin families BY DecidableIsFree
  <1>2. Family[k] # Family[Carried] BY <1>0, <1>1 DEF TypeOK
  <1>3. life[l].state = "NONE" BY DEF Decided, NewLife
  <1>4. /\ life'[l].key = k /\ life'[l].state = "OPEN"
        /\ \A m \in Lives \ {l} : life'[m] = life[m]
    BY <1>0 DEF TypeOK, Decided, NoLife
  <1>5. families' = families \cup {Family[k]} BY DEF Decided, FamilyKey
  <1>6. FamilyInv'
    BY <1>1, <1>4, <1>5 DEF DirectionalInv, FamilyInv
  <1>7. \A m \in Lives : life[m].state # "NONE" => Family[life[m].key] # Family[k]
    BY <1>1, <1>2 DEF DirectionalInv, FamilyInv
  <1>8. OneEntryPerFamily'
    BY <1>4, <1>7 DEF DirectionalInv, OneEntryPerFamily
  <1>9. consumed \subseteq consumed' BY DEF Decided
  <1> QED BY <1>3, <1>4, <1>6, <1>8, <1>9

LEMMA InvEntry == DirectionalInv /\ EntryNext => DirectionalInv'
  <1> SUFFICES ASSUME DirectionalInv, EntryNext PROVE DirectionalInv' OBVIOUS
  <1>0. TypeOK /\ TypeOK' BY TypeEntry DEF DirectionalInv
  <1>1. CASE EnterStart \/ EnterShockStart
    <2>1. /\ order.state = "none" /\ cyc'.at = "entering"
          /\ UNCHANGED <<order, hold, life>> /\ consumed \subseteq consumed'
      BY <1>1 DEF EnterStart, EnterShockStart, MayEnter, Idle
    <2>2. OrderInv' BY <2>1 DEF OrderInv
    <2> QED BY <1>0, <1>1, <2>1, <2>2, Unmoved DEF EnterStart, EnterShockStart, DirectionalInv
  <1>2. CASE EnterMissed \/ EnterShockMissed
    BY <1>0, <1>2, Unmoved DEF EnterMissed, EnterShockMissed, DirectionalInv
  <1>3. ASSUME NEW k \in Keys, NEW l \in Lives, NEW n \in Lots, Enter(k, l, n)
        PROVE  DirectionalInv'
    <2>1. k \in Decidable /\ Decided(k, l) /\ UNCHANGED enabled /\ cyc' = Idle
          /\ cyc.at = "entering"
      BY <1>3 DEF Enter
    <2>2. order.state = "none" BY <2>1 DEF DirectionalInv, OrderInv
    <2>3. \/ order' = [state |-> "live", side |-> "BUY", life |-> l, lots |-> n, filled |-> 0]
          \/ order' = order
      BY <1>3 DEF Enter
    <2>4. OrderInv' BY <2>1, <2>2, <2>3 DEF OrderInv, Idle
    <2> QED BY <1>0, <1>3, <2>1, <2>4, Unmoved, DecidedKeeps DEF Enter, DirectionalInv
  <1>4. CASE EntryConflict \/ EntryDropped
    <2>1. cyc' = Idle /\ UNCHANGED <<order, hold, life>> /\ consumed \subseteq consumed'
      BY <1>4 DEF EntryConflict, EntryDropped
    <2> QED BY <1>0, <1>4, <2>1, Unmoved, IdleMoves
            DEF EntryConflict, EntryDropped, DirectionalInv
  <1> QED BY <1>1, <1>2, <1>3, <1>4 DEF EntryNext

----------------------------------------------------------------------------
(* Positions *)

\* A ratchet that sees a book below its floor triggers, and stays triggered.
LEMMA ObservedTriggers ==
  ASSUME NEW k, NEW g \in Guards, NEW n, NEW asked,
         g.triggered \/ Floored(k, Peak(g, n), n)
  PROVE  Observed(k, g, n, asked).triggered
  <1>1. ASSUME NEW p, NEW a, NEW b, NEW c, g.triggered \/ b
        PROVE  [peak |-> p, triggered |-> g.triggered \/ a \/ b \/ c].triggered
    BY <1>1
  <1> QED BY <1>1, Zenon DEF Observed

\* The ratchet and the history see the same book: what breaches the floor of
\* the one triggers the other.
LEMMA WatchedKeeps ==
  ASSUME DirectionalInv, NEW l \in Lives, NEW n \in NetLevels, NEW asked \in BOOLEAN,
         WatchedBy(l, n, asked)
  PROVE  /\ PeakInv'
         /\ \A m \in Lives : breached'[m] => guard'[m].triggered \/ exit[m] # NoTime
  <1>0. /\ guard \in [Lives -> Guards] /\ best \in [Lives -> NetLevels \cup {NoQuote}]
        /\ breached \in [Lives -> BOOLEAN] /\ best[l] = guard[l].peak
    BY DEF DirectionalInv, TypeOK, PeakInv
  <1>1. \A m \in Lives \ {l} : /\ guard'[m] = guard[m] /\ best'[m] = best[m]
                               /\ breached'[m] = breached[m]
    BY <1>0 DEF WatchedBy
  <1>2. guard'[l] = Observed(life[l].key, guard[l], n, asked)
    BY <1>0 DEF WatchedBy, Persisted
  <1>3. best'[l] = Peak(guard[l], n) BY <1>0 DEF WatchedBy, Peak
  <1>4. guard'[l].peak = best'[l] BY <1>2, <1>3 DEF Observed
  <1>5. breached'[l] = (breached[l] \/ Floored(life[l].key, best'[l], n))
    BY <1>0 DEF WatchedBy
  <1>6. guard[l].triggered \/ Floored(life[l].key, best'[l], n) => guard'[l].triggered
    BY <1>0, <1>2, <1>3, ObservedTriggers
  <1>7. breached'[l] => guard'[l].triggered \/ exit[l] # NoTime
    BY <1>5, <1>6 DEF DirectionalInv, FloorBinds
  <1>8. PeakInv' BY <1>1, <1>4 DEF DirectionalInv, PeakInv
  <1> QED BY <1>1, <1>7, <1>8 DEF DirectionalInv, FloorBinds

\* Closing a row keeps its key.
LEMMA ClosesKeeps ==
  ASSUME DirectionalInv, cyc.at = "closing", Closes(cyc.life), UNCHANGED <<families, enabled>>
  PROVE  FamilyInv' /\ OneEntryPerFamily'
  <1>0. TypeOK /\ cyc.life \in Lives /\ life[cyc.life].state = "OPEN"
    BY DEF DirectionalInv, OrderInv
  <1>1. \A l \in Lives : /\ life'[l].key = life[l].key
                         /\ life'[l].state # "NONE" => life[l].state # "NONE"
    BY <1>0 DEF TypeOK, Closes, Rows
  <1>2. FamilyInv' BY <1>1 DEF DirectionalInv, FamilyInv
  <1>3. OneEntryPerFamily' BY <1>1 DEF DirectionalInv, OneEntryPerFamily
  <1> QED BY <1>2, <1>3

LEMMA InvManage == DirectionalInv /\ ManageNext => DirectionalInv'
  <1> SUFFICES ASSUME DirectionalInv, ManageNext PROVE DirectionalInv' OBVIOUS
  <1>0. TypeOK /\ TypeOK' BY TypeManage DEF DirectionalInv
  <1>1. ASSUME NEW l \in Lives, CloseStart(l) PROVE DirectionalInv'
    <2>1. /\ cyc'.at = "closing" /\ cyc'.life = l /\ life[l].state = "OPEN"
          /\ order.state = "none" /\ UNCHANGED <<order, hold, life>>
      BY <1>0, <1>1, ManagedIsOpen DEF CloseStart, Idle
    <2>2. OrderInv' BY <2>1 DEF OrderInv
    <2> QED BY <1>0, <1>1, <2>2, Unmoved DEF CloseStart, DirectionalInv
  <1>2. CASE Close
    <2>1. /\ cyc.at = "closing" /\ Closes(cyc.life) /\ cyc' = Idle
          /\ UNCHANGED <<families, enabled, order>>
      BY <1>2 DEF Close
    <2>2. OrderInv' BY <2>1 DEF OrderInv, Idle, DirectionalInv
    <2> QED BY <1>0, <1>2, <2>1, <2>2, Unmoved, ClosesKeeps DEF Close, DirectionalInv
  <1>3. CASE CycleFails
    BY <1>0, <1>3, Unmoved, IdleMoves DEF CycleFails, DirectionalInv
  <1>4. ASSUME NEW l \in Lives, NEW n \in NetLevels \cup {NoQuote},
               \/ \E asked \in MaybeTime : Manage(l, n, asked)
               \/ \E asked \in BOOLEAN : ManageShock(l, n, asked)
        PROVE  DirectionalInv'
    <2>1. PICK due : Offer(l, due) BY <1>0, <1>4, ManageMoves
    <2>2. PICK d \in MaybeTime : exit' = [exit EXCEPT ![l] = d] BY <1>0, <1>4, ManageMoves
    <2>3. MayManage(l) /\ (exit[l] # NoTime => exit'[l] # NoTime)
      BY <1>0, <1>4, ManageMoves
    <2>4. UNCHANGED <<world, recorded, consumed, families, bar, life, reboundExited,
                      lastClosed, signals, samples, sample, inputs, feed, cyc, hold,
                      first, dropped, closedAt>>
      BY <1>0, <1>4, ManageMoves
    <2>5. OrderInv'
      <3>1. cyc.at = "idle" /\ order.state = "none" /\ hold = Held(l) /\ hold \in Nat
        BY <1>0, <2>3, ManagedIsOpen DEF TypeOK
      <3>2. \/ order' = order
            \/ order'.state = "live" /\ order'.side = "SELL" /\ order'.life = l
        BY <2>1 DEF Offer
      <3> QED BY <2>4, <3>1, <3>2 DEF OrderInv, Held
    <2>6. \A m \in Lives : exit[m] # NoTime => exit'[m] # NoTime
      BY <1>0, <2>2, <2>3 DEF TypeOK
    <2>7. PeakInv' /\ FloorBinds'
      <3>1. CASE UNCHANGED <<guard, best, breached>>
        BY <2>6, <3>1 DEF DirectionalInv, PeakInv, FloorBinds
      <3>2. CASE /\ guard' = [guard EXCEPT ![l].triggered = TRUE]
                 /\ UNCHANGED <<best, breached>>
        <4>1. \A m \in Lives : /\ guard'[m].peak = guard[m].peak
                               /\ guard[m].triggered => guard'[m].triggered
          BY <1>0, <3>2 DEF TypeOK, Guards
        <4> QED BY <2>6, <3>2, <4>1 DEF DirectionalInv, PeakInv, FloorBinds
      <3>3. ASSUME n \in NetLevels, NEW asked \in BOOLEAN, WatchedBy(l, n, asked)
            PROVE  PeakInv' /\ FloorBinds'
        <4>1. DirectionalInv /\ l \in Lives /\ n \in NetLevels /\ asked \in BOOLEAN BY <3>3
        <4>2. /\ PeakInv'
              /\ \A m \in Lives : breached'[m] => guard'[m].triggered \/ exit[m] # NoTime
          BY ONLY <3>3, <4>1, WatchedKeeps
        <4> QED BY <2>6, <4>2 DEF FloorBinds
      <3>4. \/ UNCHANGED <<guard, best, breached>>
            \/ /\ guard' = [guard EXCEPT ![l].triggered = TRUE]
               /\ UNCHANGED <<best, breached>>
            \/ n \in NetLevels /\ \E asked \in BOOLEAN : WatchedBy(l, n, asked)
        BY <1>0, <1>4, ManageMoves
      <3> QED BY <3>1, <3>2, <3>3, <3>4
    <2> QED BY <1>0, <2>4, <2>5, <2>7, Unmoved DEF DirectionalInv
  <1> QED BY <1>1, <1>2, <1>3, <1>4 DEF ManageNext

----------------------------------------------------------------------------
(* Account, broker, time and restarts *)

LEMMA InvOutside == DirectionalInv /\ OutsideNext => DirectionalInv'
  <1> SUFFICES ASSUME DirectionalInv, OutsideNext PROVE DirectionalInv' OBVIOUS
  <1>0. TypeOK /\ TypeOK' BY TypeOutside DEF DirectionalInv
  <1>1. CASE Refresh
    <2>1. \A l \in Lives : life'[l].state = life[l].state /\ life'[l].key = life[l].key
      BY <1>0, <1>1 DEF TypeOK, Refresh, Rows, BookedIn
    <2>2. FamilyInv' BY <1>1, <2>1 DEF Refresh, DirectionalInv, FamilyInv
    <2>3. OneEntryPerFamily' BY <2>1 DEF DirectionalInv, OneEntryPerFamily
    <2>4. OrderInv' BY <1>1, <2>1 DEF Refresh, DirectionalInv, OrderInv, NoOrder
    <2> QED BY <1>0, <1>1, <2>2, <2>3, <2>4, Unmoved DEF Refresh, DirectionalInv
  <1>2. CASE Invalidate BY <1>0, <1>2, Unmoved DEF Invalidate, DirectionalInv
  <1>3. ASSUME NEW n \in 0..order.lots, End(n) PROVE DirectionalInv'
    <2>1. /\ order.state = "live" /\ order'.state = "ended" /\ order'.filled = n
          /\ order'.side = order.side /\ order'.life = order.life
          /\ order.side = "SELL" => n <= hold
          /\ UNCHANGED <<cyc, life>>
      BY <1>0, <1>3 DEF TypeOK, Orders, End
    <2>2. order.life \in Lives /\ (order.side = "SELL" => hold <= Held(order.life))
          /\ cyc.at = "idle"
      BY <2>1 DEF DirectionalInv, OrderInv
    <2>3. hold \in Nat /\ Held(order.life) \in Nat BY <1>0, <2>2, HeldType DEF TypeOK
    <2>4. order'.side = "SELL" => order'.filled <= Held(order.life)
      BY <2>1, <2>2, <2>3
    <2>5. OrderInv' BY <2>1, <2>2, <2>4 DEF OrderInv, Held
    <2> QED BY <1>0, <1>3, <2>5, Unmoved DEF End, DirectionalInv
  <1>4. CASE Clear
    <2>1. OrderInv' BY <1>4 DEF Clear, DirectionalInv, OrderInv
    <2> QED BY <1>0, <1>4, <2>1, Unmoved DEF Clear, DirectionalInv
  <1>5. CASE Tick
    <2>1. SignalInv' BY <1>5 DEF Tick, DirectionalInv, SignalInv
    <2> QED BY <1>0, <1>5, <2>1, Unmoved DEF Tick, DirectionalInv
  <1>6. CASE Crash
    BY <1>0, <1>6, Unmoved, IdleMoves, ForgetMoves DEF Crash, Restart, DirectionalInv
  <1>7. CASE CrashInClose
    <2>1. /\ cyc.at = "closing" /\ Closes(cyc.life) /\ cyc' = Idle
          /\ UNCHANGED <<families, enabled, order>>
      BY <1>7 DEF CrashInClose, Restart
    <2>2. OrderInv' BY <2>1 DEF OrderInv, Idle, DirectionalInv
    <2> QED BY <1>0, <1>7, <2>1, <2>2, Unmoved, ClosesKeeps, ForgetMoves
            DEF CrashInClose, Restart, DirectionalInv
  <1>8. CASE CrashInEnter
    <2>1. PICK k \in Decidable, l \in Lives : Decided(k, l) BY <1>8 DEF CrashInEnter
    <2>2. /\ UNCHANGED <<enabled, order, hold>> /\ cyc' = Idle /\ cyc.at = "entering"
      BY <1>8 DEF CrashInEnter, Restart
    <2>3. OrderInv' BY <2>2 DEF OrderInv, Idle, DirectionalInv
    <2> QED BY <1>0, <1>8, <2>1, <2>2, <2>3, Unmoved, DecidedKeeps, ForgetMoves
            DEF CrashInEnter, Restart, DirectionalInv
  <1>9. CASE CrashInManage
    <2>1. PICK l \in Lives, n \in NetLevels : WatchedBy(l, n, FALSE)
      BY <1>9 DEF CrashInManage, WatchedBy
    <2>2. PeakInv' /\ FloorBinds'
      <3>1. exit' = exit BY <1>9 DEF CrashInManage
      <3> QED BY <2>1, <3>1, WatchedKeeps DEF FloorBinds
    <2> QED BY <1>0, <1>9, <2>2, Unmoved, IdleMoves, ForgetMoves
            DEF CrashInManage, DirectionalInv
  <1> QED BY <1>1, <1>2, <1>3, <1>4, <1>5, <1>6, <1>7, <1>8, <1>9 DEF OutsideNext

LEMMA InvStep == DirectionalInv /\ [Next]_vars => DirectionalInv'
  <1> SUFFICES ASSUME DirectionalInv, [Next]_vars PROVE DirectionalInv' OBVIOUS
  <1>1. CASE UNCHANGED vars
    <2>1. TypeOK' BY <1>1, TypeStep DEF DirectionalInv
    <2> QED BY <1>1, <2>1, Unmoved DEF DirectionalInv, vars
  <1> QED BY <1>1, InvInput, InvEntry, InvManage, InvOutside DEF Next

LEMMA InvHolds == Spec => []DirectionalInv
  BY InvInit, InvStep, PTL DEF Spec

----------------------------------------------------------------------------
(* Entries, as steps *)

LEMMA BuysIsEnter ==
  ASSUME DirectionalInv, [Next]_vars, Buys
  PROVE  \E k \in Keys, l \in Lives, n \in Lots :
           Enter(k, l, n) /\ Current(k) /\ order'.life = l
  <1>1. CASE UNCHANGED order BY <1>1 DEF Buys
  <1>2. ASSUME InputNext PROVE UNCHANGED order
    BY <1>2 DEF InputNext, UpdateMinute, TapeSignals, TapeMoves, ShockBar, ShockRetry,
                InputsArrive, InputsFail, Disconnect, Connect
  <1>3. CASE EntryNext
    <2>1. ASSUME NEW k \in Keys, NEW l \in Lives, NEW n \in Lots, Enter(k, l, n)
          PROVE  Current(k) /\ order'.life = l
      BY <2>1 DEF Enter, Buys
    <2>2. ASSUME EnterStart \/ EnterMissed \/ EnterShockStart \/ EnterShockMissed
                 \/ EntryConflict \/ EntryDropped
          PROVE  UNCHANGED order
      BY <2>2 DEF EnterStart, EnterMissed, EnterShockStart, EnterShockMissed,
                  EntryConflict, EntryDropped
    <2> QED BY <1>1, <1>3, <2>1, <2>2 DEF EntryNext
  <1>4. CASE ManageNext
    <2>1. ASSUME (\E l \in Lives : CloseStart(l)) \/ Close \/ CycleFails
          PROVE  UNCHANGED order
      BY <2>1 DEF CloseStart, Close, CycleFails
    <2>2. ASSUME NEW l \in Lives, NEW n \in NetLevels \cup {NoQuote},
                 \/ \E asked \in MaybeTime : Manage(l, n, asked)
                 \/ \E asked \in BOOLEAN : ManageShock(l, n, asked)
          PROVE  order' = order \/ order'.side = "SELL"
      <3>1. PICK due : Offer(l, due)
        BY <2>2, ManageMoves DEF DirectionalInv
      <3> QED BY <3>1 DEF Offer
    <2> QED BY <1>1, <1>4, <2>1, <2>2 DEF ManageNext, Buys
  <1>5. CASE OutsideNext
    <2>1. ASSUME Refresh \/ (\E n \in 0..order.lots : End(n)) PROVE order'.state # "live"
      <3>1. order \in Orders BY DEF DirectionalInv, TypeOK
      <3>2. Refresh => order' = NoOrder BY DEF Refresh
      <3>3. ASSUME NEW n \in 0..order.lots, End(n) PROVE order'.state = "ended"
        BY <3>1, <3>3 DEF End, Orders
      <3> QED BY <2>1, <3>2, <3>3 DEF NoOrder
    <2>2. ASSUME Invalidate \/ Clear \/ Tick \/ Crash \/ CrashInClose \/ CrashInEnter
                 \/ CrashInManage
          PROVE  UNCHANGED order
      BY <2>2 DEF Invalidate, Clear, Tick, Crash, CrashInClose, CrashInEnter, CrashInManage,
                  Restart
    <2> QED BY <1>1, <1>5, <2>1, <2>2 DEF OutsideNext, Buys
  <1>6. CASE UNCHANGED vars BY <1>1, <1>6 DEF vars
  <1> QED BY <1>1, <1>2, <1>3, <1>4, <1>5, <1>6 DEF Next

LEMMA EntryStep ==
  ASSUME DirectionalInv, [Next]_vars
  PROVE  BuysOnTime /\ BuysUndropped
  <1> SUFFICES ASSUME Buys
               PROVE  /\ clock \in Window(life'[order'.life].key, first[life'[order'.life].key])
                      /\ life'[order'.life].key \notin dropped
    BY DEF BuysOnTime, BuysUndropped
  <1>0. TypeOK BY DEF DirectionalInv
  <1>1. PICK k \in Keys, l \in Lives, n \in Lots :
          Enter(k, l, n) /\ Current(k) /\ order'.life = l
    BY BuysIsEnter
  <1>2. k \in Decidable /\ Decided(k, l) /\ UNCHANGED enabled BY <1>1 DEF Enter
  <1>3. life'[order'.life].key = k BY <1>1, <1>2, DecidedKeeps
  <1>4. k \notin consumed /\ (k \in signals \/ k \in samples \/ Kind[k] = "shock")
    BY <1>2, DecidableIsFree
  <1>5. k \notin dropped BY <1>4 DEF DirectionalInv
  <1>6. clock \in Window(k, first[k])
    <2>1. CASE Kind[k] = "seconds"
      <3>1. first[k] = clock BY <1>4, <2>1 DEF DirectionalInv, SignalInv
      <3> QED BY <2>1, <3>1 DEF Window
    <2>2. CASE Kind[k] = "shock"
      BY <1>1, <2>2 DEF Current, Valid, DirectionalInv, SignalInv
    <2>3. CASE Kind[k] \notin {"seconds", "shock"}
      BY <1>1, <2>3 DEF Current, Evaluated, DirectionalInv, SignalInv
    <2> QED BY <2>1, <2>2, <2>3
  <1> QED BY <1>3, <1>5, <1>6

----------------------------------------------------------------------------
(* The theorems *)

\* Every reachable state has its type, and no row has sold what it did not buy.
THEOREM DirectionalTypeCorrect == Spec => []TypeOK
  <1>1. DirectionalInv => TypeOK BY DEF DirectionalInv
  <1> QED BY <1>1, InvHolds, PTL

\* A family is entered at most once a day, whatever crashes and whatever is
\* evaluated again.
THEOREM OneEntryPerFamilyHolds == Spec => []OneEntryPerFamily
  <1>1. DirectionalInv => OneEntryPerFamily BY DEF DirectionalInv
  <1> QED BY <1>1, InvHolds, PTL

\* A book seen below the armed floor latches the exit; no restart forgets the peak.
THEOREM FloorBindsHolds == Spec => []FloorBinds
  <1>1. DirectionalInv => FloorBinds BY DEF DirectionalInv
  <1> QED BY <1>1, InvHolds, PTL

\* Every entry is posted in the window of the first evaluation of its signal.
THEOREM EntryOnTimeHolds == Spec => EntryOnTime
  <1>1. DirectionalInv /\ [Next]_vars => [BuysOnTime]_vars BY EntryStep
  <1> QED BY <1>1, InvHolds, PTL DEF Spec, EntryOnTime

\* No entry is posted for an episode that was held when a feed dropped.
THEOREM ReconnectConsumesHolds == Spec => ReconnectConsumes
  <1>1. DirectionalInv /\ [Next]_vars => [BuysUndropped]_vars BY EntryStep
  <1> QED BY <1>1, InvHolds, PTL DEF Spec, ReconnectConsumes
=============================================================================
