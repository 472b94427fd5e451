----------------------------- MODULE OmsProofs -----------------------------
(***************************************************************************)
(* Proofs about Oms, for any finite set of intents and lots, any bound on  *)
(* faults, and a broker whose order rows may lag: its types; that no sale  *)
(* is ever at the exchange's disposal without a bought lot to cover it     *)
(* (SafeInv), so that the order manager implements Exposure, whether the   *)
(* rows carry filledQty or not; and, if they do (the revision fence makes  *)
(* up for lagging ones), what a closed intent and a clear account say of   *)
(* the exchange (SettledInv).  For rows that do not lag, WalkInv: the      *)
(* ledger never shows more sold than bought, wherever reconcile's loop is  *)
(* cut off.                                                                *)
(***************************************************************************)
EXTENDS Oms, FiniteSetTheorems, TLAPS

USE ConstantsAssumption

----------------------------------------------------------------------------
(* Counting lots *)

LEMMA LotsFinite ==
  ASSUME NEW S, S \subseteq Lots
  PROVE  IsFiniteSet(S) /\ Cardinality(S) \in Nat
  BY FS_Subset, FS_CardinalityType

LEMMA LotsMonotone ==
  ASSUME NEW T, T \subseteq Lots, NEW S, S \subseteq T
  PROVE  Cardinality(S) <= Cardinality(T)
  BY LotsFinite, FS_Subset

LEMMA LotsEqual ==
  ASSUME NEW T, T \subseteq Lots, NEW S, S \subseteq T,
         Cardinality(S) >= Cardinality(T)
  PROVE  S = T
  <1>1. /\ IsFiniteSet(T) /\ IsFiniteSet(S)
        /\ Cardinality(S) \in Nat /\ Cardinality(T) \in Nat
    BY LotsFinite, S \subseteq Lots
  <1>2. Cardinality(S) <= Cardinality(T) BY FS_Subset, <1>1
  <1>3. Cardinality(S) = Cardinality(T) BY <1>1, <1>2
  <1> QED BY FS_Subset, <1>1, <1>3

LEMMA LotsUnion ==
  ASSUME NEW S, S \subseteq Lots, NEW T, T \subseteq Lots
  PROVE  Cardinality(S \cup T) <= Cardinality(S) + Cardinality(T)
  <1>1. IsFiniteSet(S) /\ IsFiniteSet(T) /\ IsFiniteSet(S \cap T)
    BY LotsFinite, S \cap T \subseteq Lots
  <1>2. /\ Cardinality(S) \in Nat /\ Cardinality(T) \in Nat
        /\ Cardinality(S \cap T) \in Nat
    BY LotsFinite, S \cap T \subseteq Lots
  <1>3. Cardinality(S \cup T) =
          Cardinality(S) + Cardinality(T) - Cardinality(S \cap T)
    BY FS_Union, <1>1
  <1> QED BY <1>2, <1>3

LEMMA QtyType == \A i \in Intents : LotsOf(i) \subseteq Lots /\ Qty(i) \in Nat
  BY LotsFinite DEF LotsOf, Qty

LEMMA RankType == Cardinality(Created) \in Nat
  BY FS_Subset, FS_CardinalityType, Created \subseteq Intents DEF Created

----------------------------------------------------------------------------
(* Types *)

LEMMA RowTypes ==
  ASSUME TypeOK, NEW i \in Intents
  PROVE  /\ RowOf(i) \in Rows
         /\ ServedRows(i) \subseteq Rows
  <1>1. Cardinality(traded \cap LotsOf(i)) \in Nat
    BY LotsFinite, traded \cap LotsOf(i) \subseteq Lots DEF TypeOK
  <1>2. RowOf(i) \in Rows BY <1>1 DEF TypeOK, RowOf, Rows
  <1>3. PastRows(i) \subseteq Rows
    BY <1>1 DEF PastRows, Rows, NoRow, OrderStates
  <1> QED BY <1>2, <1>3 DEF ServedRows

LEMMA IdleTypes ==
  /\ IdleSub \in [pc : {"idle", "positions", "held", "posting"},
                  todo : SUBSET Intents, pending : Nat, held : Int]
  /\ IdleRec \in [pc : {"idle", "reading", "ready"}, stale : BOOLEAN,
                  reads : SUBSET Reads, rows : [Intents -> Rows],
                  trades : SUBSET Lots, was : [Intents -> IntentStates],
                  need : SUBSET Intents]
  BY DEF IdleSub, IdleRec, NoRows, NoRow, Rows, OrderStates, IntentStates

LEMMA AfterTypes ==
  ASSUME TypeOK, NEW i \in Intents
  PROVE  /\ SavedAfter(i) \in OrderStates
         /\ LedAfter(i) \in IntentStates
         /\ Seen(i) \subseteq Lots
  <1>1. rec.rows[i].st \in OrderStates BY DEF TypeOK, Rows
  <1>2. SavedAfter(i) \in OrderStates BY <1>1 DEF TypeOK, SavedAfter
  <1>3. LedAfter(i) \in IntentStates
    BY <1>1, <1>2 DEF TypeOK, LedAfter, IntentStates, OrderStates, Terminal, Closed
  <1>4. Seen(i) \subseteq Lots BY DEF TypeOK, Seen
  <1> QED BY <1>2, <1>3, <1>4

LEMMA TypeInit == Init => TypeOK
  BY IdleTypes DEF Init, TypeOK, OrderStates, IntentStates

LEMMA TypeBroker == TypeOK /\ BrokerNext => TypeOK'
  <1> SUFFICES ASSUME TypeOK, BrokerNext PROVE TypeOK' OBVIOUS
  <1>1. ASSUME NEW i \in Intents, Accept(i) PROVE TypeOK'
    BY <1>1 DEF TypeOK, Accept, OrderStates, ledgerVars
  <1>2. ASSUME NEW i \in Intents, Discard(i) PROVE TypeOK'
    BY <1>2 DEF TypeOK, Discard, ledgerVars
  <1>3. ASSUME NEW i \in Intents, Finish(i) PROVE TypeOK'
    BY <1>3 DEF TypeOK, Finish, OrderStates, ledgerVars
  <1>4. ASSUME NEW l \in Lots, Trade(l) PROVE TypeOK'
    BY <1>4 DEF TypeOK, Trade, ledgerVars
  <1> QED BY <1>1, <1>2, <1>3, <1>4 DEF BrokerNext

LEMMA TypeAccountChanged ==
  TypeOK /\ AccountChanged =>
    /\ rec' \in [pc : {"idle", "reading", "ready"}, stale : BOOLEAN,
               reads : SUBSET Reads, rows : [Intents -> Rows],
               trades : SUBSET Lots, was : [Intents -> IntentStates],
               need : SUBSET Intents]
    /\ account' \in {"stale", "unresolved", "clear"}
  BY DEF TypeOK, AccountChanged

LEMMA TypeDispatch ==
  ASSUME TypeOK, NEW i \in Intents, Dispatch(i) \/ RateAbort(i),
         UNCHANGED <<bk, traded, saved, fills, faults>>
  PROVE  TypeOK'
  <1>1. CASE Dispatch(i)
    <2>1. sub' \in [pc : {"idle", "positions", "held", "posting"},
                    todo : SUBSET Intents, pending : Nat, held : Int]
      BY <1>1 DEF Dispatch, IdleSub
    <2>2. AccountChanged BY <1>1 DEF Dispatch
    <2> QED BY <1>1, <2>1, <2>2, TypeAccountChanged, RankType
            DEF Dispatch, Insert, TypeOK, IntentStates
  <1>2. CASE RateAbort(i)
    BY <1>2, IdleTypes, RankType
       DEF RateAbort, Insert, TypeOK, IntentStates, Closed
  <1> QED BY <1>1, <1>2

LEMMA TypeSubmit == TypeOK /\ SubmitNext => TypeOK'
  <1> SUFFICES ASSUME TypeOK, SubmitNext PROVE TypeOK' OBVIOUS
  <1>1. ASSUME NEW i \in Intents, SubmitBuy(i) PROVE TypeOK'
    BY <1>1, TypeDispatch DEF SubmitBuy
  <1>2. ASSUME NEW i \in Intents, SubmitSell(i) PROVE TypeOK'
    <2>1. Cardinality(PendingSellLots) \in Nat
      BY LotsFinite, PendingSellLots \subseteq Lots DEF PendingSellLots, SellLots
    <2> QED BY <1>2, <2>1 DEF SubmitSell, TypeOK, brokerVars, ledgerVars
  <1>3. ASSUME NEW i \in Intents, SellDispatch(i) PROVE TypeOK'
    BY <1>3, TypeDispatch DEF SellDispatch
  <1>4. ASSUME NEW i \in Intents, SellRefused(i) PROVE TypeOK'
    BY <1>4, IdleTypes DEF SellRefused, TypeOK, brokerVars, ledgerVars
  <1>5. ASSUME NEW i \in Intents, SubmitAck(i) PROVE TypeOK'
    BY <1>5, IdleTypes, TypeAccountChanged
       DEF SubmitAck, TypeOK, brokerVars, IntentStates, OrderStates
  <1>6. ASSUME NEW i \in Intents, SubmitUnknown(i) PROVE TypeOK'
    BY <1>6, IdleTypes, TypeAccountChanged
       DEF SubmitUnknown, TypeOK, brokerVars, IntentStates
  <1>7. ASSUME ServePositions PROVE TypeOK'
    <2>1. BrokerNet \in Int
      BY LotsFinite, traded \cap BuyLots \subseteq Lots,
         traded \cap SellLots \subseteq Lots DEF BrokerNet, BuyLots, SellLots
    <2> QED BY <1>7, <2>1 DEF ServePositions, TypeOK, brokerVars, ledgerVars
  <1>8. ASSUME PositionsFailed PROVE TypeOK'
    BY <1>8, IdleTypes DEF PositionsFailed, TypeOK, brokerVars, ledgerVars
  <1> QED BY <1>1, <1>2, <1>3, <1>4, <1>5, <1>6, <1>7, <1>8 DEF SubmitNext

LEMMA TypeRec == TypeOK /\ RecNext => TypeOK'
  <1> SUFFICES ASSUME TypeOK, RecNext PROVE TypeOK' OBVIOUS
  <1>1. ASSUME RecStart PROVE TypeOK'
    BY <1>1, IdleTypes DEF RecStart, TypeOK, IdleRec, brokerVars, ledgerVars
  <1>2. ASSUME ServeOrders PROVE TypeOK'
    <2>1. PICK rows \in [Intents -> UNION {ServedRows(i) : i \in Intents}] :
            /\ \A i \in Intents : rows[i] \in ServedRows(i)
            /\ rec' = [rec EXCEPT !.reads = @ \cup {"orders"}, !.rows = rows]
      BY <1>2 DEF ServeOrders
    <2>2. rows \in [Intents -> Rows] BY <2>1, RowTypes
    <2> QED BY <1>2, <2>1, <2>2
            DEF ServeOrders, TypeOK, Reads, brokerVars, ledgerVars
  <1>3. ASSUME ServeTrades PROVE TypeOK'
    BY <1>3 DEF ServeTrades, TypeOK, Reads, brokerVars, ledgerVars
  <1>4. ASSUME Gather PROVE TypeOK'
    BY <1>4 DEF Gather, TypeOK, brokerVars, ledgerVars
  <1>5. ASSUME NEW i \in Intents, ServeLookup(i) PROVE TypeOK'
    <2>1. PICK row \in ServedRows(i) :
            rec' = [rec EXCEPT !.need = @ \ {i}, !.rows[i] = row]
      BY <1>5 DEF ServeLookup
    <2>2. row \in Rows BY <2>1, RowTypes
    <2> QED BY <1>5, <2>1, <2>2
            DEF ServeLookup, TypeOK, brokerVars, ledgerVars
  <1>6. ASSUME ReadFailed PROVE TypeOK'
    BY <1>6, IdleTypes DEF ReadFailed, TypeOK, brokerVars, ledgerVars
  <1>7. ASSUME RecApply PROVE TypeOK'
    BY <1>7, IdleTypes, AfterTypes
       DEF RecApply, TypeOK, Walked, brokerVars
  <1>8. ASSUME RecChanged PROVE TypeOK'
    BY <1>8, IdleTypes DEF RecChanged, TypeOK, brokerVars, ledgerVars
  <1> QED BY <1>1, <1>2, <1>3, <1>4, <1>5, <1>6, <1>7, <1>8 DEF RecNext

LEMMA TypeFault == TypeOK /\ FaultNext => TypeOK'
  <1> SUFFICES ASSUME TypeOK, FaultNext PROVE TypeOK' OBVIOUS
  <1>0. MaxFaults \in Nat OBVIOUS
  <1>1. ASSUME Notified PROVE TypeOK'
    BY <1>1, TypeAccountChanged DEF Notified, TypeOK, brokerVars, ledgerVars
  <1>2. ASSUME Crash PROVE TypeOK'
    BY <1>2, IdleTypes DEF Crash, Restart, TypeOK, brokerVars, ledgerVars
  <1>3. ASSUME NEW i \in Intents, CrashAfterCreate(i) PROVE TypeOK'
    BY <1>3, IdleTypes, RankType
       DEF CrashAfterCreate, Insert, Restart, TypeOK, brokerVars, IntentStates
  <1>4. ASSUME NEW i \in Intents, CrashAfterAccepted(i) PROVE TypeOK'
    BY <1>4, IdleTypes
       DEF CrashAfterAccepted, Restart, TypeOK, brokerVars, IntentStates
  <1>5. ASSUME NEW i \in Intents, CrashInApply(i) PROVE TypeOK'
    <2>1. fills' \subseteq Lots
      BY <1>5, AfterTypes DEF CrashInApply, TypeOK, Walked
    <2> QED BY <1>5, <2>1, IdleTypes, AfterTypes
            DEF CrashInApply, Restart, TypeOK, Walked, brokerVars
  <1> QED BY <1>1, <1>2, <1>3, <1>4, <1>5 DEF FaultNext

LEMMA TypeStep == TypeOK /\ [Next]_vars => TypeOK'
  <1>1. TypeOK /\ UNCHANGED vars => TypeOK' BY DEF TypeOK, vars
  <1> QED BY <1>1, TypeBroker, TypeSubmit, TypeRec, TypeFault DEF Next

\* Every state of the order manager is well typed.
THEOREM TypeCorrect == Spec => []TypeOK
  BY TypeInit, TypeStep, PTL DEF Spec

----------------------------------------------------------------------------
(* Facts about a single state *)

LEMMA LotSets ==
  /\ BuyLots \subseteq Lots /\ SellLots \subseteq Lots
  /\ CommittedSells \subseteq SellLots /\ PendingSellLots \subseteq SellLots
  /\ \A i \in Intents : LotsOf(i) \subseteq Lots
  BY DEF BuyLots, SellLots, CommittedSells, PendingSellLots, LotsOf

\* A sale lot the ledger does not count as pending is committed only if it was
\* executed: its order has ended.
LEMMA CommittedOrPending ==
  ASSUME TypeOK, SentIsRecorded, ClosedIsEnded
  PROVE  CommittedSells \ PendingSellLots \subseteq traded \cap SellLots
  <1> SUFFICES ASSUME NEW l \in SellLots, l \in CommittedSells,
                      l \notin PendingSellLots
               PROVE  l \in traded
    BY LotSets
  <1>1. l \in Lots /\ Owner[l] \in Intents BY DEF SellLots
  <1>2. ~Pending(Owner[l]) BY DEF PendingSellLots
  <1>3. ASSUME Owner[l] \in wire PROVE FALSE
    <2>1. bk[Owner[l]] = "none" /\ led[Owner[l]] \notin {"none", "ABORTED"}
      BY <1>1, <1>3 DEF SentIsRecorded
    <2> QED BY <1>1, <1>2, <2>1 DEF Pending, ClosedIsEnded, Terminal
  <1>4. ASSUME bk[Owner[l]] = "live" PROVE FALSE
    <2>1. led[Owner[l]] \notin {"none", "ABORTED"}
      BY <1>1, <1>4 DEF SentIsRecorded
    <2> QED BY <1>1, <1>2, <1>4, <2>1 DEF Pending, ClosedIsEnded, Terminal
  <1> QED BY <1>3, <1>4 DEF CommittedSells

LEMMA ServedIsTrue ==
  ASSUME TypeOK, NEW i \in Intents, NEW row \in ServedRows(i),
         saved[i] # "none" => bk[i] # "none"
  PROVE  /\ row.st # "none" => bk[i] # "none"
         /\ row.st \in Terminal => bk[i] = row.st
  <1>1. CASE row = RowOf(i) BY <1>1 DEF RowOf
  <1>2. CASE row \in PastRows(i) /\ bk[i] # "none"
    <2>1. row.st \in {"live", "none"} BY <1>2 DEF PastRows, NoRow
    <2> QED BY <1>2, <2>1 DEF Terminal
  <1> QED BY <1>1, <1>2 DEF ServedRows

----------------------------------------------------------------------------
(* Steps that change neither the broker nor an intent's state *)

LEMMA SafeFrame ==
  ASSUME SafeInv, TypeOK', KnownIsTrue', SubmitShape',
         UNCHANGED <<wire, bk, traded, led>>,
         sub' = sub \/ sub'.pc = "idle"
  PROVE  SafeInv'
  <1>1. SentIsRecorded' BY DEF SafeInv, SentIsRecorded
  <1>2. ClosedIsEnded' BY DEF SafeInv, ClosedIsEnded
  <1>3. CommittedSells' = CommittedSells BY DEF CommittedSells
  <1>4. PendingSellLots' = PendingSellLots BY DEF PendingSellLots, Pending
  <1>5. HeldCovers' BY <1>3, <1>4 DEF SafeInv, HeldCovers
  <1>6. NoOversell' BY <1>3 DEF SafeInv, NoOversell
  <1> QED BY <1>1, <1>2, <1>5, <1>6 DEF SafeInv

LEMMA SafeInit == Init => SafeInv
  <1> SUFFICES ASSUME Init PROVE SafeInv OBVIOUS
  <1>1. TypeOK BY TypeInit
  <1>2. SubmitShape BY DEF Init, SubmitShape, IdleSub
  <1>3. SentIsRecorded BY DEF Init, SentIsRecorded
  <1>4. KnownIsTrue
    BY DEF Init, KnownIsTrue, IdleRec, NoRows, NoRow, Terminal
  <1>5. ClosedIsEnded BY DEF Init, ClosedIsEnded, Closed
  <1>6. HeldCovers BY DEF Init, HeldCovers, IdleSub
  <1>7. NoOversell
    <2>0. \A l \in SellLots : Owner[l] \in Intents BY DEF SellLots
    <2>1. CommittedSells = {} BY <2>0 DEF Init, CommittedSells
    <2>2. Cardinality({}) = 0 BY FS_EmptySet
    <2>3. traded \cap BuyLots = {} BY DEF Init
    <2>4. Cardinality(CommittedSells) = 0 /\ Cardinality(traded \cap BuyLots) = 0
      BY <2>1, <2>2, <2>3
    <2> QED BY <2>4 DEF NoOversell
  <1> QED BY <1>1, <1>2, <1>3, <1>4, <1>5, <1>6, <1>7 DEF SafeInv

LEMMA SafeRecRead ==
  ASSUME SafeInv, TypeOK',
         \/ RecStart \/ ServeOrders \/ ServeTrades \/ Gather
         \/ \E i \in Intents : ServeLookup(i)
         \/ ReadFailed \/ RecChanged \/ Notified
  PROVE  SafeInv'
  <1> USE DEF SafeInv
  <1>0. UNCHANGED <<wire, bk, traded, led, saved, sub>>
    BY DEF RecStart, ServeOrders, ServeTrades, Gather, ServeLookup, ReadFailed,
           RecChanged, Notified, brokerVars, ledgerVars
  <1>1. SubmitShape' BY <1>0 DEF SubmitShape
  <1>2. \A i \in Intents : /\ rec'.rows[i].st # "none" => bk[i] # "none"
                           /\ rec'.rows[i].st \in Terminal => bk[i] = rec'.rows[i].st
    <2>0. \A i \in Intents : NoRows[i].st = "none" BY DEF NoRows, NoRow
    <2>1. CASE RecStart
      <3>1. rec'.rows = NoRows BY <2>1 DEF RecStart, IdleRec
      <3> QED BY <2>0, <3>1 DEF Terminal
    <2>2. CASE ServeOrders
      <3>1. PICK rows \in [Intents -> UNION {ServedRows(i) : i \in Intents}] :
              /\ \A i \in Intents : rows[i] \in ServedRows(i)
              /\ rec' = [rec EXCEPT !.reads = @ \cup {"orders"}, !.rows = rows]
        BY <2>2 DEF ServeOrders
      <3>2. rec'.rows = rows BY <3>1 DEF TypeOK
      <3> QED BY <3>1, <3>2, ServedIsTrue DEF KnownIsTrue
    <2>3. CASE ServeTrades \/ Gather \/ Notified
      <3>1. rec'.rows = rec.rows
        BY <2>3 DEF ServeTrades, Gather, Notified, AccountChanged, TypeOK
      <3> QED BY <3>1 DEF KnownIsTrue
    <2>4. ASSUME NEW j \in Intents, ServeLookup(j)
          PROVE  \A i \in Intents :
                   /\ rec'.rows[i].st # "none" => bk[i] # "none"
                   /\ rec'.rows[i].st \in Terminal => bk[i] = rec'.rows[i].st
      <3>1. PICK row \in ServedRows(j) :
              rec' = [rec EXCEPT !.need = @ \ {j}, !.rows[j] = row]
        BY <2>4 DEF ServeLookup
      <3>2. rec'.rows = [rec.rows EXCEPT ![j] = row] BY <3>1 DEF TypeOK
      <3>3. \A i \in Intents : rec'.rows[i] = IF i = j THEN row ELSE rec.rows[i]
        BY <3>2 DEF TypeOK
      <3> QED BY <3>1, <3>3, ServedIsTrue DEF KnownIsTrue
    <2>5. CASE ReadFailed \/ RecChanged
      <3>1. rec'.rows = NoRows BY <2>5 DEF ReadFailed, RecChanged, IdleRec
      <3> QED BY <2>0, <3>1 DEF Terminal
    <2> QED BY <2>1, <2>2, <2>3, <2>4, <2>5
  <1>3. KnownIsTrue' BY <1>0, <1>2 DEF KnownIsTrue
  <1> QED BY <1>0, <1>1, <1>3, SafeFrame

----------------------------------------------------------------------------
(* The broker's steps *)

LEMMA SafeExchange ==
  ASSUME SafeInv, TypeOK', CommittedSells' \subseteq CommittedSells,
         traded \subseteq traded', UNCHANGED <<led, sub>>
  PROVE  HeldCovers' /\ NoOversell'
  <1> DEFINE tB == traded \cap BuyLots
             C == CommittedSells
             P == PendingSellLots
  <1>0. UNCHANGED PendingSellLots BY DEF PendingSellLots, Pending
  <1>1. /\ tB' \subseteq Lots /\ tB \subseteq tB' /\ C \subseteq Lots
        /\ C' \subseteq Lots /\ C' \ P \subseteq C \ P
    BY LotSets DEF TypeOK
  <1>2. Cardinality(tB) <= Cardinality(tB') BY <1>1, LotsMonotone
  <1>3. Cardinality(C') <= Cardinality(C) BY <1>1, LotsMonotone
  <1>4. Cardinality(C' \ P) <= Cardinality(C \ P)
    BY <1>1, LotsMonotone, C \ P \subseteq Lots
  <1>5. /\ Cardinality(tB) \in Nat /\ Cardinality(tB') \in Nat
        /\ Cardinality(C) \in Nat /\ Cardinality(C') \in Nat
        /\ Cardinality(C \ P) \in Nat /\ Cardinality(C' \ P) \in Nat
    BY <1>1, LotsFinite, tB \subseteq Lots, C \ P \subseteq Lots, C' \ P \subseteq Lots
  <1>6. NoOversell' BY <1>2, <1>3, <1>5 DEF SafeInv, NoOversell
  <1>7. sub.held \in Int BY DEF SafeInv, TypeOK
  <1>8. HeldCovers' BY <1>0, <1>2, <1>4, <1>5, <1>7 DEF SafeInv, HeldCovers
  <1> QED BY <1>6, <1>8

LEMMA SafeBroker == SafeInv /\ TypeOK' /\ BrokerNext => SafeInv'
  <1> SUFFICES ASSUME SafeInv, TypeOK', BrokerNext PROVE SafeInv' OBVIOUS
  <1> USE DEF SafeInv
  <1>0. UNCHANGED <<led, saved, sub, rec>>
    BY DEF BrokerNext, Accept, Discard, Finish, Trade, ledgerVars
  <1>1. SubmitShape' BY <1>0 DEF SubmitShape
  <1>2. \A l \in SellLots : l \in Lots /\ Owner[l] \in Intents BY DEF SellLots
  <1>3. ASSUME NEW i \in Intents, Accept(i) PROVE SafeInv'
    <2>1. bk[i] = "none" BY <1>3 DEF Accept, SentIsRecorded
    <2>2. CommittedSells' \subseteq CommittedSells
      BY <1>2, <1>3 DEF Accept, CommittedSells, TypeOK
    <2>3. SentIsRecorded' BY <1>0, <1>3 DEF Accept, SentIsRecorded, TypeOK
    <2>4. KnownIsTrue' BY <1>0, <1>3, <2>1 DEF Accept, KnownIsTrue, TypeOK, Terminal
    <2>5. ClosedIsEnded' BY <1>0, <1>3, <2>1 DEF Accept, ClosedIsEnded, TypeOK, Terminal
    <2>6. HeldCovers' /\ NoOversell' BY <1>0, <1>3, <2>2, SafeExchange DEF Accept
    <2> QED BY <1>1, <2>3, <2>4, <2>5, <2>6
  <1>4. ASSUME NEW i \in Intents, Discard(i) PROVE SafeInv'
    <2>2. CommittedSells' \subseteq CommittedSells
      BY <1>2, <1>4 DEF Discard, CommittedSells, TypeOK
    <2>3. SentIsRecorded' BY <1>0, <1>4 DEF Discard, SentIsRecorded, TypeOK
    <2>4. KnownIsTrue' BY <1>0, <1>4 DEF Discard, KnownIsTrue
    <2>5. ClosedIsEnded' BY <1>0, <1>4 DEF Discard, ClosedIsEnded
    <2>6. HeldCovers' /\ NoOversell' BY <1>0, <1>4, <2>2, SafeExchange DEF Discard
    <2> QED BY <1>1, <2>3, <2>4, <2>5, <2>6
  <1>5. ASSUME NEW i \in Intents, Finish(i) PROVE SafeInv'
    <2>1. PICK st \in Terminal : bk' = [bk EXCEPT ![i] = st] /\ bk[i] = "live"
      BY <1>5 DEF Finish
    <2>2. CommittedSells' \subseteq CommittedSells
      BY <1>2, <1>5, <2>1 DEF Finish, CommittedSells, TypeOK, Terminal
    <2>3. SentIsRecorded'
      BY <1>0, <1>5, <2>1 DEF Finish, SentIsRecorded, TypeOK, Terminal
    <2>4. KnownIsTrue' BY <1>0, <2>1 DEF KnownIsTrue, TypeOK, Terminal
    <2>5. ClosedIsEnded' BY <1>0, <2>1 DEF ClosedIsEnded, TypeOK
    <2>6. HeldCovers' /\ NoOversell' BY <1>0, <1>5, <2>2, SafeExchange DEF Finish
    <2> QED BY <1>1, <2>3, <2>4, <2>5, <2>6
  <1>6. ASSUME NEW l \in Lots, Trade(l) PROVE SafeInv'
    <2>2. CommittedSells' \subseteq CommittedSells
      BY <1>2, <1>6 DEF Trade, CommittedSells, TypeOK
    <2>3. SentIsRecorded' BY <1>0, <1>6 DEF Trade, SentIsRecorded
    <2>4. KnownIsTrue' BY <1>0, <1>6 DEF Trade, KnownIsTrue
    <2>5. ClosedIsEnded' BY <1>0, <1>6 DEF Trade, ClosedIsEnded
    <2>6. HeldCovers' /\ NoOversell' BY <1>0, <1>6, <2>2, SafeExchange DEF Trade
    <2> QED BY <1>1, <2>3, <2>4, <2>5, <2>6
  <1> QED BY <1>3, <1>4, <1>5, <1>6 DEF BrokerNext

----------------------------------------------------------------------------
(* submit *)

\* Steps that end a submit, or restart the process, and change no order at
\* the broker: what is left to show is about the ledger.
LEMMA SafeIdle ==
  ASSUME SafeInv, TypeOK', UNCHANGED <<wire, bk, traded>>, sub'.pc = "idle",
         SentIsRecorded', KnownIsTrue', ClosedIsEnded'
  PROVE  SafeInv'
  <1>1. CommittedSells' = CommittedSells BY DEF CommittedSells
  <1>2. NoOversell' BY <1>1 DEF SafeInv, NoOversell
  <1>3. SubmitShape' /\ HeldCovers' BY DEF SubmitShape, HeldCovers
  <1> QED BY <1>2, <1>3 DEF SafeInv

LEMMA AccountKeepsRows ==
  ASSUME TypeOK, AccountChanged
  PROVE  rec'.rows = rec.rows /\ rec'.trades = rec.trades
  BY DEF TypeOK, AccountChanged

\* The heart of NoOversell: what submit compared, pending sells of the ledger
\* and a position read earlier under the same lock, bounds what is committed.
LEMMA DispatchCovered ==
  ASSUME SafeInv, NEW i \in Intents, sub.pc = "held", CoversSale(i)
  PROVE  Cardinality(CommittedSells \cup LotsOf(i))
           <= Cardinality(traded \cap BuyLots)
  <1> DEFINE C == CommittedSells
             P == PendingSellLots
  <1>1. /\ C \subseteq Lots /\ P \subseteq Lots /\ LotsOf(i) \subseteq Lots
        /\ C \ P \subseteq Lots /\ P \cup LotsOf(i) \subseteq Lots
        /\ (C \ P) \cup (P \cup LotsOf(i)) \subseteq Lots
        /\ traded \cap BuyLots \subseteq Lots
    BY LotSets
  <1>2. C \cup LotsOf(i) \subseteq (C \ P) \cup (P \cup LotsOf(i)) OBVIOUS
  <1>3. Cardinality(C \cup LotsOf(i))
          <= Cardinality((C \ P) \cup (P \cup LotsOf(i)))
    BY <1>1, <1>2, LotsMonotone
  <1>4. Cardinality((C \ P) \cup (P \cup LotsOf(i)))
          <= Cardinality(C \ P) + Cardinality(P \cup LotsOf(i))
    BY <1>1, LotsUnion
  <1>5. Cardinality(P \cup LotsOf(i)) <= Cardinality(P) + Cardinality(LotsOf(i))
    BY <1>1, LotsUnion
  <1>6. /\ Cardinality(LotsOf(i)) + Cardinality(P) <= sub.held
        /\ sub.held + Cardinality(C \ P) <= Cardinality(traded \cap BuyLots)
    BY DEF SafeInv, HeldCovers, CoversSale, Qty
  <1>7. /\ Cardinality(C \ P) \in Nat /\ Cardinality(P) \in Nat
        /\ Cardinality(LotsOf(i)) \in Nat /\ Cardinality(P \cup LotsOf(i)) \in Nat
        /\ Cardinality((C \ P) \cup (P \cup LotsOf(i))) \in Nat
        /\ Cardinality(C \cup LotsOf(i)) \in Nat
        /\ Cardinality(traded \cap BuyLots) \in Nat
        /\ sub.held \in Int
    BY <1>1, LotsFinite, C \cup LotsOf(i) \subseteq Lots DEF SafeInv, TypeOK
  <1> HIDE DEF C, P
  <1> QED BY <1>3, <1>4, <1>5, <1>6, <1>7 DEF C, P

LEMMA SafeDispatch ==
  ASSUME SafeInv, TypeOK', NEW i \in Intents, led[i] = "none",
         Dispatch(i) \/ RateAbort(i),
         UNCHANGED <<bk, traded, saved, fills, faults>>,
         Side[i] = "SELL" => sub.pc = "held" /\ CoversSale(i)
  PROVE  SafeInv'
  <1> USE DEF SafeInv
  <1>1. i \notin wire /\ bk[i] = "none" BY DEF SentIsRecorded
  <1>2. CASE Dispatch(i)
    <2>1. SubmitShape' BY <1>2 DEF Dispatch, SubmitShape, TypeOK
    <2>2. SentIsRecorded' BY <1>1, <1>2 DEF Dispatch, SentIsRecorded, TypeOK
    <2>3. KnownIsTrue' BY <1>2, AccountKeepsRows DEF Dispatch, KnownIsTrue
    <2>4. ClosedIsEnded' BY <1>2 DEF Dispatch, ClosedIsEnded, TypeOK, Closed
    <2>5. HeldCovers' BY <1>2 DEF Dispatch, HeldCovers
    <2>6. NoOversell'
      <3>1. CASE Side[i] = "BUY"
        <4>1. CommittedSells' = CommittedSells
          BY <1>2, <3>1 DEF Dispatch, CommittedSells, SellLots
        <4> QED BY <4>1 DEF NoOversell
      <3>2. CASE Side[i] = "SELL"
        <4>1. CommittedSells' \subseteq CommittedSells \cup LotsOf(i)
          BY <1>2 DEF Dispatch, CommittedSells, SellLots, LotsOf
        <4>2. CommittedSells \cup LotsOf(i) \subseteq Lots BY LotSets
        <4>3. Cardinality(CommittedSells')
                <= Cardinality(CommittedSells \cup LotsOf(i))
          BY <4>1, <4>2, LotsMonotone
        <4>4. Cardinality(CommittedSells \cup LotsOf(i))
                <= Cardinality(traded \cap BuyLots)
          BY <3>2, DispatchCovered
        <4>5. /\ Cardinality(CommittedSells') \in Nat
              /\ Cardinality(CommittedSells \cup LotsOf(i)) \in Nat
              /\ Cardinality(traded \cap BuyLots) \in Nat
          BY <4>1, <4>2, LotsFinite, LotSets, CommittedSells' \subseteq Lots,
             traded \cap BuyLots \subseteq Lots
        <4> QED BY <4>3, <4>4, <4>5 DEF NoOversell
      <3> QED BY <3>1, <3>2
    <2> QED BY <2>1, <2>2, <2>3, <2>4, <2>5, <2>6
  <1>3. CASE RateAbort(i)
    <2>1. SentIsRecorded' BY <1>1, <1>3 DEF RateAbort, SentIsRecorded, TypeOK
    <2>2. KnownIsTrue' BY <1>3 DEF RateAbort, KnownIsTrue
    <2>3. ClosedIsEnded' BY <1>3 DEF RateAbort, ClosedIsEnded, TypeOK
    <2>4. sub'.pc = "idle" BY <1>3 DEF RateAbort, IdleSub
    <2> QED BY <1>3, <2>1, <2>2, <2>3, <2>4, SafeIdle DEF RateAbort
  <1> QED BY <1>2, <1>3

LEMMA SafeSubmit == SafeInv /\ TypeOK' /\ SubmitNext => SafeInv'
  <1> SUFFICES ASSUME SafeInv, TypeOK', SubmitNext PROVE SafeInv' OBVIOUS
  <1> USE DEF SafeInv
  <1>1. ASSUME NEW i \in Intents, SubmitBuy(i) PROVE SafeInv'
    BY <1>1, SafeDispatch DEF SubmitBuy
  <1>2. ASSUME NEW i \in Intents, SubmitSell(i) PROVE SafeInv'
    <2>1. /\ sub'.pc = "positions" /\ sub'.todo = {i}
          /\ sub'.pending = Cardinality(PendingSellLots)
          /\ UNCHANGED <<wire, bk, traded, led, saved, rec>>
      BY <1>2 DEF SubmitSell, brokerVars, ledgerVars
    <2>2. SubmitShape' BY <1>2, <2>1 DEF SubmitSell, SubmitShape
    <2>3. SentIsRecorded' /\ KnownIsTrue' /\ ClosedIsEnded'
      BY <2>1 DEF SentIsRecorded, KnownIsTrue, ClosedIsEnded
    <2>4. CommittedSells' = CommittedSells /\ PendingSellLots' = PendingSellLots
      BY <2>1 DEF CommittedSells, PendingSellLots, Pending
    <2>5. HeldCovers' /\ NoOversell'
      BY <2>1, <2>4 DEF HeldCovers, NoOversell
    <2> QED BY <2>2, <2>3, <2>5
  <1>3. ASSUME NEW i \in Intents, SellDispatch(i) PROVE SafeInv'
    <2>1. led[i] = "none" BY <1>3 DEF SellDispatch, SubmitShape
    <2> QED BY <1>3, <2>1, SafeDispatch DEF SellDispatch
  <1>4. ASSUME NEW i \in Intents, SellRefused(i) PROVE SafeInv'
    <2>1. sub'.pc = "idle" /\ UNCHANGED <<wire, bk, traded, led, saved, rec>>
      BY <1>4 DEF SellRefused, IdleSub, brokerVars, ledgerVars
    <2> QED BY <2>1, SafeFrame DEF SubmitShape, KnownIsTrue
  <1>5. ASSUME NEW i \in Intents, SubmitAck(i) PROVE SafeInv'
    <2>1. led[i] = "SEND_UNKNOWN" /\ bk[i] # "none"
      BY <1>5 DEF SubmitAck, SubmitShape
    <2>2. sub'.pc = "idle" /\ UNCHANGED <<wire, bk, traded>>
      BY <1>5 DEF SubmitAck, IdleSub, brokerVars
    <2>3. SentIsRecorded' BY <1>5, <2>1, <2>2 DEF SubmitAck, SentIsRecorded, TypeOK
    <2>4. KnownIsTrue'
      BY <1>5, <2>1, <2>2, AccountKeepsRows
         DEF SubmitAck, KnownIsTrue, TypeOK, Terminal
    <2>5. ClosedIsEnded' BY <1>5, <2>2 DEF SubmitAck, ClosedIsEnded, TypeOK, Closed
    <2> QED BY <2>2, <2>3, <2>4, <2>5, SafeIdle
  <1>6. ASSUME NEW i \in Intents, SubmitUnknown(i) PROVE SafeInv'
    <2>1. led[i] = "SEND_UNKNOWN" BY <1>6 DEF SubmitUnknown, SubmitShape
    <2>2. led' = led BY <1>6, <2>1 DEF SubmitUnknown, TypeOK
    <2>3. sub'.pc = "idle" /\ UNCHANGED <<wire, bk, traded, saved>>
      BY <1>6 DEF SubmitUnknown, IdleSub, brokerVars
    <2>4. KnownIsTrue'
      BY <1>6, <2>3, AccountKeepsRows DEF SubmitUnknown, KnownIsTrue
    <2> QED BY <2>2, <2>3, <2>4, SafeFrame DEF SubmitShape
  <1>7. ASSUME ServePositions PROVE SafeInv'
    <2>1. /\ sub.pc = "positions" /\ sub'.pc = "held" /\ sub'.todo = sub.todo
          /\ sub'.pending = sub.pending /\ sub'.held = BrokerNet
          /\ UNCHANGED <<wire, bk, traded, led, saved, rec>>
      BY <1>7 DEF ServePositions, TypeOK, brokerVars, ledgerVars
    <2>2. SubmitShape' BY <2>1 DEF SubmitShape
    <2>3. SentIsRecorded' /\ KnownIsTrue' /\ ClosedIsEnded'
      BY <2>1 DEF SentIsRecorded, KnownIsTrue, ClosedIsEnded
    <2>4. CommittedSells' = CommittedSells /\ PendingSellLots' = PendingSellLots
      BY <2>1 DEF CommittedSells, PendingSellLots, Pending
    <2>5. Cardinality(CommittedSells \ PendingSellLots)
            <= Cardinality(traded \cap SellLots)
      BY CommittedOrPending, LotsMonotone, LotSets, traded \cap SellLots \subseteq Lots
    <2>6. /\ Cardinality(CommittedSells \ PendingSellLots) \in Nat
          /\ Cardinality(traded \cap SellLots) \in Nat
          /\ Cardinality(traded \cap BuyLots) \in Nat
      BY LotsFinite, LotSets, CommittedSells \ PendingSellLots \subseteq Lots,
         traded \cap SellLots \subseteq Lots, traded \cap BuyLots \subseteq Lots
    <2>7. BrokerNet + Cardinality(CommittedSells \ PendingSellLots)
            <= Cardinality(traded \cap BuyLots)
      BY <2>5, <2>6 DEF BrokerNet
    <2>8. HeldCovers' BY <2>1, <2>4, <2>7 DEF HeldCovers
    <2>9. NoOversell' BY <2>1, <2>4 DEF NoOversell
    <2> QED BY <2>2, <2>3, <2>8, <2>9
  <1>8. ASSUME PositionsFailed PROVE SafeInv'
    <2>1. sub'.pc = "idle" /\ UNCHANGED <<wire, bk, traded, led, saved, rec>>
      BY <1>8 DEF PositionsFailed, IdleSub, brokerVars, ledgerVars
    <2> QED BY <2>1, SafeFrame DEF SubmitShape, KnownIsTrue
  <1> QED BY <1>1, <1>2, <1>3, <1>4, <1>5, <1>6, <1>7, <1>8 DEF SubmitNext

----------------------------------------------------------------------------
(* reconcile's loop, and crashes *)

\* What the loop writes of one intent.
LEMMA AfterIsTrue ==
  ASSUME SafeInv, NEW i \in Intents
  PROVE  /\ SavedAfter(i) # "none" => bk[i] # "none"
         /\ SavedAfter(i) \in Terminal => bk[i] = SavedAfter(i)
         /\ \/ LedAfter(i) = led[i]
            \/ LedAfter(i) = "ABORTED" /\ led[i] = "PENDING_SEND"
            \/ LedAfter(i) \in {"FILLED"} \cup Terminal /\ bk[i] \in Terminal
  <1>1. /\ SavedAfter(i) # "none" => bk[i] # "none"
        /\ SavedAfter(i) \in Terminal => bk[i] = SavedAfter(i)
    BY DEF SafeInv, KnownIsTrue, SavedAfter
  <1>2. \/ LedAfter(i) = led[i]
        \/ LedAfter(i) = "ABORTED" /\ led[i] = "PENDING_SEND"
        \/ LedAfter(i) \in {"FILLED"} \cup Terminal /\ bk[i] \in Terminal
    BY <1>1 DEF LedAfter
  <1> QED BY <1>1, <1>2

LEMMA SafeWalk ==
  ASSUME SafeInv, TypeOK', UNCHANGED <<wire, bk, traded>>, sub'.pc = "idle",
         rec' = IdleRec,
         NEW D \in SUBSET Intents, NEW E \in SUBSET Intents,
         saved' = [i \in Intents |-> IF i \in D THEN SavedAfter(i) ELSE saved[i]],
         led' = [i \in Intents |-> IF i \in E THEN LedAfter(i) ELSE led[i]]
  PROVE  SafeInv'
  <1> USE DEF SafeInv
  <1>1. SentIsRecorded'
    <2>1. ASSUME NEW i \in Intents, i \in wire \/ bk[i] # "none"
          PROVE  led'[i] \notin {"none", "PENDING_SEND", "ABORTED"}
      <3>1. led[i] \notin {"none", "PENDING_SEND", "ABORTED"}
        BY <2>1 DEF SentIsRecorded
      <3> QED BY <3>1, AfterIsTrue DEF Terminal
    <2> QED BY <2>1 DEF SentIsRecorded
  <1>2. KnownIsTrue'
    <2>1. \A i \in Intents : rec'.rows[i].st = "none"
      BY DEF IdleRec, NoRows, NoRow
    <2> QED BY <2>1, AfterIsTrue DEF KnownIsTrue, Terminal
  <1>3. ClosedIsEnded'
    BY AfterIsTrue DEF ClosedIsEnded
  <1> QED BY <1>1, <1>2, <1>3, SafeIdle

LEMMA SafeRec == SafeInv /\ TypeOK' /\ RecNext => SafeInv'
  <1> SUFFICES ASSUME SafeInv, TypeOK', RecNext PROVE SafeInv' OBVIOUS
  <1>1. CASE RecApply
    <2>1. Walked \in SUBSET Intents BY DEF Walked
    <2>2. sub'.pc = "idle" /\ UNCHANGED <<wire, bk, traded>>
      BY <1>1 DEF RecApply, LockFree, brokerVars
    <2> QED BY <1>1, <2>1, <2>2, SafeWalk DEF RecApply
  <1>2. CASE ~RecApply BY <1>2, SafeRecRead DEF RecNext
  <1> QED BY <1>1, <1>2

LEMMA SafeFault == SafeInv /\ TypeOK' /\ FaultNext => SafeInv'
  <1> SUFFICES ASSUME SafeInv, TypeOK', FaultNext PROVE SafeInv' OBVIOUS
  <1> USE DEF SafeInv
  <1>0. ASSUME rec' = IdleRec, UNCHANGED <<bk, saved>> PROVE KnownIsTrue'
    BY <1>0 DEF KnownIsTrue, IdleRec, NoRows, NoRow, Terminal
  <1>1. CASE Notified BY <1>1, SafeRecRead
  <1>2. CASE Crash
    <2>1. /\ sub'.pc = "idle" /\ rec' = IdleRec
          /\ UNCHANGED <<wire, bk, traded, led, saved>>
      BY <1>2 DEF Crash, Restart, IdleSub, brokerVars, ledgerVars
    <2> QED BY <1>0, <2>1, SafeFrame DEF SubmitShape
  <1>3. ASSUME NEW i \in Intents, CrashAfterCreate(i) PROVE SafeInv'
    <2>1. /\ led[i] = "none" /\ led' = [led EXCEPT ![i] = "PENDING_SEND"]
          /\ sub'.pc = "idle" /\ rec' = IdleRec
          /\ UNCHANGED <<wire, bk, traded, saved>>
      BY <1>3 DEF CrashAfterCreate, Restart, IdleSub, brokerVars
    <2>2. SentIsRecorded' BY <2>1 DEF SentIsRecorded, TypeOK
    <2>3. ClosedIsEnded' BY <2>1 DEF ClosedIsEnded, TypeOK, Closed
    <2> QED BY <1>0, <2>1, <2>2, <2>3, SafeIdle
  <1>4. ASSUME NEW i \in Intents, CrashAfterAccepted(i) PROVE SafeInv'
    <2>1. /\ led' = [led EXCEPT ![i] = "SENT"]
          /\ sub'.pc = "idle" /\ rec' = IdleRec
          /\ UNCHANGED <<wire, bk, traded, saved>>
      BY <1>4 DEF CrashAfterAccepted, Restart, IdleSub, brokerVars
    <2>2. SentIsRecorded' BY <2>1 DEF SentIsRecorded, TypeOK
    <2>3. ClosedIsEnded' BY <2>1 DEF ClosedIsEnded, TypeOK, Closed
    <2> QED BY <1>0, <2>1, <2>2, <2>3, SafeIdle
  <1>5. ASSUME NEW i \in Intents, CrashInApply(i) PROVE SafeInv'
    <2> DEFINE done == {j \in Walked : born[j] < born[i]}
    <2>1. done \in SUBSET Intents /\ done \cup {i} \in SUBSET Intents
      BY DEF Walked
    <2>2. /\ saved' = [j \in Intents |->
                         IF j \in done \cup {i} THEN SavedAfter(j) ELSE saved[j]]
          /\ led' = [j \in Intents |-> IF j \in done THEN LedAfter(j) ELSE led[j]]
          /\ sub'.pc = "idle" /\ rec' = IdleRec
          /\ UNCHANGED <<wire, bk, traded>>
      BY <1>5 DEF CrashInApply, Restart, IdleSub, brokerVars
    <2> HIDE DEF done
    <2> QED BY <2>1, <2>2, SafeWalk
  <1> QED BY <1>1, <1>2, <1>3, <1>4, <1>5 DEF FaultNext

LEMMA SafeStep == SafeInv /\ [Next]_vars => SafeInv'
  <1> SUFFICES ASSUME SafeInv, [Next]_vars PROVE SafeInv' OBVIOUS
  <1>1. TypeOK' BY TypeStep DEF SafeInv
  <1>2. CASE Next BY <1>1, <1>2, SafeBroker, SafeSubmit, SafeRec, SafeFault DEF Next
  <1>3. CASE UNCHANGED vars
    <2>1. SubmitShape' /\ KnownIsTrue'
      BY <1>3 DEF vars, SafeInv, SubmitShape, KnownIsTrue
    <2> QED BY <1>1, <1>3, <2>1, SafeFrame DEF vars
  <1> QED BY <1>2, <1>3

LEMMA SafeAlways == Spec => []SafeInv
  BY SafeInit, SafeStep, PTL DEF Spec

\* Sale lots at the exchange's disposal are always covered by bought lots.
THEOREM NoOversellCorrect == Spec => []NoOversell
  <1>1. SafeInv => NoOversell BY DEF SafeInv
  <1> QED BY SafeAlways, <1>1, PTL

\* No POST exists of an intent whose reservation was given back as ABORTED.
THEOREM AbortedNeverSentCorrect == Spec => []AbortedNeverSent
  <1>1. SafeInv => AbortedNeverSent
    BY DEF SafeInv, AbortedNeverSent, SentIsRecorded
  <1> QED BY SafeAlways, <1>1, PTL

----------------------------------------------------------------------------
(* The refinement *)

LEMMA ExposureInit == Init => Abstract!Init
  BY DEF Init, Abstract!Init, CommittedSells, SellLots

LEMMA ExposureSame ==
  ASSUME UNCHANGED <<wire, bk, traded>>
  PROVE  UNCHANGED <<traded \cap BuyLots, traded \cap SellLots,
                     CommittedSells \ traded>>
  BY DEF CommittedSells

LEMMA ExposureBroker ==
  ASSUME SafeInv, BrokerNext
  PROVE  [Abstract!Next]_<<traded \cap BuyLots, traded \cap SellLots,
                           CommittedSells \ traded>>
  <1>0. \A l \in SellLots : l \in Lots /\ Owner[l] \in Intents BY DEF SellLots
  <1>1. ASSUME NEW i \in Intents, Accept(i) \/ Discard(i) \/ Finish(i)
        PROVE  Abstract!Release
    <2>1. UNCHANGED traded BY <1>1 DEF Accept, Discard, Finish
    <2>2. CommittedSells' \subseteq CommittedSells
      BY <1>0, <1>1 DEF Accept, Discard, Finish, CommittedSells, SafeInv, TypeOK,
                        Terminal
    <2> QED BY <2>1, <2>2 DEF Abstract!Release
  <1>2. ASSUME NEW l \in Lots, Trade(l)
        PROVE  \/ \E k \in Abstract!PurchaseLots : Abstract!Buy(k)
               \/ \E k \in CommittedSells \ traded : Abstract!Sell(k)
    <2>1. Owner[l] \in Intents /\ Side[Owner[l]] \in {"BUY", "SELL"} OBVIOUS
    <2>2. CASE Side[Owner[l]] = "BUY"
      <3>1. /\ (traded \cap BuyLots)' = (traded \cap BuyLots) \cup {l}
            /\ (traded \cap SellLots)' = traded \cap SellLots
            /\ (CommittedSells \ traded)' = CommittedSells \ traded
        BY <1>2, <2>2 DEF Trade, BuyLots, SellLots, CommittedSells
      <3> QED BY <2>2, <3>1 DEF Abstract!Buy, Abstract!PurchaseLots
    <2>3. CASE Side[Owner[l]] = "SELL"
      <3>1. l \in CommittedSells \ traded
        BY <1>2, <2>3 DEF Trade, CommittedSells, SellLots
      <3>2. /\ (traded \cap BuyLots)' = traded \cap BuyLots
            /\ (traded \cap SellLots)' = (traded \cap SellLots) \cup {l}
            /\ (CommittedSells \ traded)' = (CommittedSells \ traded) \ {l}
        BY <1>2, <2>3 DEF Trade, BuyLots, SellLots, CommittedSells
      <3> QED BY <3>1, <3>2 DEF Abstract!Sell
    <2> QED BY <2>1, <2>2, <2>3
  <1> QED BY <1>1, <1>2 DEF BrokerNext, Abstract!Next

\* Exposure counts as Oms does.
LEMMA ExposureCount ==
  ASSUME NEW S PROVE Abstract!Cardinality(S) = Cardinality(S)
  BY DEF Abstract!Cardinality, Cardinality

LEMMA ExposureDispatch ==
  ASSUME SafeInv, NEW i \in Intents, Dispatch(i), UNCHANGED <<bk, traded>>,
         led[i] = "none",
         Side[i] = "SELL" => sub.pc = "held" /\ CoversSale(i)
  PROVE  [Abstract!Next]_<<traded \cap BuyLots, traded \cap SellLots,
                           CommittedSells \ traded>>
  <1>1. CASE Side[i] = "BUY"
    <2>1. CommittedSells' = CommittedSells
      BY <1>1 DEF Dispatch, CommittedSells, SellLots
    <2> QED BY <2>1
  <1>2. CASE Side[i] = "SELL"
    <2>1. bk[i] = "none" BY DEF SafeInv, SentIsRecorded
    <2>2. Abstract!SaleLots(i) = LotsOf(i) /\ LotsOf(i) \subseteq SellLots
      BY <1>2 DEF Abstract!SaleLots, LotsOf, SellLots
    <2>3. LotsOf(i) \cap traded = {}
      BY <2>1 DEF LotsOf, SafeInv, SentIsRecorded
    <2>4. CommittedSells' = CommittedSells \cup LotsOf(i)
      BY <1>2 DEF Dispatch, CommittedSells, SellLots, LotsOf
    <2>5. (CommittedSells \ traded)' = (CommittedSells \ traded) \cup LotsOf(i)
      BY <2>3, <2>4
    <2>6. (traded \cap SellLots) \cup (CommittedSells \ traded) \cup LotsOf(i)
            = CommittedSells \cup LotsOf(i)
      BY DEF CommittedSells
    <2>7. Cardinality(CommittedSells \cup LotsOf(i))
            <= Cardinality(traded \cap BuyLots)
      BY <1>2, DispatchCovered
    <2>8. Abstract!Cardinality((traded \cap SellLots)
                                 \cup (CommittedSells \ traded)
                                 \cup Abstract!SaleLots(i))
            <= Abstract!Cardinality(traded \cap BuyLots)
      BY <2>2, <2>6, <2>7, ExposureCount
    <2>9. (CommittedSells \ traded)'
            = (CommittedSells \ traded) \cup Abstract!SaleLots(i)
      BY <2>2, <2>5
    <2>10. (traded \cap BuyLots)' = traded \cap BuyLots
           /\ (traded \cap SellLots)' = traded \cap SellLots
      BY DEF BuyLots, SellLots
    <2>11. Abstract!Reserve(i)
      BY <2>8, <2>9, <2>10 DEF Abstract!Reserve
    <2> QED BY <2>11 DEF Abstract!Next
  <1> QED BY <1>1, <1>2

LEMMA ExposureStep ==
  ASSUME SafeInv, [Next]_vars
  PROVE  [Abstract!Next]_<<traded \cap BuyLots, traded \cap SellLots,
                           CommittedSells \ traded>>
  <1>1. CASE BrokerNext BY <1>1, ExposureBroker
  <1>2. ASSUME NEW i \in Intents, SubmitBuy(i) \/ SellDispatch(i)
        PROVE  [Abstract!Next]_<<traded \cap BuyLots, traded \cap SellLots,
                                 CommittedSells \ traded>>
    <2>1. UNCHANGED <<bk, traded>> BY <1>2 DEF SubmitBuy, SellDispatch
    <2>2. led[i] = "none"
      BY <1>2 DEF SubmitBuy, SellDispatch, SafeInv, SubmitShape
    <2>3. Side[i] = "SELL" => sub.pc = "held" /\ CoversSale(i)
      BY <1>2 DEF SubmitBuy, SellDispatch
    <2>4. CASE Dispatch(i) BY <2>1, <2>2, <2>3, <2>4, ExposureDispatch
    <2>5. CASE RateAbort(i)
      BY <2>1, <2>5, ExposureSame DEF RateAbort
    <2> QED BY <1>2, <2>4, <2>5 DEF SubmitBuy, SellDispatch
  <1>3. CASE SubmitNext /\ ~(\E i \in Intents : SubmitBuy(i) \/ SellDispatch(i))
    BY <1>3, ExposureSame
       DEF SubmitNext, SubmitSell, SellRefused, SubmitAck, SubmitUnknown,
           ServePositions, PositionsFailed, brokerVars
  <1>4. CASE RecNext
    BY <1>4, ExposureSame
       DEF RecNext, RecStart, ServeOrders, ServeTrades, Gather, ServeLookup,
           ReadFailed, RecApply, RecChanged, brokerVars
  <1>5. CASE FaultNext
    BY <1>5, ExposureSame
       DEF FaultNext, Notified, Crash, CrashAfterCreate, CrashAfterAccepted,
           CrashInApply, brokerVars
  <1>6. CASE UNCHANGED vars BY <1>6, ExposureSame DEF vars
  <1> QED BY <1>1, <1>2, <1>3, <1>4, <1>5, <1>6 DEF Next

\* The order manager implements Exposure: every sale it puts at the exchange's
\* disposal is covered by the true position at that moment.
THEOREM ImplementsExposureCorrect == Spec => ImplementsExposure
  BY ExposureInit, ExposureStep, SafeAlways, PTL
     DEF Spec, ImplementsExposure, Abstract!Spec

----------------------------------------------------------------------------
(* Facts about a single state *)

LEMMA IdleRecFields ==
  /\ IdleRec.pc = "idle" /\ IdleRec.reads = {} /\ IdleRec.trades = {}
  /\ \A i \in Intents : IdleRec.rows[i].st = "none"
  BY DEF IdleRec, NoRows, NoRow

\* With no reconcile under way, SettledInv is about the ledger alone.
LEMMA SettledIdle ==
  ASSUME rec' = IdleRec, (fills \subseteq traded)', ClosedHasFills',
         ClearIsClosed', PostingIsNew'
  PROVE  SettledInv'
  <1>1. FillsAreReal' BY IdleRecFields DEF FillsAreReal
  <1>2. BatchIsComplete' BY IdleRecFields DEF BatchIsComplete, Terminal
  <1> QED BY <1>1, <1>2 DEF SettledInv

\* An order the ledger or a batch has as ended cannot trade.
LEMMA EndedIsStill ==
  ASSUME SafeInv, NEW i \in Intents,
         \/ saved[i] \in Terminal \/ rec.rows[i].st \in Terminal
         \/ led[i] \in Closed \ {"ABORTED"}
  PROVE  bk[i] \in Terminal
  BY DEF SafeInv, KnownIsTrue, ClosedIsEnded, Terminal

LEMMA ServedIsCounted ==
  ASSUME NEW i \in Intents, NEW row \in ServedRows(i), row.st \in Terminal
  PROVE  row.n = Cardinality(traded \cap LotsOf(i))
  <1>1. CASE row = RowOf(i) BY <1>1 DEF RowOf
  <1>2. row \notin PastRows(i) BY DEF PastRows, NoRow, Terminal
  <1> QED BY <1>1, <1>2 DEF ServedRows

----------------------------------------------------------------------------
LEMMA SettledInit == Init => SettledInv
  <1> SUFFICES ASSUME Init PROVE SettledInv OBVIOUS
  <1>1. FillsAreReal BY IdleRecFields DEF Init, FillsAreReal
  <1>2. BatchIsComplete
    BY IdleRecFields DEF Init, BatchIsComplete, Terminal
  <1>3. ClosedHasFills BY DEF Init, ClosedHasFills, Closed
  <1>4. ClearIsClosed BY DEF Init, ClearIsClosed
  <1>5. PostingIsNew BY DEF Init, PostingIsNew, IdleSub
  <1> QED BY <1>1, <1>2, <1>3, <1>4, <1>5 DEF SettledInv

LEMMA SettledBroker == SafeInv /\ SettledInv /\ BrokerNext => SettledInv'
  <1> SUFFICES ASSUME SafeInv, SettledInv, BrokerNext PROVE SettledInv' OBVIOUS
  <1>0. UNCHANGED <<led, saved, fills, sub, rec, account>>
    BY DEF BrokerNext, Accept, Discard, Finish, Trade, ledgerVars
  <1>1. ClearIsClosed' /\ PostingIsNew'
    BY <1>0 DEF SettledInv, ClearIsClosed, PostingIsNew
  <1>2. CASE UNCHANGED traded
    BY <1>0, <1>1, <1>2
       DEF SettledInv, FillsAreReal, BatchIsComplete, ClosedHasFills
  <1>3. ASSUME NEW l \in Lots, Trade(l) PROVE SettledInv'
    <2>1. traded' = traded \cup {l} /\ bk[Owner[l]] = "live"
      BY <1>3 DEF Trade
    <2>2. FillsAreReal' BY <1>0, <2>1 DEF SettledInv, FillsAreReal
    <2>3. ASSUME NEW i \in Intents, bk[i] \in Terminal
          PROVE  traded' \cap LotsOf(i) = traded \cap LotsOf(i)
      BY <2>1, <2>3 DEF LotsOf, Terminal
    <2>4. BatchIsComplete'
      BY <1>0, <2>3, EndedIsStill DEF SettledInv, BatchIsComplete
    <2>5. ClosedHasFills'
      <3>1. ASSUME NEW i \in Intents, led[i] \in {"CANCELLED", "REJECTED"}
            PROVE  ~(LotsOf(i) \subseteq traded')
        <4>1. traded' \cap LotsOf(i) = traded \cap LotsOf(i)
          BY <2>3, <3>1, EndedIsStill DEF Closed
        <4>2. ~(LotsOf(i) \subseteq traded)
          BY <3>1 DEF SettledInv, ClosedHasFills
        <4> QED BY <4>1, <4>2
      <3>2. ASSUME NEW i \in Intents, led[i] \in Closed \ {"ABORTED"}
            PROVE  traded' \cap LotsOf(i) \subseteq fills
        BY <2>3, <3>2, EndedIsStill DEF SettledInv, ClosedHasFills
      <3> QED BY <1>0, <3>1, <3>2 DEF SettledInv, ClosedHasFills
    <2> QED BY <1>1, <2>2, <2>4, <2>5 DEF SettledInv
  <1> QED BY <1>2, <1>3 DEF BrokerNext, Accept, Discard, Finish

----------------------------------------------------------------------------
(* submit *)

LEMMA SettledAccountChanged ==
  ASSUME TypeOK, SettledInv, AccountChanged
  PROVE  /\ rec'.pc = rec.pc /\ rec'.reads = rec.reads /\ rec'.rows = rec.rows
         /\ rec'.trades = rec.trades /\ account' = "stale"
         /\ "trades" \in rec.reads => rec'.stale
  <1>1. /\ rec'.pc = rec.pc /\ rec'.reads = rec.reads /\ rec'.rows = rec.rows
        /\ rec'.trades = rec.trades /\ account' = "stale"
        /\ rec'.stale = (rec.pc # "idle")
    BY DEF TypeOK, AccountChanged
  <1> QED BY <1>1 DEF SettledInv, BatchIsComplete

\* A step that makes the batch stale, or drops it, and records no fill.
LEMMA SettledStale ==
  ASSUME TypeOK, SettledInv, UNCHANGED <<traded, fills>>,
         AccountChanged, ClosedHasFills', PostingIsNew'
  PROVE  SettledInv'
  <1>1. FillsAreReal'
    BY SettledAccountChanged DEF SettledInv, FillsAreReal
  <1>2. BatchIsComplete'
    BY SettledAccountChanged DEF SettledInv, BatchIsComplete
  <1>3. ClearIsClosed' BY SettledAccountChanged DEF ClearIsClosed
  <1> QED BY <1>1, <1>2, <1>3 DEF SettledInv

\* No intent is closed or reopened by a write of an open state to an intent
\* that is not closed.
LEMMA ClosedKept ==
  ASSUME SettledInv, UNCHANGED <<traded, fills>>,
         \A i \in Intents :
           /\ led'[i] = led[i] \/ led'[i] \notin Closed \ {"ABORTED"}
           /\ saved'[i] = saved[i] \/ led'[i] \notin Closed
  PROVE  ClosedHasFills'
  BY DEF SettledInv, ClosedHasFills, Closed

LEMMA SettledDispatch ==
  ASSUME SafeInv, SettledInv, NEW i \in Intents, led[i] = "none",
         Dispatch(i) \/ RateAbort(i),
         UNCHANGED <<bk, traded, saved, fills, faults>>
  PROVE  SettledInv'
  <1>0. TypeOK /\ saved[i] = "none"
    BY DEF SafeInv, KnownIsTrue, SentIsRecorded
  <1>1. CASE Dispatch(i)
    <2>1. ClosedHasFills'
      BY <1>0, <1>1, ClosedKept DEF Dispatch, TypeOK, Closed
    <2>2. PostingIsNew' BY <1>0, <1>1 DEF Dispatch, PostingIsNew
    <2> QED BY <1>0, <1>1, <2>1, <2>2, SettledStale DEF Dispatch
  <1>2. CASE RateAbort(i)
    <2>1. UNCHANGED <<rec, account, saved, fills, traded>> /\ sub'.pc = "idle"
      BY <1>2 DEF RateAbort, IdleSub
    <2>2. led' = [led EXCEPT ![i] = "ABORTED"] BY <1>2 DEF RateAbort
    <2>3. ClosedHasFills' BY <1>0, <2>1, <2>2, ClosedKept DEF TypeOK, Closed
    <2>4. ClearIsClosed'
      BY <1>0, <2>1, <2>2 DEF SettledInv, ClearIsClosed, TypeOK, Closed
    <2> QED BY <2>1, <2>3, <2>4
            DEF SettledInv, FillsAreReal, BatchIsComplete, PostingIsNew
  <1> QED BY <1>1, <1>2

LEMMA SettledSubmit == SafeInv /\ SettledInv /\ SubmitNext => SettledInv'
  <1> SUFFICES ASSUME SafeInv, SettledInv, SubmitNext PROVE SettledInv' OBVIOUS
  <1>0. TypeOK BY DEF SafeInv
  <1>1. ASSUME NEW i \in Intents, SubmitBuy(i) PROVE SettledInv'
    BY <1>1, SettledDispatch DEF SubmitBuy
  <1>2. ASSUME NEW i \in Intents, SellDispatch(i) PROVE SettledInv'
    <2>1. led[i] = "none" BY <1>2 DEF SellDispatch, SafeInv, SubmitShape
    <2> QED BY <1>2, <2>1, SettledDispatch DEF SellDispatch
  <1>3. ASSUME NEW i \in Intents, SubmitAck(i) PROVE SettledInv'
    <2>1. led[i] = "SEND_UNKNOWN" /\ sub'.pc = "idle" /\ AccountChanged
          /\ UNCHANGED <<traded, fills>>
      BY <1>3 DEF SubmitAck, SafeInv, SubmitShape, IdleSub, brokerVars
    <2>2. \A j \in Intents : j # i => led'[j] = led[j] /\ saved'[j] = saved[j]
      BY <1>0, <1>3 DEF SubmitAck, TypeOK
    <2>3. led'[i] = "SENT" BY <1>0, <1>3 DEF SubmitAck, TypeOK
    <2>4. ClosedHasFills' BY <2>1, <2>2, <2>3, ClosedKept DEF Closed
    <2> QED BY <1>0, <2>1, <2>4, SettledStale DEF PostingIsNew
  <1>4. ASSUME NEW i \in Intents, SubmitUnknown(i) PROVE SettledInv'
    <2>1. led[i] = "SEND_UNKNOWN" /\ sub'.pc = "idle" /\ AccountChanged
          /\ UNCHANGED <<traded, fills, saved>>
      BY <1>4 DEF SubmitUnknown, SafeInv, SubmitShape, IdleSub, brokerVars
    <2>2. led' = led BY <1>0, <1>4, <2>1 DEF SubmitUnknown, TypeOK
    <2>3. ClosedHasFills' BY <2>1, <2>2, ClosedKept
    <2> QED BY <1>0, <2>1, <2>3, SettledStale DEF PostingIsNew
  <1>5. ASSUME UNCHANGED <<traded, led, saved, fills, rec, account>>,
               sub'.pc # "posting"
        PROVE  SettledInv'
    BY <1>5 DEF SettledInv, FillsAreReal, BatchIsComplete, ClosedHasFills,
                ClearIsClosed, PostingIsNew
  <1>6. ASSUME NEW i \in Intents, SubmitSell(i) \/ SellRefused(i)
        PROVE  SettledInv'
    <2>1. sub'.pc # "posting" BY <1>6 DEF SubmitSell, SellRefused, IdleSub
    <2> QED BY <1>5, <1>6, <2>1
            DEF SubmitSell, SellRefused, brokerVars, ledgerVars
  <1>7. CASE ServePositions \/ PositionsFailed
    <2>1. ServePositions => sub'.pc = "held"
      BY <1>0 DEF ServePositions, TypeOK
    <2>2. PositionsFailed => sub'.pc = "idle"
      BY DEF PositionsFailed, IdleSub
    <2> QED BY <1>5, <1>7, <2>1, <2>2
            DEF ServePositions, PositionsFailed, brokerVars, ledgerVars
  <1> QED BY <1>1, <1>2, <1>3, <1>4, <1>6, <1>7 DEF SubmitNext

----------------------------------------------------------------------------
(* reconcile *)

\* A batch that passed the fence brings every fill of an order it closes.
LEMMA AfterIsSettled ==
  ASSUME ReportsFilled, SafeInv, SettledInv, rec.pc = "ready", Fence,
         NEW i \in Intents,
         LedAfter(i) \in Closed \ {"ABORTED"}, LedAfter(i) # led[i]
  PROVE  /\ traded \cap LotsOf(i) \subseteq fills \cup Seen(i)
         /\ LedAfter(i) = "FILLED" => LotsOf(i) \subseteq fills \cup Seen(i)
         /\ LedAfter(i) \in {"CANCELLED", "REJECTED"} =>
              SavedAfter(i) = LedAfter(i) /\ ~(LotsOf(i) \subseteq traded)
  <1> DEFINE T == traded \cap LotsOf(i)
             F == (fills \cup Seen(i)) \cap LotsOf(i)
  <1>1. /\ rec.rows[i].st # "none"
        /\ SavedAfter(i) \in Terminal
        /\ FilledAfter(i) >= Expected(i)
        /\ LedAfter(i) = IF FilledAfter(i) = Qty(i) THEN "FILLED"
                         ELSE SavedAfter(i)
    BY DEF LedAfter, Closed
  <1>2. T \subseteq Lots /\ F \subseteq T /\ LotsOf(i) \subseteq Lots
    BY LotSets DEF SafeInv, TypeOK, SettledInv, FillsAreReal, Seen
  <1>3. T \subseteq F
    <2>1. CASE rec.rows[i].st \in Terminal
      <3>1. Expected(i) = Cardinality(T)
        BY <2>1 DEF Expected, SettledInv, BatchIsComplete
      <3>2. Cardinality(F) >= Cardinality(T)
        BY <1>1, <3>1 DEF FilledAfter
      <3> HIDE DEF T, F
      <3> QED BY <1>2, <3>2, LotsEqual
    <2>2. CASE rec.rows[i].st \notin Terminal
      <3>1. saved[i] \in Terminal BY <1>1, <2>2 DEF SavedAfter
      <3>2. T \subseteq rec.trades
        BY <3>1 DEF SettledInv, BatchIsComplete, Fence
      <3> QED BY <1>1, <3>2 DEF Seen
    <2> QED BY <2>1, <2>2
  <1>4. T = F BY <1>2, <1>3
  <1>5. FilledAfter(i) = Qty(i) => LotsOf(i) \subseteq F
    <2>1. F \subseteq LotsOf(i) OBVIOUS
    <2>2. FilledAfter(i) = Cardinality(F) /\ Qty(i) = Cardinality(LotsOf(i))
      BY DEF FilledAfter, Qty
    <2>3. /\ Cardinality(LotsOf(i)) \in Nat
      BY LotsFinite, <1>2
    <2> HIDE DEF F
    <2>4. SUFFICES ASSUME FilledAfter(i) = Qty(i) PROVE F = LotsOf(i)
      OBVIOUS
    <2>5. Cardinality(F) >= Cardinality(LotsOf(i)) BY <2>2, <2>3, <2>4
    <2> QED BY <1>2, <2>1, <2>5, LotsEqual
  <1>6. FilledAfter(i) # Qty(i) => ~(LotsOf(i) \subseteq traded)
    <2>1. LotsOf(i) \subseteq traded => F = LotsOf(i) BY <1>4
    <2> QED BY <2>1 DEF FilledAfter, Qty
  <1> QED BY <1>1, <1>3, <1>5, <1>6 DEF Terminal

\* What the loop writes for a set D of orders and a set E of intents, with all
\* fills of the intents it closes.
LEMMA SettledWalk ==
  ASSUME ReportsFilled, SafeInv, SettledInv, rec.pc = "ready", Fence,
         UNCHANGED traded, rec' = IdleRec, sub'.pc = "idle", ClearIsClosed',
         NEW D \in SUBSET Intents, NEW E \in SUBSET D,
         saved' = [i \in Intents |-> IF i \in D THEN SavedAfter(i) ELSE saved[i]],
         led' = [i \in Intents |-> IF i \in E THEN LedAfter(i) ELSE led[i]],
         fills \subseteq fills', fills' \subseteq traded,
         \A i \in E : Seen(i) \subseteq fills'
  PROVE  SettledInv'
  <1>1. ASSUME NEW i \in Intents, i \in E, LedAfter(i) # led[i]
        PROVE  ClosedHasFills!(i)'
    <2>1. led'[i] = LedAfter(i) /\ saved'[i] = SavedAfter(i) BY <1>1
    <2>2. CASE LedAfter(i) \in Closed \ {"ABORTED"}
      BY <1>1, <2>1, <2>2, AfterIsSettled
    <2>3. CASE LedAfter(i) \notin Closed \ {"ABORTED"}
      BY <2>1, <2>3 DEF Closed
    <2> QED BY <2>2, <2>3
  <1>2. ASSUME NEW i \in Intents, led'[i] = led[i]
        PROVE  ClosedHasFills!(i)'
    <2>1. ASSUME saved[i] \in Terminal PROVE saved'[i] = saved[i]
      <3>1. SavedAfter(i) \in Terminal => SavedAfter(i) = saved[i]
        BY <2>1, AfterIsTrue DEF SafeInv, KnownIsTrue
      <3>2. SavedAfter(i) \in Terminal BY <2>1 DEF SavedAfter
      <3> QED BY <3>1, <3>2
    <2>2. ClosedHasFills!(i) BY DEF SettledInv, ClosedHasFills
    <2> QED BY <1>2, <2>1, <2>2 DEF Terminal
  <1>3. ClosedHasFills' BY <1>1, <1>2 DEF ClosedHasFills
  <1>4. PostingIsNew' BY DEF PostingIsNew
  <1> QED BY <1>3, <1>4, SettledIdle

LEMMA SettledRead ==
  ASSUME SafeInv, SettledInv,
         \/ ServeOrders \/ ServeTrades \/ Gather
         \/ \E i \in Intents : ServeLookup(i)
  PROVE  SettledInv'
  <1>0. TypeOK /\ UNCHANGED <<traded, led, saved, fills, sub, account>>
    BY DEF SafeInv, ServeOrders, ServeTrades, Gather, ServeLookup, brokerVars,
           ledgerVars
  <1>1. ClosedHasFills' /\ ClearIsClosed' /\ PostingIsNew'
    BY <1>0 DEF SettledInv, ClosedHasFills, ClearIsClosed, PostingIsNew
  <1>2. CASE ServeOrders
    <2>1. PICK rows \in [Intents -> UNION {ServedRows(i) : i \in Intents}] :
            /\ \A i \in Intents : rows[i] \in ServedRows(i)
            /\ rec' = [rec EXCEPT !.reads = @ \cup {"orders"}, !.rows = rows]
      BY <1>2 DEF ServeOrders
    <2>2. /\ rec'.pc = "reading" /\ rec'.reads = rec.reads \cup {"orders"}
          /\ rec'.rows = rows /\ rec'.trades = rec.trades
          /\ rec'.stale = rec.stale
      BY <1>0, <1>2, <2>1 DEF ServeOrders, TypeOK
    <2>3. FillsAreReal' BY <1>0, <2>2 DEF SettledInv, FillsAreReal
    <2>4. BatchIsComplete'
      BY <1>0, <2>1, <2>2, ServedIsCounted DEF SettledInv, BatchIsComplete
    <2> QED BY <1>1, <2>3, <2>4 DEF SettledInv
  <1>3. CASE ServeTrades
    <2>1. /\ rec'.pc = "reading" /\ rec'.reads = rec.reads \cup {"trades"}
          /\ rec'.rows = rec.rows /\ rec'.trades = traded
      BY <1>0, <1>3 DEF ServeTrades, TypeOK
    <2>2. FillsAreReal' BY <1>0, <2>1 DEF SettledInv, FillsAreReal
    <2>3. BatchIsComplete' BY <1>0, <2>1 DEF SettledInv, BatchIsComplete
    <2> QED BY <1>1, <2>2, <2>3 DEF SettledInv
  <1>4. CASE Gather
    <2>1. /\ rec'.pc = "ready" /\ rec'.reads = rec.reads /\ rec.reads = Reads
          /\ rec'.rows = rec.rows /\ rec'.trades = rec.trades
          /\ rec'.stale = rec.stale
      BY <1>0, <1>4 DEF Gather, TypeOK
    <2>2. FillsAreReal' BY <1>0, <2>1 DEF SettledInv, FillsAreReal
    <2>3. BatchIsComplete' BY <1>0, <2>1 DEF SettledInv, BatchIsComplete, Reads
    <2> QED BY <1>1, <2>2, <2>3 DEF SettledInv
  <1>5. ASSUME NEW j \in Intents, ServeLookup(j) PROVE SettledInv'
    <2>1. PICK row \in ServedRows(j) :
            rec' = [rec EXCEPT !.need = @ \ {j}, !.rows[j] = row]
      BY <1>5 DEF ServeLookup
    <2>2. /\ rec'.pc = "ready" /\ rec.pc = "ready" /\ rec'.reads = rec.reads
          /\ rec'.trades = rec.trades /\ rec'.stale = rec.stale
          /\ rec'.rows = [rec.rows EXCEPT ![j] = row]
      BY <1>0, <1>5, <2>1 DEF ServeLookup, TypeOK
    <2>3. \A i \in Intents : rec'.rows[i] = IF i = j THEN row ELSE rec.rows[i]
      BY <1>0, <2>2 DEF TypeOK
    <2>4. FillsAreReal' BY <1>0, <2>2 DEF SettledInv, FillsAreReal
    <2>5. BatchIsComplete'
      BY <1>0, <2>2, <2>3, ServedIsCounted DEF SettledInv, BatchIsComplete
    <2> QED BY <1>1, <2>4, <2>5 DEF SettledInv
  <1> QED BY <1>2, <1>3, <1>4, <1>5

LEMMA SettledRec ==
  ReportsFilled /\ SafeInv /\ SettledInv /\ RecNext => SettledInv'
  <1> SUFFICES ASSUME ReportsFilled, SafeInv, SettledInv, RecNext
               PROVE  SettledInv'
    OBVIOUS
  <1>1. CASE RecApply
    <2>1. Walked \in SUBSET Intents BY DEF Walked
    <2>2. rec.pc = "ready" /\ sub'.pc = "idle" /\ UNCHANGED traded
      BY <1>1 DEF RecApply, Resolved, LockFree, brokerVars
    <2>3. ClearIsClosed' BY <1>1 DEF RecApply, ClearIsClosed
    <2>4. /\ fills \subseteq fills' /\ fills' \subseteq traded
          /\ \A i \in Walked : Seen(i) \subseteq fills'
      BY <1>1 DEF RecApply, SettledInv, FillsAreReal, Seen
    <2> QED BY <1>1, <2>1, <2>2, <2>3, <2>4, SettledWalk DEF RecApply
  <1>2. CASE RecStart \/ ReadFailed \/ RecChanged
    <2>1. UNCHANGED <<traded, led, saved, fills, sub>>
          /\ (account' = account \/ account' = "stale")
      BY <1>2 DEF RecStart, ReadFailed, RecChanged, brokerVars, ledgerVars
    <2>2. (fills \subseteq traded)' /\ ClosedHasFills' /\ PostingIsNew'
      BY <2>1 DEF SettledInv, FillsAreReal, ClosedHasFills, PostingIsNew
    <2>3. ClearIsClosed' BY <2>1 DEF SettledInv, ClearIsClosed
    <2>4. CASE RecStart
      <3>1. /\ rec'.pc = "reading" /\ rec'.reads = {} /\ rec'.trades = {}
            /\ \A i \in Intents : rec'.rows[i].st = "none"
        BY <2>4 DEF RecStart, IdleRec, NoRows, NoRow
      <3>2. FillsAreReal' BY <2>2, <3>1 DEF FillsAreReal
      <3>3. BatchIsComplete' BY <3>1 DEF BatchIsComplete, Terminal
      <3> QED BY <2>2, <2>3, <3>2, <3>3 DEF SettledInv
    <2>5. CASE ReadFailed \/ RecChanged
      <3>1. rec' = IdleRec BY <2>5 DEF ReadFailed, RecChanged
      <3> QED BY <2>2, <2>3, <3>1, SettledIdle
    <2> QED BY <1>2, <2>4, <2>5
  <1> QED BY <1>1, <1>2, SettledRead DEF RecNext

LEMMA SettledFault ==
  ReportsFilled /\ SafeInv /\ SettledInv /\ FaultNext => SettledInv'
  <1> SUFFICES ASSUME ReportsFilled, SafeInv, SettledInv, FaultNext
               PROVE  SettledInv'
    OBVIOUS
  <1>0. TypeOK BY DEF SafeInv
  <1>1. CASE Notified
    <2>1. UNCHANGED <<traded, led, saved, fills, sub>> /\ AccountChanged
      BY <1>1 DEF Notified, brokerVars, ledgerVars
    <2>2. ClosedHasFills' /\ PostingIsNew'
      BY <2>1 DEF SettledInv, ClosedHasFills, PostingIsNew
    <2> QED BY <1>0, <2>1, <2>2, SettledStale
  <1>2. ASSUME Restart, UNCHANGED <<traded, saved, fills>>,
               \A i \in Intents :
                 led'[i] = led[i] \/ led'[i] \notin Closed
        PROVE  SettledInv'
    <2>1. rec' = IdleRec /\ sub'.pc = "idle" /\ account' = "stale"
      BY <1>2 DEF Restart, IdleSub
    <2>2. ClosedHasFills' BY <1>2, ClosedKept
    <2>3. ClearIsClosed' /\ PostingIsNew' /\ (fills \subseteq traded)'
      BY <1>2, <2>1
         DEF ClearIsClosed, PostingIsNew, SettledInv, FillsAreReal
    <2> QED BY <2>1, <2>2, <2>3, SettledIdle
  <1>3. CASE Crash BY <1>2, <1>3 DEF Crash, brokerVars, ledgerVars
  <1>4. ASSUME NEW i \in Intents, CrashAfterCreate(i) \/ CrashAfterAccepted(i)
        PROVE  SettledInv'
    <2>1. \A j \in Intents : led'[j] = led[j] \/ led'[j] \notin Closed
      BY <1>0, <1>4 DEF CrashAfterCreate, CrashAfterAccepted, TypeOK, Closed
    <2> QED BY <1>2, <1>4, <2>1
            DEF CrashAfterCreate, CrashAfterAccepted, brokerVars
  <1>5. ASSUME NEW i \in Intents, CrashInApply(i) PROVE SettledInv'
    <2> DEFINE done == {j \in Walked : born[j] < born[i]}
    <2>1. /\ done \cup {i} \in SUBSET Intents
          /\ done \in SUBSET (done \cup {i})
      BY DEF Walked
    <2>2. /\ saved' = [j \in Intents |->
                         IF j \in done \cup {i} THEN SavedAfter(j) ELSE saved[j]]
          /\ led' = [j \in Intents |-> IF j \in done THEN LedAfter(j) ELSE led[j]]
          /\ sub'.pc = "idle" /\ rec' = IdleRec /\ account' = "stale"
          /\ rec.pc = "ready" /\ Fence /\ UNCHANGED traded
      BY <1>5 DEF CrashInApply, Restart, IdleSub, Resolved, brokerVars
    <2>3. /\ fills \subseteq fills' /\ fills' \subseteq traded
          /\ \A j \in done : Seen(j) \subseteq fills'
      BY <1>5 DEF CrashInApply, SettledInv, FillsAreReal, Seen
    <2>4. ClearIsClosed' BY <2>2 DEF ClearIsClosed
    <2> HIDE DEF done
    <2> QED BY <2>1, <2>2, <2>3, <2>4, SettledWalk
  <1> QED BY <1>1, <1>3, <1>4, <1>5 DEF FaultNext

LEMMA SettledStep ==
  ReportsFilled /\ SafeInv /\ SettledInv /\ [Next]_vars => SettledInv'
  <1>1. SettledInv /\ UNCHANGED vars => SettledInv'
    BY DEF vars, SettledInv, FillsAreReal, BatchIsComplete, ClosedHasFills,
           ClearIsClosed, PostingIsNew
  <1> QED BY <1>1, SettledBroker, SettledSubmit, SettledRec, SettledFault
          DEF Next

LEMMA SettledAlways ==
  ASSUME ReportsFilled PROVE Spec => [](SafeInv /\ SettledInv)
  <1>1. Init => SafeInv /\ SettledInv BY SafeInit, SettledInit
  <1>2. SafeInv /\ SettledInv /\ [Next]_vars => (SafeInv /\ SettledInv)'
    BY SafeStep, SettledStep
  <1> QED BY <1>1, <1>2, PTL DEF Spec

\* An intent leaves pending_intents only when its order has ended and the
\* ledger holds all its fills, for lagging order rows too
\* (orders.py 195-198 and 232-238).
THEOREM ClosedIsSettledCorrect ==
  ASSUME ReportsFilled PROVE Spec => []ClosedIsSettled
  <1>1. SafeInv /\ SettledInv => ClosedIsSettled
    <2> SUFFICES ASSUME SafeInv, SettledInv, NEW i \in Intents,
                        led[i] \in Closed \ {"ABORTED"}
                 PROVE  /\ i \notin wire /\ bk[i] \in Terminal
                        /\ fills \cap LotsOf(i) = traded \cap LotsOf(i)
      BY DEF ClosedIsSettled
    <2>1. bk[i] \in Terminal BY DEF SafeInv, ClosedIsEnded
    <2>2. i \notin wire BY <2>1 DEF SafeInv, SentIsRecorded, Terminal
    <2>3. fills \cap LotsOf(i) = traded \cap LotsOf(i)
      BY DEF SettledInv, FillsAreReal, ClosedHasFills
    <2> QED BY <2>1, <2>2, <2>3
  <1> QED BY <1>1, SettledAlways, PTL

\* A clear account is the truth: nothing is in flight, and every fill is in
\* the ledger (account_refresh.py 34-38).
THEOREM ClearIsTrueCorrect ==
  ASSUME ReportsFilled PROVE Spec => []ClearIsTrue
  <1>1. SafeInv /\ SettledInv => ClearIsTrue
    <2> SUFFICES ASSUME SafeInv, SettledInv, account = "clear"
                 PROVE  /\ wire = {} /\ \A i \in Intents : bk[i] # "live"
                        /\ fills = traded
      BY DEF ClearIsTrue
    <2>1. \A i \in Intents : led[i] \in Closed \cup {"none"}
      BY DEF SettledInv, ClearIsClosed
    <2>2. ASSUME NEW i \in Intents, i \in wire \/ bk[i] # "none"
          PROVE  bk[i] \in Terminal /\ traded \cap LotsOf(i) \subseteq fills
      <3>1. led[i] \in Closed \ {"ABORTED"}
        BY <2>1, <2>2 DEF SafeInv, SentIsRecorded
      <3> QED BY <3>1 DEF SafeInv, ClosedIsEnded, SettledInv, ClosedHasFills
    <2>3. \A i \in Intents : i \notin wire /\ bk[i] # "live"
      BY <2>2 DEF SafeInv, SentIsRecorded, Terminal
    <2>4. wire = {} BY <2>3 DEF SafeInv, TypeOK
    <2>5. ASSUME NEW l \in traded PROVE l \in fills
      <3>1. l \in Lots /\ Owner[l] \in Intents /\ bk[Owner[l]] # "none"
        BY DEF SafeInv, TypeOK, SentIsRecorded
      <3> QED BY <2>2, <3>1 DEF LotsOf
    <2> QED BY <2>3, <2>4, <2>5 DEF SettledInv, FillsAreReal
  <1> QED BY <1>1, SettledAlways, PTL

----------------------------------------------------------------------------
(* The ledger never forgets *)

\* A reconcile's answers, however late, leave an ended row and a closed intent
\* as they are.
LEMMA AfterKeeps ==
  ASSUME SafeInv, SettledInv, NEW i \in Intents
  PROVE  /\ saved[i] \in Terminal => SavedAfter(i) = saved[i]
         /\ led[i] \in Closed => LedAfter(i) = led[i]
  <1>1. saved[i] \in Terminal => SavedAfter(i) = saved[i]
    <2>1. saved[i] \in Terminal => SavedAfter(i) \in Terminal
      BY DEF SavedAfter
    <2> QED BY <2>1, AfterIsTrue DEF SafeInv, KnownIsTrue
  <1>2. CASE led[i] = "ABORTED"
    <2>1. bk[i] = "none" BY <1>2 DEF SafeInv, SentIsRecorded
    <2>2. rec.rows[i].st = "none" BY <2>1 DEF SafeInv, KnownIsTrue
    <2> QED BY <1>1, <1>2, <2>2 DEF LedAfter
  <1>3. CASE led[i] = "FILLED"
    <2>1. (fills \cup Seen(i)) \cap LotsOf(i) = LotsOf(i)
      BY <1>3 DEF SettledInv, ClosedHasFills
    <2>2. FilledAfter(i) = Qty(i) BY <2>1 DEF FilledAfter, Qty
    <2> QED BY <1>1, <1>3, <2>2 DEF LedAfter
  <1>4. CASE led[i] \in {"CANCELLED", "REJECTED"}
    <2>1. saved[i] = led[i] /\ ~(LotsOf(i) \subseteq traded)
      BY <1>4 DEF SettledInv, ClosedHasFills
    <2>2. SavedAfter(i) = led[i] BY <1>1, <1>4, <2>1 DEF Terminal
    <2>3. (fills \cup Seen(i)) \cap LotsOf(i) # LotsOf(i)
      BY <2>1 DEF SettledInv, FillsAreReal, Seen
    <2>4. FilledAfter(i) # Qty(i)
      <3> DEFINE F == (fills \cup Seen(i)) \cap LotsOf(i)
      <3>1. LotsOf(i) \subseteq Lots /\ F \subseteq LotsOf(i) BY LotSets
      <3>2. FilledAfter(i) = Cardinality(F) /\ Qty(i) = Cardinality(LotsOf(i))
        BY DEF FilledAfter, Qty
      <3>3. Cardinality(LotsOf(i)) \in Nat BY <3>1, LotsFinite
      <3>4. F # LotsOf(i) BY <2>3
      <3> HIDE DEF F
      <3>5. ~(Cardinality(F) >= Cardinality(LotsOf(i)))
        BY <3>1, <3>4, LotsEqual
      <3> QED BY <3>2, <3>3, <3>5
    <2> QED BY <1>1, <1>4, <2>2, <2>4 DEF LedAfter
  <1> QED BY <1>1, <1>2, <1>3, <1>4 DEF Closed

LEMMA KeepsFills == Next => fills \subseteq fills'
  BY DEF Next, BrokerNext, SubmitNext, RecNext, FaultNext, Accept, Discard,
         Trade, Finish, SubmitBuy, SubmitSell, SellDispatch, SubmitAck,
         SubmitUnknown, SellRefused, ServePositions, PositionsFailed, RecStart,
         ServeOrders, ServeTrades, Gather, ServeLookup, ReadFailed, RecApply,
         RecChanged, Notified, Crash, CrashAfterCreate, CrashAfterAccepted,
         CrashInApply, ledgerVars

LEMMA KeepsStep ==
  ASSUME SafeInv, SettledInv, [Next]_vars, NEW i \in Intents
  PROVE  /\ fills \subseteq fills'
         /\ saved[i] \in Terminal => saved'[i] = saved[i]
         /\ led[i] \in Closed => led'[i] = led[i]
  <1> DEFINE Kept == /\ fills \subseteq fills'
                     /\ saved[i] \in Terminal => saved'[i] = saved[i]
                     /\ led[i] \in Closed => led'[i] = led[i]
  <1>0. TypeOK BY DEF SafeInv
  <1>1. CASE UNCHANGED ledgerVars BY <1>1 DEF ledgerVars
  <1>2. ASSUME NEW j \in Intents, SubmitBuy(j) \/ SellDispatch(j) PROVE Kept
    <2>1. led[j] = "none"
      BY <1>2 DEF SubmitBuy, SellDispatch, SafeInv, SubmitShape
    <2>2. \A k \in Intents : k # j => led'[k] = led[k]
      BY <1>0, <1>2 DEF SubmitBuy, SellDispatch, Dispatch, RateAbort, TypeOK
    <2> QED BY <1>2, <2>1, <2>2 DEF SubmitBuy, SellDispatch, Closed
  <1>3. ASSUME NEW j \in Intents, SubmitAck(j) \/ SubmitUnknown(j) PROVE Kept
    <2>1. led[j] = "SEND_UNKNOWN" /\ saved[j] = "none"
      BY <1>3 DEF SubmitAck, SubmitUnknown, SafeInv, SubmitShape, SettledInv,
                  PostingIsNew
    <2>2. \A k \in Intents : k # j => led'[k] = led[k] /\ saved'[k] = saved[k]
      BY <1>0, <1>3 DEF SubmitAck, SubmitUnknown, TypeOK
    <2> QED BY <1>3, <2>1, <2>2 DEF SubmitAck, SubmitUnknown, Closed, Terminal
  <1>4. ASSUME NEW j \in Intents, CrashAfterCreate(j) \/ CrashAfterAccepted(j)
        PROVE  Kept
    <2>1. led[j] \in {"none", "SEND_UNKNOWN"}
      BY <1>4 DEF CrashAfterCreate, CrashAfterAccepted, SafeInv, SubmitShape
    <2>2. \A k \in Intents : k # j => led'[k] = led[k]
      BY <1>0, <1>4 DEF CrashAfterCreate, CrashAfterAccepted, TypeOK
    <2> QED BY <1>4, <2>1, <2>2 DEF CrashAfterCreate, CrashAfterAccepted, Closed
  <1>5. CASE RecApply BY <1>5, AfterKeeps DEF RecApply
  <1>6. ASSUME NEW j \in Intents, CrashInApply(j) PROVE Kept
    BY <1>6, AfterKeeps DEF CrashInApply
  <1> QED
    BY <1>1, <1>2, <1>3, <1>4, <1>5, <1>6
       DEF Next, BrokerNext, SubmitNext, RecNext, FaultNext, Accept, Discard,
           Trade, Finish, SubmitSell, SellRefused, ServePositions,
           PositionsFailed, RecStart, ServeOrders, ServeTrades, Gather,
           ServeLookup, ReadFailed, RecChanged, Notified, Crash, vars,
           ledgerVars

\* Late, repeated and reordered answers never undo what the ledger has
\* (ledger.py 99-104, orders.py 237).
THEOREM LedgerNeverForgetsCorrect ==
  ASSUME ReportsFilled PROVE Spec => LedgerNeverForgets
  <1> DEFINE Keeps == /\ fills \subseteq fills'
                      /\ \A i \in Intents :
                           /\ saved[i] \in Terminal => saved'[i] = saved[i]
                           /\ led[i] \in Closed => led'[i] = led[i]
  <1>1. SafeInv /\ SettledInv /\ [Next]_vars => [Keeps]_vars
    <2> SUFFICES ASSUME SafeInv, SettledInv, [Next]_vars PROVE [Keeps]_vars
      OBVIOUS
    <2>1. CASE UNCHANGED vars BY <2>1
    <2>2. CASE Next
      <3>1. fills \subseteq fills'
        BY <2>2, KeepsFills
      <3>2. \A i \in Intents :
              /\ saved[i] \in Terminal => saved'[i] = saved[i]
              /\ led[i] \in Closed => led'[i] = led[i]
        BY KeepsStep
      <3> QED BY <3>1, <3>2
    <2> QED BY <2>1, <2>2
  <1> QED BY <1>1, SettledAlways, PTL DEF Spec, LedgerNeverForgets

----------------------------------------------------------------------------
(* The ledger is never short (WalkInv), for a broker whose order rows do    *)
(* not lag                                                                  *)

LEMMA WalkSets ==
  /\ \A j, k \in Ranks : /\ SoldUpTo(j, k) \subseteq Lots
                         /\ BoughtBefore(j, k) \subseteq Lots
  /\ \A j, k \in Ranks : /\ (SoldUpTo(j, k))' \subseteq Lots
                         /\ (BoughtBefore(j, k))' \subseteq Lots
  BY DEF SoldUpTo, BoughtBefore, OlderThan, CommittedSells, SellLots, BuyLots

LEMMA RanksBound ==
  /\ Cardinality(Intents) \in Nat
  /\ Ranks \subseteq Nat /\ 0 \in Ranks /\ Cardinality(Intents) + 1 \in Ranks
  /\ TypeOK /\ BornInOrder =>
       /\ \A i \in Intents : born[i] \in Ranks /\ born[i] < Cardinality(Intents) + 1
       /\ Cardinality(Created) + 1 \in Ranks
  <1>1. /\ Cardinality(Intents) \in Nat /\ Cardinality(Created) \in Nat
        /\ Cardinality(Created) <= Cardinality(Intents)
    BY FS_CardinalityType, FS_Subset, RankType, Created \subseteq Intents
       DEF Created
  <1> QED BY <1>1 DEF Ranks, TypeOK, BornInOrder

\* The sales a step leaves recordable were covered before it, at some ranks.
LEMMA CoverKept ==
  ASSUME SalesFollowBuys,
         \A j, k \in Ranks : \E m, n \in Ranks :
           /\ (SoldUpTo(j, k))' \subseteq SoldUpTo(m, n)
           /\ BoughtBefore(m, n) \subseteq (BoughtBefore(j, k))'
  PROVE  SalesFollowBuys'
  <1> SUFFICES ASSUME NEW j \in Ranks, NEW k \in Ranks
               PROVE  Cardinality((SoldUpTo(j, k))')
                        <= Cardinality((BoughtBefore(j, k))')
    BY DEF SalesFollowBuys
  <1>1. PICK m \in Ranks, n \in Ranks :
          /\ (SoldUpTo(j, k))' \subseteq SoldUpTo(m, n)
          /\ BoughtBefore(m, n) \subseteq (BoughtBefore(j, k))'
    OBVIOUS
  <1>2. Cardinality((SoldUpTo(j, k))') <= Cardinality(SoldUpTo(m, n))
    BY <1>1, WalkSets, LotsMonotone
  <1>3. Cardinality(SoldUpTo(m, n)) <= Cardinality(BoughtBefore(m, n))
    BY DEF SalesFollowBuys
  <1>4. Cardinality(BoughtBefore(m, n)) <= Cardinality((BoughtBefore(j, k))')
    BY <1>1, WalkSets, LotsMonotone
  <1>5. /\ Cardinality((SoldUpTo(j, k))') \in Nat
        /\ Cardinality(SoldUpTo(m, n)) \in Nat
        /\ Cardinality(BoughtBefore(m, n)) \in Nat
        /\ Cardinality((BoughtBefore(j, k))') \in Nat
    BY WalkSets, LotsFinite
  <1> QED BY <1>2, <1>3, <1>4, <1>5

\* An intent without a row has nothing that could be recorded.
LEMMA RowlessIsIdle ==
  ASSUME SafeInv, SettledInv, NEW l \in Lots, led[Owner[l]] = "none"
  PROVE  l \notin traded /\ l \notin rec.trades /\ l \notin CommittedSells
  BY DEF SafeInv, SentIsRecorded, SettledInv, FillsAreReal, CommittedSells

----------------------------------------------------------------------------
LEMMA WalkInit == Init => WalkInv
  <1> SUFFICES ASSUME Init PROVE WalkInv OBVIOUS
  <1>1. BornInOrder BY RankType DEF Init, BornInOrder
  <1>2. BatchShows BY IdleRecFields DEF Init, BatchShows
  <1>3. SalesFollowBuys
    <2>0. /\ traded = {} /\ fills = {} /\ rec.trades = {}
          /\ CommittedSells = {}
      BY IdleRecFields DEF Init, CommittedSells, SellLots
    <2>1. \A j, k \in Ranks : SoldUpTo(j, k) = {} /\ BoughtBefore(j, k) = {}
      BY <2>0 DEF SoldUpTo, BoughtBefore, OlderThan
    <2>2. Cardinality({}) <= Cardinality({})
      BY LotsFinite, {} \subseteq Lots
    <2> QED BY <2>1, <2>2 DEF SalesFollowBuys
  <1> QED BY <1>1, <1>2, <1>3 DEF WalkInv

\* No new row, no new fill, no new sale.
LEMMA CoverFrame ==
  ASSUME TypeOK, SalesFollowBuys, UNCHANGED <<born, fills>>,
         CommittedSells' \subseteq CommittedSells, traded \subseteq traded',
         rec'.trades = rec.trades \/ rec'.trades = {}
  PROVE  SalesFollowBuys'
  <1>1. ASSUME NEW j \in Ranks, NEW k \in Ranks
        PROVE  \E m, n \in Ranks :
                 /\ (SoldUpTo(j, k))' \subseteq SoldUpTo(m, n)
                 /\ BoughtBefore(m, n) \subseteq (BoughtBefore(j, k))'
    <2>1. CASE rec'.trades = rec.trades
      <3>1. /\ (SoldUpTo(j, k))' \subseteq SoldUpTo(j, k)
            /\ BoughtBefore(j, k) \subseteq (BoughtBefore(j, k))'
        BY <2>1 DEF SoldUpTo, BoughtBefore, OlderThan
      <3> QED BY <3>1
    <2>2. CASE rec'.trades = {}
      <3>1. (SoldUpTo(j, k))' \subseteq SoldUpTo(0, k)
        BY <2>2 DEF SoldUpTo, OlderThan
      <3>2. OlderThan(rec.trades \cap BuyLots, 0) = {}
        BY DEF TypeOK, OlderThan, BuyLots
      <3>3. BoughtBefore(0, k) \subseteq (BoughtBefore(j, k))'
        BY <2>2, <3>2 DEF BoughtBefore, OlderThan
      <3> QED BY <3>1, <3>3, RanksBound
    <2> QED BY <2>1, <2>2
  <1> QED BY <1>1, CoverKept

\* The batch, if it goes on, shows what it showed.
LEMMA ShowsFrame ==
  ASSUME BatchShows, UNCHANGED fills,
         \/ rec'.pc # "ready"
         \/ /\ rec'.pc = rec.pc /\ rec'.trades = rec.trades
            /\ rec'.was = rec.was /\ rec'.rows = rec.rows
            /\ rec'.need = rec.need
  PROVE  BatchShows'
  BY DEF BatchShows

LEMMA AccountKeepsBatch ==
  ASSUME TypeOK, AccountChanged
  PROVE  /\ rec'.pc = rec.pc /\ rec'.trades = rec.trades
         /\ rec'.was = rec.was /\ rec'.rows = rec.rows /\ rec'.need = rec.need
  BY DEF TypeOK, AccountChanged

LEMMA WalkBroker == SafeInv /\ WalkInv /\ BrokerNext => WalkInv'
  <1> SUFFICES ASSUME SafeInv, WalkInv, BrokerNext PROVE WalkInv' OBVIOUS
  <1>0. TypeOK /\ UNCHANGED <<led, born, fills, rec>>
    BY DEF SafeInv, BrokerNext, Accept, Discard, Finish, Trade, ledgerVars
  <1>1. BornInOrder' BY <1>0 DEF WalkInv, BornInOrder, Created
  <1>2. BatchShows' BY <1>0, ShowsFrame DEF WalkInv
  <1>3. traded \subseteq traded'
    BY DEF BrokerNext, Accept, Discard, Finish, Trade
  <1>4. CommittedSells' \subseteq CommittedSells
    BY <1>0 DEF BrokerNext, Accept, Discard, Finish, Trade, CommittedSells,
                SellLots, TypeOK
  <1> QED BY <1>0, <1>1, <1>2, <1>3, <1>4, CoverFrame DEF WalkInv

----------------------------------------------------------------------------
(* submit: a new intent gets a rank above all others *)

LEMMA InsertRanks ==
  ASSUME TypeOK, BornInOrder, NEW i \in Intents, led[i] = "none", Insert(i),
         NEW st, st # "none", led' = [led EXCEPT ![i] = st]
  PROVE  /\ BornInOrder'
         /\ born'[i] = Cardinality(Created) + 1
         /\ \A j \in Intents :
              /\ j # i => born'[j] = born[j]
              /\ born[j] <= Cardinality(Created)
  <1>1. /\ born'[i] = Cardinality(Created) + 1
        /\ \A j \in Intents : j # i => born'[j] = born[j]
    BY DEF Insert, TypeOK
  <1>2. IsFiniteSet(Created) /\ Cardinality(Created) \in Nat
    BY FS_Subset, RankType, Created \subseteq Intents DEF Created
  <1>3. i \notin Created BY DEF BornInOrder, Created
  <1>4. Created' = Created \cup {i}
    BY <1>1, <1>2 DEF Created
  <1>5. Cardinality(Created') = Cardinality(Created) + 1
    BY <1>2, <1>3, <1>4, FS_AddElement
  <1>6. ASSUME NEW j \in Intents
        PROVE  /\ born'[j] <= Cardinality(Created')
               /\ born'[j] = 0 <=> led'[j] = "none"
    <2>1. CASE j = i BY <1>1, <1>2, <1>5, <2>1 DEF TypeOK
    <2>2. CASE j # i
      <3>1. led'[j] = led[j] /\ born'[j] = born[j] BY <1>1, <2>2 DEF TypeOK
      <3>2. born'[j] <= Cardinality(Created')
        BY <1>2, <1>5, <3>1 DEF BornInOrder, TypeOK
      <3> QED BY <3>1, <3>2 DEF BornInOrder
    <2> QED BY <2>1, <2>2
  <1> QED BY <1>1, <1>6 DEF BornInOrder

\* A new row of an intent that has nothing at the broker: of its lots, none is
\* counted.
LEMMA CoverRow ==
  ASSUME SafeInv, SettledInv, WalkInv, NEW i \in Intents, led[i] = "none",
         \A j \in Intents : j # i => born'[j] = born[j],
         UNCHANGED <<wire, bk, traded, fills>>, born' \in [Intents -> Nat],
         rec'.trades = rec.trades \/ rec'.trades = {}
  PROVE  SalesFollowBuys'
  <1>0. TypeOK /\ CommittedSells' = CommittedSells
    BY DEF SafeInv, CommittedSells
  <1>1. \A l \in Lots :
          l \in traded \/ l \in rec.trades \/ l \in CommittedSells =>
            born'[Owner[l]] = born[Owner[l]]
    BY RowlessIsIdle
  <1>2. ASSUME NEW j \in Ranks, NEW k \in Ranks
        PROVE  \E m, n \in Ranks :
                 /\ (SoldUpTo(j, k))' \subseteq SoldUpTo(m, n)
                 /\ BoughtBefore(m, n) \subseteq (BoughtBefore(j, k))'
    <2>1. CASE rec'.trades = rec.trades
      <3>1. (SoldUpTo(j, k))' \subseteq SoldUpTo(j, k)
        BY <1>0, <1>1, <2>1, LotSets DEF SoldUpTo, OlderThan
      <3>2. BoughtBefore(j, k) \subseteq (BoughtBefore(j, k))'
        BY <1>0, <1>1, <2>1, LotSets DEF BoughtBefore, OlderThan
      <3> QED BY <3>1, <3>2
    <2>2. CASE rec'.trades = {}
      <3>1. (SoldUpTo(j, k))' \subseteq SoldUpTo(0, k)
        BY <1>0, <1>1, <2>2, LotSets DEF SoldUpTo, OlderThan
      <3>2. OlderThan(rec.trades \cap BuyLots, 0) = {}
        BY <1>0 DEF TypeOK, OlderThan, BuyLots
      <3>3. BoughtBefore(0, k) \subseteq (BoughtBefore(j, k))'
        BY <1>0, <1>1, <2>2, <3>2, LotSets DEF BoughtBefore, OlderThan
      <3> QED BY <3>1, <3>3, RanksBound
    <2> QED BY <2>1, <2>2
  <1> QED BY <1>2, CoverKept DEF WalkInv

\* A POST leaves: seen up to the new rank everything is counted, and NoOversell
\* covers it; below, the new intent is not.
LEMMA CoverDispatch ==
  ASSUME SafeInv, SettledInv, WalkInv, TypeOK', NoOversell', NEW i \in Intents,
         led[i] = "none", Dispatch(i), UNCHANGED <<bk, traded, saved, fills>>
  PROVE  SalesFollowBuys'
  <1>0. TypeOK /\ BornInOrder BY DEF SafeInv, WalkInv
  <1>1. /\ rec'.trades = rec.trades /\ wire' = wire \cup {i}
        /\ led' = [led EXCEPT ![i] = "SEND_UNKNOWN"] /\ Insert(i)
    BY <1>0, AccountKeepsBatch DEF Dispatch
  <1>2. /\ born'[i] = Cardinality(Created) + 1
        /\ \A j \in Intents : /\ j # i => born'[j] = born[j]
                              /\ born[j] <= Cardinality(Created)
    BY <1>0, <1>1, InsertRanks
  <1>3. Cardinality(Created) \in Nat BY RankType
  <1>4. \A l \in Lots :
          l \in traded \/ l \in rec.trades \/ l \in CommittedSells =>
            Owner[l] # i /\ born'[Owner[l]] = born[Owner[l]]
    BY <1>2, RowlessIsIdle
  <1>5. CommittedSells' \subseteq CommittedSells \cup LotsOf(i)
        /\ CommittedSells \subseteq CommittedSells'
    BY <1>1 DEF CommittedSells, SellLots, LotsOf
  <1>6. fills \subseteq traded /\ rec.trades \subseteq traded
    BY DEF SettledInv, FillsAreReal
  <1> SUFFICES ASSUME NEW j \in Ranks, NEW k \in Ranks
               PROVE  Cardinality((SoldUpTo(j, k))')
                        <= Cardinality((BoughtBefore(j, k))')
    BY DEF SalesFollowBuys
  <1>7. CASE k > Cardinality(Created)
    <2>1. (SoldUpTo(j, k))' \subseteq CommittedSells'
      BY <1>1, <1>6 DEF SoldUpTo, OlderThan, CommittedSells
    <2>2. traded \cap BuyLots \subseteq (BoughtBefore(j, k))'
      <3>1. \A l \in traded \cap BuyLots : born'[Owner[l]] < k
        BY <1>0, <1>2, <1>3, <1>4, <1>7, RanksBound DEF TypeOK, BuyLots
      <3> QED BY <3>1 DEF BoughtBefore, OlderThan
    <2>3. /\ CommittedSells' \subseteq Lots /\ traded \cap BuyLots \subseteq Lots
      BY LotSets DEF CommittedSells, SellLots
    <2>4. Cardinality(CommittedSells') <= Cardinality(traded \cap BuyLots)
      BY DEF NoOversell
    <2>5. /\ Cardinality((SoldUpTo(j, k))') <= Cardinality(CommittedSells')
          /\ Cardinality(traded \cap BuyLots)
               <= Cardinality((BoughtBefore(j, k))')
      BY <2>1, <2>2, <2>3, WalkSets, LotsMonotone
    <2>6. /\ Cardinality((SoldUpTo(j, k))') \in Nat
          /\ Cardinality(CommittedSells') \in Nat
          /\ Cardinality(traded \cap BuyLots) \in Nat
          /\ Cardinality((BoughtBefore(j, k))') \in Nat
      BY <2>3, WalkSets, LotsFinite
    <2> QED BY <2>4, <2>5, <2>6
  <1>8. CASE ~(k > Cardinality(Created))
    <2>1. \A l \in CommittedSells' :
            born'[Owner[l]] < k + 1 =>
              l \in CommittedSells /\ born'[Owner[l]] = born[Owner[l]]
      <3> SUFFICES ASSUME NEW l \in CommittedSells', l \in LotsOf(i)
                   PROVE  ~(born'[Owner[l]] < k + 1)
        BY <1>4, <1>5, LotSets
      <3>1. born'[Owner[l]] = Cardinality(Created) + 1 BY <1>2 DEF LotsOf
      <3> QED BY <1>3, <1>8, <3>1, RanksBound
    <2>2. (SoldUpTo(j, k))' \subseteq SoldUpTo(j, k)
      <3>1. OlderThan(rec.trades \cap SellLots, j + 1)'
              \subseteq OlderThan(rec.trades \cap SellLots, j + 1)
        BY <1>1, <1>4, LotSets DEF OlderThan
      <3>2. OlderThan(CommittedSells, k + 1)'
              \subseteq OlderThan(CommittedSells, k + 1)
        BY <2>1 DEF OlderThan
      <3> QED BY <3>1, <3>2 DEF SoldUpTo
    <2>3. BoughtBefore(j, k) \subseteq (BoughtBefore(j, k))'
      BY <1>1, <1>4, LotSets DEF BoughtBefore, OlderThan
    <2>4. Cardinality(SoldUpTo(j, k)) <= Cardinality(BoughtBefore(j, k))
      BY DEF WalkInv, SalesFollowBuys
    <2>5. /\ Cardinality((SoldUpTo(j, k))') <= Cardinality(SoldUpTo(j, k))
          /\ Cardinality(BoughtBefore(j, k))
               <= Cardinality((BoughtBefore(j, k))')
      BY <2>2, <2>3, WalkSets, LotsMonotone
    <2>6. /\ Cardinality((SoldUpTo(j, k))') \in Nat
          /\ Cardinality(SoldUpTo(j, k)) \in Nat
          /\ Cardinality(BoughtBefore(j, k)) \in Nat
          /\ Cardinality((BoughtBefore(j, k))') \in Nat
      BY WalkSets, LotsFinite
    <2> QED BY <2>4, <2>5, <2>6
  <1> QED BY <1>7, <1>8

LEMMA WalkDispatch ==
  ASSUME SafeInv, SettledInv, WalkInv, TypeOK', NoOversell', NEW i \in Intents,
         led[i] = "none", Dispatch(i) \/ RateAbort(i),
         UNCHANGED <<bk, traded, saved, fills, faults>>
  PROVE  WalkInv'
  <1>0. TypeOK /\ BornInOrder BY DEF SafeInv, WalkInv
  <1>1. CASE Dispatch(i)
    <2>1. BornInOrder' BY <1>0, <1>1, InsertRanks DEF Dispatch
    <2>2. BatchShows'
      BY <1>0, <1>1, AccountKeepsBatch, ShowsFrame DEF Dispatch, WalkInv
    <2>3. SalesFollowBuys' BY <1>1, CoverDispatch
    <2> QED BY <2>1, <2>2, <2>3 DEF WalkInv
  <1>2. CASE RateAbort(i)
    <2>1. BornInOrder' /\ \A j \in Intents : j # i => born'[j] = born[j]
      BY <1>0, <1>2, InsertRanks DEF RateAbort
    <2>2. BatchShows' BY <1>2, ShowsFrame DEF RateAbort, WalkInv
    <2>3. SalesFollowBuys'
      BY <1>2, <2>1, CoverRow DEF RateAbort, TypeOK
    <2> QED BY <2>1, <2>2, <2>3 DEF WalkInv
  <1> QED BY <1>1, <1>2

\* Steps that leave the fills, the ranks and the exchange alone.
LEMMA WalkFrame ==
  ASSUME TypeOK, WalkInv, UNCHANGED <<wire, bk, traded, born, fills>>,
         \A j \in Intents : led'[j] = "none" <=> led[j] = "none",
         rec'.trades = rec.trades \/ rec'.trades = {},
         \/ rec'.pc # "ready"
         \/ /\ rec'.pc = rec.pc /\ rec'.trades = rec.trades
            /\ rec'.was = rec.was /\ rec'.rows = rec.rows
            /\ rec'.need = rec.need
  PROVE  WalkInv'
  <1>1. BornInOrder' BY DEF WalkInv, BornInOrder, Created
  <1>2. BatchShows' BY ShowsFrame DEF WalkInv
  <1>3. CommittedSells' = CommittedSells BY DEF CommittedSells
  <1>4. SalesFollowBuys' BY <1>3, CoverFrame DEF WalkInv
  <1> QED BY <1>1, <1>2, <1>4 DEF WalkInv

LEMMA WalkSubmit ==
  SafeInv /\ SettledInv /\ WalkInv /\ SafeInv' /\ SubmitNext => WalkInv'
  <1> SUFFICES ASSUME SafeInv, SettledInv, WalkInv, SafeInv', SubmitNext
               PROVE  WalkInv'
    OBVIOUS
  <1>0. TypeOK /\ TypeOK' /\ NoOversell' BY DEF SafeInv
  <1>1. ASSUME NEW i \in Intents, SubmitBuy(i) PROVE WalkInv'
    BY <1>0, <1>1, WalkDispatch DEF SubmitBuy
  <1>2. ASSUME NEW i \in Intents, SellDispatch(i) PROVE WalkInv'
    <2>1. led[i] = "none" BY <1>2 DEF SellDispatch, SafeInv, SubmitShape
    <2> QED BY <1>0, <1>2, <2>1, WalkDispatch DEF SellDispatch
  <1>3. ASSUME NEW i \in Intents, SubmitAck(i) \/ SubmitUnknown(i)
        PROVE  WalkInv'
    <2>1. led[i] = "SEND_UNKNOWN"
      BY <1>3 DEF SubmitAck, SubmitUnknown, SafeInv, SubmitShape
    <2>2. \A j \in Intents : led'[j] = "none" <=> led[j] = "none"
      BY <1>0, <1>3, <2>1 DEF SubmitAck, SubmitUnknown, TypeOK
    <2>3. AccountChanged /\ UNCHANGED <<wire, bk, traded, born, fills>>
      BY <1>3 DEF SubmitAck, SubmitUnknown, brokerVars
    <2> QED BY <1>0, <2>2, <2>3, AccountKeepsBatch, WalkFrame
  <1>4. ASSUME NEW i \in Intents, SubmitSell(i) \/ SellRefused(i)
        PROVE  WalkInv'
    <2>1. UNCHANGED <<wire, bk, traded, led, born, fills, rec>>
      BY <1>4 DEF SubmitSell, SellRefused, brokerVars, ledgerVars
    <2> QED BY <1>0, <2>1, WalkFrame
  <1>5. CASE ServePositions \/ PositionsFailed
    <2>1. UNCHANGED <<wire, bk, traded, led, born, fills, rec>>
      BY <1>5 DEF ServePositions, PositionsFailed, brokerVars, ledgerVars
    <2> QED BY <1>0, <2>1, WalkFrame
  <1> QED BY <1>1, <1>2, <1>3, <1>4, <1>5 DEF SubmitNext

----------------------------------------------------------------------------
(* reconcile *)

\* A resolved batch shows the order of every trade the ledger lacks.
LEMMA ResolvedShows ==
  ASSUME TypeOK, WalkInv, Resolved, NEW l \in rec.trades, l \notin fills
  PROVE  Owner[l] \in Walked /\ l \in Seen(Owner[l])
  <1>1. l \in Lots /\ Owner[l] \in Intents BY DEF TypeOK
  <1>2. rec.was[Owner[l]] # "none" /\ rec.rows[Owner[l]].st # "none"
    BY DEF WalkInv, BatchShows, Resolved
  <1> QED BY <1>1, <1>2 DEF Walked, Seen, LotsOf

LEMMA WalkRead ==
  ASSUME ~RowsLag, SafeInv, SettledInv, WalkInv,
         \/ ServeOrders \/ ServeTrades \/ Gather
         \/ \E i \in Intents : ServeLookup(i)
  PROVE  WalkInv'
  <1>a. UNCHANGED <<brokerVars, ledgerVars>>
    <2>1. ServeOrders => UNCHANGED <<brokerVars, ledgerVars>>
      BY Zenon DEF ServeOrders
    <2>2. \A i \in Intents :
            ServeLookup(i) => UNCHANGED <<brokerVars, ledgerVars>>
      BY Zenon DEF ServeLookup
    <2> QED BY <2>1, <2>2 DEF ServeTrades, Gather
  <1>0. TypeOK /\ UNCHANGED <<wire, bk, traded, led, born, fills>>
    BY <1>a DEF SafeInv, brokerVars, ledgerVars
  <1>1. BornInOrder' BY <1>0 DEF WalkInv, BornInOrder, Created
  <1>2. CommittedSells' = CommittedSells BY <1>0 DEF CommittedSells
  <1>3. CASE ServeOrders
    <2>1. PICK rows \in [Intents -> UNION {ServedRows(i) : i \in Intents}] :
            rec' = [rec EXCEPT !.reads = @ \cup {"orders"}, !.rows = rows]
      BY <1>3, Zenon DEF ServeOrders
    <2>2. rec.pc = "reading" BY <1>3, Zenon DEF ServeOrders
    <2>3. rec'.pc = "reading" /\ rec'.trades = rec.trades
      BY <1>0, <2>1, <2>2 DEF TypeOK
    <2> QED BY <1>0, <2>3, WalkFrame
  <1>4. CASE ServeTrades
    <2>1. rec'.pc = "reading" /\ rec'.trades = traded
      BY <1>0, <1>4 DEF ServeTrades, TypeOK
    <2>2. BatchShows' BY <2>1 DEF BatchShows
    <2>3. ASSUME NEW j \in Ranks, NEW k \in Ranks
          PROVE  \E m, n \in Ranks :
                   /\ (SoldUpTo(j, k))' \subseteq SoldUpTo(m, n)
                   /\ BoughtBefore(m, n) \subseteq (BoughtBefore(j, k))'
      <3>1. PICK n \in Ranks : n >= j /\ n >= k /\ n \in {j, k}
        BY RanksBound
      <3>2. (SoldUpTo(j, k))' \subseteq SoldUpTo(0, n)
        <4>1. OlderThan(traded \cap SellLots, j + 1)
                \subseteq OlderThan(CommittedSells, n + 1)
          BY <1>0, <3>1, RanksBound
             DEF OlderThan, CommittedSells, TypeOK, SellLots
        <4>2. OlderThan(CommittedSells, k + 1)
                \subseteq OlderThan(CommittedSells, n + 1)
          BY <1>0, <3>1, RanksBound
             DEF OlderThan, CommittedSells, TypeOK, SellLots
        <4>3. (SoldUpTo(j, k))' =
                (fills \cap SellLots) \cup OlderThan(traded \cap SellLots, j + 1)
                  \cup OlderThan(CommittedSells, k + 1)
          BY <1>0, <1>2, <2>1 DEF SoldUpTo, OlderThan
        <4> QED BY <4>1, <4>2, <4>3 DEF SoldUpTo
      <3>3. BoughtBefore(0, n) \subseteq (BoughtBefore(j, k))'
        <4>1. OlderThan(rec.trades \cap BuyLots, 0) = {}
          BY <1>0 DEF TypeOK, OlderThan, BuyLots
        <4> QED BY <1>0, <2>1, <3>1, <4>1 DEF BoughtBefore, OlderThan
      <3> QED BY <3>2, <3>3, RanksBound
    <2>4. SalesFollowBuys' BY <2>3, CoverKept DEF WalkInv
    <2> QED BY <1>1, <2>2, <2>4 DEF WalkInv
  <1>5. CASE Gather
    <2>1. /\ rec'.trades = rec.trades /\ rec'.rows = rec.rows
          /\ rec'.was = led
          /\ rec'.need = {i \in Intents : /\ rec.rows[i].st = "none"
                                          /\ led[i] \notin Closed
                                          /\ led[i] \notin {"none", "PENDING_SEND"}}
      BY <1>0, <1>5 DEF Gather, TypeOK
    <2>2. ASSUME NEW l \in rec.trades, l \notin fills
          PROVE  /\ led[Owner[l]] \notin Closed
                 /\ led[Owner[l]] \notin {"none", "PENDING_SEND"}
                 /\ Owner[l] \in Intents
      <3>1. l \in traded /\ l \in Lots /\ Owner[l] \in Intents
        BY <1>0 DEF SettledInv, FillsAreReal, TypeOK
      <3>2. led[Owner[l]] \notin {"none", "PENDING_SEND", "ABORTED"}
        BY <3>1 DEF SafeInv, SentIsRecorded
      <3>3. l \in LotsOf(Owner[l]) BY <3>1 DEF LotsOf
      <3>4. led[Owner[l]] \notin Closed \ {"ABORTED"}
        BY <2>2, <3>1, <3>3 DEF SettledInv, ClosedHasFills
      <3> QED BY <3>1, <3>2, <3>4
    <2>3. BatchShows' BY <1>0, <2>1, <2>2 DEF BatchShows
    <2>4. SalesFollowBuys'
      BY <1>0, <1>2, <2>1, CoverFrame DEF WalkInv
    <2> QED BY <1>1, <2>3, <2>4 DEF WalkInv
  <1>6. ASSUME NEW i \in Intents, ServeLookup(i) PROVE WalkInv'
    <2>a. PICK row \in ServedRows(i) :
            rec' = [rec EXCEPT !.need = @ \ {i}, !.rows[i] = row]
      BY <1>6, Zenon DEF ServeLookup
    <2>b. rec.pc = "ready" BY <1>6, Zenon DEF ServeLookup
    <2>0. row = RowOf(i) BY DEF ServedRows
    <2>1. /\ rec.pc = "ready" /\ rec'.pc = "ready"
          /\ rec'.trades = rec.trades /\ rec'.was = rec.was
          /\ rec'.need = rec.need \ {i}
          /\ rec'.rows = [rec.rows EXCEPT ![i] = RowOf(i)]
      BY <1>0, <2>0, <2>a, <2>b DEF TypeOK
    <2>2. ASSUME NEW l \in rec.trades, l \notin fills
          PROVE  /\ rec'.was[Owner[l]] # "none"
                 /\ rec'.rows[Owner[l]].st # "none" \/ Owner[l] \in rec'.need
      <3>1. l \in traded /\ Owner[l] \in Intents
        BY <1>0 DEF SettledInv, FillsAreReal, TypeOK
      <3>2. /\ rec.was[Owner[l]] # "none"
            /\ rec.rows[Owner[l]].st # "none" \/ Owner[l] \in rec.need
        BY <2>1, <2>2 DEF WalkInv, BatchShows
      <3>3. CASE Owner[l] = i
        <4>1. rec'.rows[i] = RowOf(i) BY <1>0, <2>1 DEF TypeOK
        <4>2. bk[i] # "none" BY <3>1, <3>3 DEF SafeInv, SentIsRecorded
        <4> QED BY <2>1, <3>2, <3>3, <4>1, <4>2 DEF RowOf
      <3>4. CASE Owner[l] # i
        <4>1. rec'.rows[Owner[l]] = rec.rows[Owner[l]]
          BY <1>0, <2>1, <3>1, <3>4 DEF TypeOK
        <4> QED BY <2>1, <3>2, <3>4, <4>1
      <3> QED BY <3>3, <3>4
    <2>3. BatchShows' BY <1>0, <2>1, <2>2 DEF BatchShows
    <2>4. SalesFollowBuys'
      BY <1>0, <1>2, <2>1, CoverFrame DEF WalkInv
    <2> QED BY <1>1, <2>3, <2>4 DEF WalkInv
  <1> QED BY <1>3, <1>4, <1>5, <1>6

\* Walking the rows neither creates nor removes one.
LEMMA WalkedHasRow ==
  ASSUME SafeInv, NEW i \in Intents
  PROVE  LedAfter(i) = "none" <=> led[i] = "none"
  <1>1. led[i] = "none" => rec.rows[i].st = "none"
    BY DEF SafeInv, KnownIsTrue, SentIsRecorded
  <1> QED BY <1>1 DEF LedAfter, Terminal

\* What the loop writes, up to rank m of the batch and not beyond.
LEMMA CoverWalk ==
  ASSUME SafeInv, WalkInv, Resolved, UNCHANGED <<wire, bk, traded, born>>,
         rec' = IdleRec, NEW m \in Ranks,
         fills \subseteq fills',
         fills' \subseteq fills \cup OlderThan(rec.trades, m + 1),
         OlderThan(rec.trades, m) \subseteq fills'
  PROVE  SalesFollowBuys'
  <1>0. TypeOK /\ CommittedSells' = CommittedSells /\ rec'.trades = {}
    BY IdleRecFields DEF SafeInv, CommittedSells
  <1>1. ASSUME NEW j \in Ranks, NEW k \in Ranks
        PROVE  \E p, n \in Ranks :
                 /\ (SoldUpTo(j, k))' \subseteq SoldUpTo(p, n)
                 /\ BoughtBefore(p, n) \subseteq (BoughtBefore(j, k))'
    <2>1. (SoldUpTo(j, k))' \subseteq SoldUpTo(m, k)
      BY <1>0 DEF SoldUpTo, OlderThan
    <2>2. BoughtBefore(m, k) \subseteq (BoughtBefore(j, k))'
      BY <1>0 DEF BoughtBefore, OlderThan
    <2> QED BY <2>1, <2>2
  <1> QED BY <1>1, CoverKept DEF WalkInv

LEMMA WalkRec ==
  ASSUME ~RowsLag, SafeInv, SettledInv, WalkInv, RecNext
  PROVE  WalkInv'
  <1>0. TypeOK BY DEF SafeInv
  <1>1. CASE RecApply
    <2>1. /\ Resolved /\ rec' = IdleRec /\ UNCHANGED <<wire, bk, traded, born>>
          /\ fills' = fills \cup UNION {Seen(i) : i \in Walked}
          /\ led' = [i \in Intents |->
                       IF i \in Walked THEN LedAfter(i) ELSE led[i]]
      BY <1>1 DEF RecApply, brokerVars
    <2>2. BornInOrder'
      BY <2>1, WalkedHasRow DEF WalkInv, BornInOrder, Created
    <2>3. BatchShows' BY <2>1, IdleRecFields DEF BatchShows
    <2>4. SalesFollowBuys'
      <3> DEFINE m == Cardinality(Intents) + 1
      <3>1. \A l \in rec.trades : l \in OlderThan(rec.trades, m)
        BY <1>0, RanksBound DEF OlderThan, TypeOK, WalkInv
      <3>2. m \in Ranks /\ OlderThan(rec.trades, m + 1) = rec.trades
        BY <1>0, RanksBound DEF OlderThan, TypeOK, WalkInv
      <3>3. fills \subseteq fills' /\ fills' \subseteq fills \cup rec.trades
        BY <2>1 DEF Seen
      <3>4. rec.trades \subseteq fills' BY <1>0, <2>1, ResolvedShows
      <3> HIDE DEF m
      <3>5. OlderThan(rec.trades, m) \subseteq rec.trades BY DEF OlderThan
      <3> QED BY <2>1, <3>2, <3>3, <3>4, <3>5, CoverWalk
    <2> QED BY <2>2, <2>3, <2>4 DEF WalkInv
  <1>2. CASE RecStart \/ ReadFailed \/ RecChanged
    <2>1. /\ UNCHANGED <<wire, bk, traded, led, born, fills>>
          /\ rec'.trades = {} /\ rec'.pc # "ready"
      BY <1>2, IdleRecFields
         DEF RecStart, ReadFailed, RecChanged, brokerVars, ledgerVars, IdleRec
    <2> QED BY <1>0, <2>1, WalkFrame
  <1> QED BY <1>1, <1>2, WalkRead DEF RecNext

----------------------------------------------------------------------------
(* Crashes *)

LEMMA WalkFault ==
  ASSUME SafeInv, SettledInv, WalkInv, SafeInv', FaultNext
  PROVE  WalkInv'
  <1>0. TypeOK /\ TypeOK' /\ BornInOrder BY DEF SafeInv, WalkInv
  <1>1. CASE Notified
    <2>1. UNCHANGED <<wire, bk, traded, led, born, fills>> /\ AccountChanged
      BY <1>1 DEF Notified, brokerVars, ledgerVars
    <2> QED BY <1>0, <2>1, AccountKeepsBatch, WalkFrame
  <1>2. Restart => rec' = IdleRec /\ rec'.trades = {} /\ rec'.pc # "ready"
    BY IdleRecFields DEF Restart
  <1>3. CASE Crash
    <2>1. UNCHANGED <<wire, bk, traded, led, born, fills>> /\ Restart
      BY <1>3 DEF Crash, brokerVars, ledgerVars
    <2> QED BY <1>0, <1>2, <2>1, WalkFrame
  <1>4. ASSUME NEW i \in Intents, CrashAfterCreate(i) PROVE WalkInv'
    <2>1. /\ led[i] = "none" /\ led' = [led EXCEPT ![i] = "PENDING_SEND"]
          /\ Insert(i) /\ UNCHANGED <<wire, bk, traded, fills>> /\ Restart
      BY <1>4 DEF CrashAfterCreate, brokerVars
    <2>2. BornInOrder' /\ \A j \in Intents : j # i => born'[j] = born[j]
      BY <1>0, <2>1, InsertRanks
    <2>3. BatchShows' BY <1>2, <2>1 DEF BatchShows
    <2>4. SalesFollowBuys' BY <1>0, <1>2, <2>1, <2>2, CoverRow DEF TypeOK
    <2> QED BY <2>2, <2>3, <2>4 DEF WalkInv
  <1>5. ASSUME NEW i \in Intents, CrashAfterAccepted(i) PROVE WalkInv'
    <2>1. led[i] = "SEND_UNKNOWN"
      BY <1>5 DEF CrashAfterAccepted, SafeInv, SubmitShape
    <2>2. \A j \in Intents : led'[j] = "none" <=> led[j] = "none"
      BY <1>0, <1>5, <2>1 DEF CrashAfterAccepted, TypeOK
    <2>3. Restart /\ UNCHANGED <<wire, bk, traded, born, fills>>
      BY <1>5 DEF CrashAfterAccepted, brokerVars
    <2> QED BY <1>0, <1>2, <2>2, <2>3, WalkFrame
  <1>6. ASSUME NEW i \in Intents, CrashInApply(i) PROVE WalkInv'
    <2> DEFINE done == {j \in Walked : born[j] < born[i]}
    <2>1. /\ Resolved /\ Restart /\ i \in Walked
          /\ UNCHANGED <<wire, bk, traded, born>>
          /\ led' = [j \in Intents |->
                       IF j \in done THEN LedAfter(j) ELSE led[j]]
      BY <1>6 DEF CrashInApply, brokerVars
    <2>2. PICK some \in SUBSET Seen(i) :
            fills' = fills \cup some \cup UNION {Seen(j) : j \in done}
      BY <1>6 DEF CrashInApply
    <2>3. BornInOrder'
      BY <2>1, WalkedHasRow DEF WalkInv, BornInOrder, Created
    <2>4. BatchShows' BY <1>2, <2>1 DEF BatchShows
    <2>5. born[i] \in Ranks /\ rec' = IdleRec
      BY <1>0, <1>2, <2>1, RanksBound
    <2>6. fills' \subseteq fills \cup OlderThan(rec.trades, born[i] + 1)
      <3>1. \A l \in Seen(i) : l \in OlderThan(rec.trades, born[i] + 1)
        BY <1>0 DEF Seen, OlderThan, LotsOf, TypeOK
      <3>2. \A j \in done : \A l \in Seen(j) :
              l \in OlderThan(rec.trades, born[i] + 1)
        BY <1>0 DEF Seen, OlderThan, LotsOf, TypeOK, Walked
      <3> QED BY <2>2, <3>1, <3>2
    <2>7. OlderThan(rec.trades, born[i]) \subseteq fills'
      <3> SUFFICES ASSUME NEW l \in rec.trades, l \notin fills,
                          born[Owner[l]] < born[i]
                   PROVE  l \in fills'
        BY <2>2 DEF OlderThan
      <3>1. Owner[l] \in done /\ l \in Seen(Owner[l])
        BY <1>0, <2>1, ResolvedShows
      <3> QED BY <2>2, <3>1
    <2>8. SalesFollowBuys'
      BY <2>1, <2>2, <2>5, <2>6, <2>7, CoverWalk
    <2> QED BY <2>3, <2>4, <2>8 DEF WalkInv
  <1> QED BY <1>1, <1>3, <1>4, <1>5, <1>6 DEF FaultNext

LEMMA WalkStep ==
  ASSUME ~RowsLag, SafeInv, SettledInv, WalkInv, [Next]_vars
  PROVE  WalkInv'
  <1>1. SafeInv' BY SafeStep
  <1>2. CASE UNCHANGED vars
    BY <1>2 DEF vars, WalkInv, BornInOrder, Created, BatchShows,
                SalesFollowBuys, SoldUpTo, BoughtBefore, OlderThan,
                CommittedSells
  <1>3. CASE Next
    BY <1>1, <1>3, WalkBroker, WalkSubmit, WalkRec, WalkFault DEF Next
  <1> QED BY <1>2, <1>3

\* The ledger never shows more sold than bought, wherever reconcile's loop was
\* cut off: a sale is only recorded after the buys that let it leave, since
\* its row is younger than theirs (ledger.py 219, orders.py 207-238).
THEOREM LedgerNotShortCorrect ==
  ASSUME ReportsFilled, ~RowsLag PROVE Spec => []LedgerNotShort
  <1>1. Init => SafeInv /\ SettledInv /\ WalkInv
    BY SafeInit, SettledInit, WalkInit
  <1>2. SafeInv /\ SettledInv /\ WalkInv /\ [Next]_vars
          => (SafeInv /\ SettledInv /\ WalkInv)'
    BY SafeStep, SettledStep, WalkStep
  <1>3. SafeInv /\ WalkInv => LedgerNotShort
    <2> SUFFICES ASSUME SafeInv, WalkInv PROVE LedgerNotShort OBVIOUS
    <2>1. Cardinality(SoldUpTo(0, 0)) <= Cardinality(BoughtBefore(0, 0))
      BY RanksBound DEF WalkInv, SalesFollowBuys
    <2>2. BoughtBefore(0, 0) = fills \cap BuyLots
      BY DEF BoughtBefore, OlderThan, SafeInv, TypeOK, BuyLots
    <2>3. fills \cap SellLots \subseteq SoldUpTo(0, 0) BY DEF SoldUpTo
    <2>4. Cardinality(fills \cap SellLots) <= Cardinality(SoldUpTo(0, 0))
      BY <2>3, RanksBound, WalkSets, LotsMonotone
    <2>5. /\ Cardinality(fills \cap SellLots) \in Nat
          /\ Cardinality(SoldUpTo(0, 0)) \in Nat
          /\ Cardinality(fills \cap BuyLots) \in Nat
      BY RanksBound, WalkSets, LotsFinite, LotSets,
         fills \cap SellLots \subseteq Lots, fills \cap BuyLots \subseteq Lots
    <2> QED BY <2>1, <2>2, <2>4, <2>5 DEF LedgerNotShort
  <1> QED BY <1>1, <1>2, <1>3, PTL DEF Spec
=============================================================================
