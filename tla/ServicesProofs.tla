--------------------------- MODULE ServicesProofs ---------------------------
(***************************************************************************)
(* Proofs about the services of MCServices, for any contracts, windows,    *)
(* sizes, prices, processes and bounds. The parts share no state: a step   *)
(* of one leaves the others alone, and each has its own invariant.         *)
(***************************************************************************)
EXTENDS MCServices, Sequences, Sums

----------------------------------------------------------------------------
(* A step of the composition is a step of a part, or leaves it alone *)

LEMMA PartsStart ==
  Init => /\ Feed!Init /\ Recovery!Init /\ Rates!Init /\ Tokens!Init /\ Reads!Init
          /\ Deploy!Init /\ Paper!Init /\ Activation!Init
  BY DEF Init

LEMMA PartsStep ==
  [Next]_vars =>
    /\ Feed!Next \/ UNCHANGED feed
    /\ Recovery!Next \/ UNCHANGED recovery
    /\ Rates!Next \/ UNCHANGED rates
    /\ Tokens!Next \/ UNCHANGED tokens
    /\ Reads!Next \/ UNCHANGED turns
    /\ Deploy!Next \/ UNCHANGED upgrade
    /\ Paper!Next \/ UNCHANGED simulation
    /\ Activation!Next \/ UNCHANGED admission
  BY DEF Next, vars

----------------------------------------------------------------------------
(* Rates: rounding up *)

LEMMA DivBounds ==
  ASSUME NEW a \in Int, NEW c \in Nat \ {0}
  PROVE  /\ a \div c \in Int
         /\ c * (a \div c) <= a /\ a < c * (a \div c) + c
  OBVIOUS

LEMMA DivUnique ==
  ASSUME NEW a \in Int, NEW c \in Nat \ {0}, NEW q \in Int, c * q <= a, a < c * q + c
  PROVE  a \div c = q
  OBVIOUS

LEMMA Times ==
  ASSUME NEW c \in Nat \ {0}, NEW x \in Int, NEW y \in Int, x <= y
  PROVE  c * x <= c * y
  OBVIOUS

LEMMA RatesConstants ==
  /\ Child \in Nat \ {0} /\ Sizes \subseteq Nat /\ MaxOrders \in Nat /\ MaxTime \in Nat
  /\ \A w \in Windows : w.limit \in Nat
  BY ServicesAssumption

USE RatesConstants

\* What must be sold in more lots takes no fewer sales.
LEMMA SalesMonotonic ==
  ASSUME NEW p \in Int, NEW q \in Int, p <= q
  PROVE  Rates!Sales(p) \in Int /\ Rates!Sales(q) \in Int /\ Rates!Sales(p) <= Rates!Sales(q)
  <1> DEFINE x == Rates!Sales(p)
             y == Rates!Sales(q)
  <1>1. x \in Int /\ y \in Int BY RatesConstants, DivBounds DEF Rates!Sales
  <1>2. Child * x <= p + Child - 1 /\ q + Child - 1 < Child * y + Child
    BY RatesConstants, DivBounds DEF Rates!Sales
  <1> HIDE DEF x, y
  <1>3. ASSUME y + 1 <= x PROVE FALSE
    <2>1. Child * (y + 1) <= Child * x BY RatesConstants, <1>1, <1>3, Times
    <2>2. Child * (y + 1) = Child * y + Child BY RatesConstants, <1>1
    <2>3. Child * x \in Int /\ Child * y \in Int BY RatesConstants, <1>1
    <2> QED BY RatesConstants, <1>2, <2>1, <2>2, <2>3
  <1> QED BY <1>1, <1>3 DEF x, y

\* A sale of a whole child is one sale less.
LEMMA SalesChild ==
  ASSUME NEW p \in Int
  PROVE  Rates!Sales(p) \in Int /\ Rates!Sales(p - Child) = Rates!Sales(p) - 1
  <1> DEFINE x == Rates!Sales(p)
  <1>1. x \in Int BY RatesConstants, DivBounds DEF Rates!Sales
  <1>2. Child * x <= p + Child - 1 /\ p + Child - 1 < Child * x + Child
    BY RatesConstants, DivBounds DEF Rates!Sales
  <1> HIDE DEF x
  <1>3. Child * (x - 1) = Child * x - Child /\ Child * x \in Int BY RatesConstants, <1>1
  <1>4. (p - Child) + Child - 1 \in Int /\ x - 1 \in Int BY RatesConstants, <1>1
  <1>5. /\ Child * (x - 1) <= (p - Child) + Child - 1
        /\ (p - Child) + Child - 1 < Child * (x - 1) + Child
    BY RatesConstants, <1>1, <1>2, <1>3
  <1>6. ((p - Child) + Child - 1) \div Child = x - 1 BY RatesConstants, <1>4, <1>5, DivUnique
  <1> QED BY <1>1, <1>6 DEF x, Rates!Sales

LEMMA SalesNone == Rates!Sales(0) = 0
  BY RatesConstants, DivUnique DEF Rates!Sales

----------------------------------------------------------------------------
(* Rates: what is asked for *)

Rows(f, c) ==
  /\ c \in 0..MaxOrders
  /\ f \in [1..MaxOrders -> [state : {"none", "aborted", "pending", "closed"},
              side : {"BUY", "SELL"}, lots : Nat, at : 0..MaxTime, filled : Nat]]
  /\ \A i \in 1..MaxOrders : i > c => f[i].state = "none"

Loaded(f, S) == SumFunctionOnSet([i \in S |-> f[i].lots], S)
PendingOf(f, c, side) == {i \in 1..c : f[i].state = "pending" /\ f[i].side = side}
Load(f, side) ==
  [i \in 1..MaxOrders |-> IF f[i].state = "pending" /\ f[i].side = side THEN f[i].lots ELSE 0]
\* The lots of the pending orders of one side, as one sum over all there may be.
Asked(f, side) == SumFunctionOnSet(Load(f, side), 1..MaxOrders)

LEMMA LotsAreLoaded ==
  /\ \A side : Rates!Lots(Rates!Pending(side)) = Loaded(intents, PendingOf(intents, count, side))
  /\ \A side : Rates!Lots(Rates!Pending(side))' = Loaded(intents', PendingOf(intents', count', side))
  BY DEF Rates!Lots, Rates!Pending, Rates!Intents, Loaded, PendingOf,
     Rates!SumFunctionOnSet, SumFunctionOnSet, Rates!FoldFunctionOnSet, FoldFunctionOnSet,
     Rates!MapThenFoldSet, MapThenFoldSet

LEMMA SlotsFinite == IsFiniteSet(1..MaxOrders)
  BY RatesConstants, FS_Interval

LEMMA LoadType ==
  ASSUME NEW f, NEW c, Rows(f, c), NEW side
  PROVE  /\ \A i \in 1..MaxOrders : Load(f, side)[i] \in Nat
         /\ IntOn(Load(f, side), 1..MaxOrders)
         /\ Asked(f, side) \in Nat
  <1>1. \A i \in 1..MaxOrders : Load(f, side)[i] \in Nat BY DEF Load, Rows
  <1>2. IntOn(Load(f, side), 1..MaxOrders) BY <1>1 DEF IntOn
  <1>3. Asked(f, side) \in Nat BY <1>1, SlotsFinite, SumNat DEF Asked
  <1> QED BY <1>1, <1>2, <1>3

LEMMA LoadedIsAsked ==
  ASSUME NEW f, NEW c, Rows(f, c), NEW side
  PROVE  Loaded(f, PendingOf(f, c, side)) = Asked(f, side)
  <1> DEFINE P == PendingOf(f, c, side)
             F == [i \in P |-> f[i].lots]
  <1>1. P \subseteq 1..MaxOrders BY DEF PendingOf, Rows
  <1>2. IsFiniteSet(P) BY <1>1, SlotsFinite, FS_Subset
  <1>3. \A i \in P : Load(f, side)[i] = F[i] BY <1>1 DEF PendingOf, Load
  <1>4. \A i \in (1..MaxOrders) \ P : Load(f, side)[i] = 0
    BY DEF PendingOf, Load, Rows
  <1>5. IntOn(F, P) BY <1>1 DEF IntOn, Rows
  <1> HIDE DEF P, F
  <1>6. Asked(f, side) = SumFunctionOnSet(Load(f, side), P)
    BY <1>1, <1>4, SlotsFinite, LoadType, SumRestrict DEF Asked
  <1>7. SumFunctionOnSet(F, P) = SumFunctionOnSet(Load(f, side), P)
    BY <1>2, <1>3, <1>5, SumSame
  <1> QED BY <1>6, <1>7 DEF Loaded, P, F

\* What one change of an order does to what is asked for.
LEMMA AskedChanges ==
  ASSUME NEW f, NEW c, Rows(f, c), NEW g, NEW d, Rows(g, d), NEW side,
         NEW k \in 1..MaxOrders, \A i \in 1..MaxOrders \ {k} : g[i] = f[i]
  PROVE  Asked(g, side) = Asked(f, side) + Load(g, side)[k] - Load(f, side)[k]
  <1>1. \A i \in (1..MaxOrders) \ {k} : Load(g, side)[i] = Load(f, side)[i] BY DEF Load
  <1>2. IntOn(Load(f, side), 1..MaxOrders) /\ IntOn(Load(g, side), 1..MaxOrders) BY LoadType
  <1> QED BY <1>1, <1>2, SlotsFinite, SumUpdate DEF Asked

----------------------------------------------------------------------------
(* Rates: the room for exits *)

KeptOf(f, c, t, w) ==
  {i \in 1..c : /\ f[i].state \in {"pending", "closed"} /\ t - f[i].at < w.span
                /\ ~(f[i].side = "SELL" /\ f[i].filled < Child)}
Sound(o) ==
  /\ o.state = "pending" => o.filled = 0
  /\ o.filled <= o.lots
  /\ o.side = "SELL" => o.lots <= Child
Room(f, c, t, h) ==
  \A w \in Windows :
    Cardinality(KeptOf(f, c, t, w)) + Rates!Sales(Asked(f, "BUY") + h) <= w.limit

\* No sale is of more than a child, the pending sales are of what is held, and every
\* window has room for the sales to come beside the events that are no wasted sales.
RoomInv ==
  /\ now \in 0..MaxTime /\ held \in Nat
  /\ Rows(intents, count)
  /\ \A i \in 1..MaxOrders : Sound(intents[i])
  /\ Asked(intents, "SELL") <= held
  /\ Room(intents, count, now, held)

LEMMA KeptType ==
  ASSUME NEW f, NEW c, Rows(f, c), NEW t, NEW w
  PROVE  /\ KeptOf(f, c, t, w) \subseteq 1..c /\ IsFiniteSet(KeptOf(f, c, t, w))
         /\ Cardinality(KeptOf(f, c, t, w)) \in Nat
  <1>1. KeptOf(f, c, t, w) \subseteq 1..c /\ 1..c \subseteq 1..MaxOrders BY DEF KeptOf, Rows
  <1>2. IsFiniteSet(KeptOf(f, c, t, w)) BY <1>1, SlotsFinite, FS_Subset
  <1> QED BY <1>1, <1>2, FS_CardinalityType

LEMMA CountMonotone ==
  ASSUME NEW T, IsFiniteSet(T), NEW S, S \subseteq T
  PROVE  IsFiniteSet(S) /\ Cardinality(S) \in Nat /\ Cardinality(T) \in Nat
         /\ Cardinality(S) <= Cardinality(T)
  BY FS_Subset, FS_CardinalityType

LEMMA CountOneMore ==
  ASSUME NEW T, IsFiniteSet(T), NEW k, NEW S, S \subseteq T \cup {k}
  PROVE  Cardinality(S) \in Nat /\ Cardinality(S) <= Cardinality(T) + 1
  <1>1. Cardinality(T) \in Nat BY FS_CardinalityType
  <1>2. /\ IsFiniteSet(T \cup {k})
        /\ Cardinality(T \cup {k}) = IF k \in T THEN Cardinality(T) ELSE Cardinality(T) + 1
    BY FS_AddElement
  <1>3. Cardinality(T \cup {k}) <= Cardinality(T) + 1 BY <1>1, <1>2
  <1>4. Cardinality(S) \in Nat /\ Cardinality(T \cup {k}) \in Nat
        /\ Cardinality(S) <= Cardinality(T \cup {k})
    BY <1>2, CountMonotone
  <1> QED BY <1>1, <1>3, <1>4

LEMMA RoomShrinks ==
  ASSUME NEW f, NEW c, Rows(f, c), NEW t, NEW h \in Nat, Room(f, c, t, h),
         NEW g, NEW d, Rows(g, d), NEW u, NEW j \in Nat,
         Asked(g, "BUY") + j <= Asked(f, "BUY") + h,
         \A w \in Windows : KeptOf(g, d, u, w) \subseteq KeptOf(f, c, t, w)
  PROVE  Room(g, d, u, j)
  <1> SUFFICES ASSUME NEW w \in Windows
               PROVE  Cardinality(KeptOf(g, d, u, w)) + Rates!Sales(Asked(g, "BUY") + j) <= w.limit
    BY DEF Room
  <1>1. /\ Cardinality(KeptOf(g, d, u, w)) \in Nat /\ Cardinality(KeptOf(f, c, t, w)) \in Nat
        /\ Cardinality(KeptOf(g, d, u, w)) <= Cardinality(KeptOf(f, c, t, w))
    BY KeptType, CountMonotone
  <1>2. Asked(g, "BUY") + j \in Int /\ Asked(f, "BUY") + h \in Int BY LoadType
  <1>3. /\ Rates!Sales(Asked(g, "BUY") + j) \in Int /\ Rates!Sales(Asked(f, "BUY") + h) \in Int
        /\ Rates!Sales(Asked(g, "BUY") + j) <= Rates!Sales(Asked(f, "BUY") + h)
    BY <1>2, SalesMonotonic
  <1>4. Cardinality(KeptOf(f, c, t, w)) + Rates!Sales(Asked(f, "BUY") + h) <= w.limit BY DEF Room
  <1>5. w.limit \in Nat BY RatesConstants
  <1> QED BY <1>1, <1>3, <1>4, <1>5

LEMMA RoomStart == Rates!Init => RoomInv
  <1> SUFFICES ASSUME Rates!Init PROVE RoomInv OBVIOUS
  <1>1. now = 0 /\ count = 0 /\ held = 0 /\ intents = [i \in 1..MaxOrders |-> Rates!NoIntent]
    BY DEF Rates!Init
  <1>2. Rows(intents, count) BY <1>1 DEF Rows, Rates!NoIntent
  <1>3. \A i \in 1..MaxOrders : Sound(intents[i]) BY <1>1 DEF Sound, Rates!NoIntent
  <1>4. \A side : Asked(intents, side) = 0
    <2> TAKE side
    <2>1. PendingOf(intents, count, side) = {} BY <1>1 DEF PendingOf
    <2>2. Loaded(intents, {}) = 0 BY SumEmpty DEF Loaded
    <2> QED BY <1>2, <2>1, <2>2, LoadedIsAsked
  <1>5. ASSUME NEW w \in Windows
        PROVE  Cardinality(KeptOf(intents, count, now, w)) + Rates!Sales(Asked(intents, "BUY") + held)
                 <= w.limit
    <2>1. KeptOf(intents, count, now, w) = {} BY <1>1 DEF KeptOf
    <2>2. Cardinality(KeptOf(intents, count, now, w)) = 0 BY <2>1, FS_EmptySet
    <2>3. Asked(intents, "BUY") + held = 0 BY <1>1, <1>4
    <2> QED BY <2>2, <2>3, SalesNone
  <1> QED BY <1>1, <1>2, <1>3, <1>4, <1>5 DEF RoomInv, Room

LEMMA RoomCreate ==
  ASSUME RoomInv, NEW side \in {"BUY", "SELL"}, NEW n \in Nat, Rates!Create(side, n),
         side = "SELL" => n <= Child /\ n <= held - Asked(intents, "SELL")
  PROVE  RoomInv'
  <1> DEFINE k == count + 1
             fits == Rates!Fits(side, n)
             o == [state |-> IF fits THEN "pending" ELSE "aborted",
                   side |-> side, lots |-> n, at |-> now, filled |-> 0]
  <1>1. /\ now \in 0..MaxTime /\ held \in Nat /\ Rows(intents, count)
        /\ \A i \in 1..MaxOrders : Sound(intents[i])
        /\ Asked(intents, "SELL") <= held /\ Room(intents, count, now, held)
    BY DEF RoomInv
  <1>2. /\ count < MaxOrders /\ count' = k /\ now' = now /\ held' = held
        /\ intents' = [intents EXCEPT ![k] = o]
    BY DEF Rates!Create
  <1>3. k \in 1..MaxOrders /\ count \in 0..MaxOrders /\ k \in 0..MaxOrders BY <1>1, <1>2 DEF Rows
  <1>4. o \in [state : {"none", "aborted", "pending", "closed"},
              side : {"BUY", "SELL"}, lots : Nat, at : 0..MaxTime, filled : Nat]
    BY <1>1
  <1>5. /\ o.state = (IF fits THEN "pending" ELSE "aborted") /\ o.side = side /\ o.lots = n
        /\ o.at = now /\ o.filled = 0
    OBVIOUS
  <1>6. intents[k].state = "none" BY <1>1, <1>3 DEF Rows
  <1> HIDE DEF o, fits
  <1>7. intents'[k] = o /\ \A i \in 1..MaxOrders \ {k} : intents'[i] = intents[i]
    BY <1>1, <1>2, <1>3 DEF Rows
  <1>8. Rows(intents', count')
    <2>1. intents' \in [1..MaxOrders -> [state : {"none", "aborted", "pending", "closed"},
              side : {"BUY", "SELL"}, lots : Nat, at : 0..MaxTime, filled : Nat]]
      BY <1>1, <1>2, <1>4 DEF Rows
    <2>2. \A i \in 1..MaxOrders : i > k => intents'[i].state = "none"
      BY <1>1, <1>3, <1>7 DEF Rows
    <2> QED BY <1>2, <1>3, <2>1, <2>2 DEF Rows
  <1>9. \A i \in 1..MaxOrders : Sound(intents'[i])
    <2>1. Sound(o) BY <1>5, RatesConstants DEF Sound
    <2> QED BY <1>1, <1>7, <2>1
  <1>10. \A s : Asked(intents', s) =
                  Asked(intents, s) + (IF fits /\ side = s THEN n ELSE 0)
    <2> TAKE s
    <2>1. Asked(intents', s) = Asked(intents, s) + Load(intents', s)[k] - Load(intents, s)[k]
      BY <1>1, <1>3, <1>7, <1>8, AskedChanges
    <2>2. Load(intents, s)[k] = 0 BY <1>3, <1>6 DEF Load
    <2>3. Load(intents', s)[k] = IF fits /\ side = s THEN n ELSE 0
      BY <1>3, <1>5, <1>7 DEF Load
    <2>4. Asked(intents, s) \in Nat BY <1>1, LoadType
    <2> QED BY <2>1, <2>2, <2>3, <2>4
  <1>11. \A s : Asked(intents, s) \in Nat BY <1>1, LoadType
  <1>12. Asked(intents', "SELL") <= held'
    <2>1. CASE fits /\ side = "SELL"
      <3>1. Asked(intents', "SELL") = Asked(intents, "SELL") + n BY <1>10, <2>1
      <3>2. n <= held - Asked(intents, "SELL") BY <2>1
      <3> QED BY <1>1, <1>2, <1>11, <3>1, <3>2
    <2>2. CASE ~(fits /\ side = "SELL")
      <3>1. Asked(intents', "SELL") = Asked(intents, "SELL") BY <1>10, <1>11, <2>2
      <3> QED BY <1>1, <1>2, <3>1
    <2> QED BY <2>1, <2>2
  <1>13. ASSUME NEW w, NEW i \in KeptOf(intents', count', now', w), i # k
         PROVE  i \in KeptOf(intents, count, now, w)
    <2>1. i \in 1..MaxOrders \ {k} /\ i \in 1..count BY <1>2, <1>3, <1>13 DEF KeptOf
    <2>2. intents'[i] = intents[i] BY <1>7, <2>1
    <2> QED BY <1>2, <1>13, <2>1, <2>2 DEF KeptOf
  <1>14. Room(intents', count', now', held')
    <2>1. CASE ~fits \/ side = "SELL"
      <3>1. \A w : k \notin KeptOf(intents', count', now', w)
        BY <1>5, <1>7, <2>1, RatesConstants DEF KeptOf
      <3>2. \A w \in Windows :
              KeptOf(intents', count', now', w) \subseteq KeptOf(intents, count, now, w)
        BY <1>13, <3>1
      <3>3. Asked(intents', "BUY") + held' <= Asked(intents, "BUY") + held
        <4>1. Asked(intents', "BUY") = Asked(intents, "BUY") BY <1>10, <1>11, <2>1
        <4> QED BY <1>1, <1>2, <1>11, <4>1
      <3>4. held' \in Nat BY <1>1, <1>2
      <3> QED BY <1>1, <1>8, <3>2, <3>3, <3>4, RoomShrinks
    <2>2. CASE fits /\ side = "BUY"
      <3> SUFFICES ASSUME NEW w \in Windows
                   PROVE  Cardinality(KeptOf(intents', count', now', w))
                            + Rates!Sales(Asked(intents', "BUY") + held') <= w.limit
        BY DEF Room
      <3> DEFINE sales == Rates!Sales(n + Asked(intents, "BUY") + held)
                 E == Rates!Events(w)
      <3>1. Asked(intents', "BUY") + held' = n + Asked(intents, "BUY") + held
        <4>1. Asked(intents', "BUY") = Asked(intents, "BUY") + n BY <1>10, <2>2
        <4> QED BY <1>1, <1>2, <1>11, <4>1
      <3>2. sales \in Int
        <4>1. n + Asked(intents, "BUY") + held \in Int BY <1>1, <1>11
        <4> QED BY <4>1, SalesMonotonic
      <3>3. Rates!Potential(n) = n + Asked(intents, "BUY") + held
        <4>1. Rates!Lots(Rates!Pending("BUY")) = Asked(intents, "BUY")
          BY <1>1, LotsAreLoaded, LoadedIsAsked
        <4> QED BY <4>1 DEF Rates!Potential
      <3>4. Rates!Used(w) + 1 + Rates!Max({1, sales}) <= w.limit
        BY <2>2, <3>3 DEF fits, Rates!Fits, Rates!Reserve
      <3> HIDE DEF sales
      <3>5. Rates!Max({1, sales}) \in Int /\ Rates!Max({1, sales}) >= sales
        <4>1. \E x \in {1, sales} : \A y \in {1, sales} : x >= y BY <3>2
        <4>2. /\ Rates!Max({1, sales}) \in {1, sales}
              /\ \A y \in {1, sales} : Rates!Max({1, sales}) >= y
          BY <4>1 DEF Rates!Max
        <4> QED BY <3>2, <4>2
      <3>6. E \subseteq 1..count BY DEF Rates!Events, Rates!Intents
      <3>7. 1..count \subseteq 1..MaxOrders BY <1>3
      <3>8. IsFiniteSet(E) /\ Cardinality(E) \in Nat
        BY <3>6, <3>7, SlotsFinite, CountMonotone
      <3>9. KeptOf(intents, count, now, w) \subseteq E
        BY DEF KeptOf, Rates!Events, Rates!Intents
      <3>10. KeptOf(intents', count', now', w) \subseteq E \cup {k} BY <1>13, <3>9
      <3> HIDE DEF E
      <3>11. /\ Cardinality(KeptOf(intents', count', now', w)) \in Nat
             /\ Cardinality(KeptOf(intents', count', now', w)) <= Cardinality(E) + 1
        BY <3>8, <3>10, CountOneMore
      <3>12. Rates!Used(w) = Cardinality(E) BY DEF E, Rates!Used, Rates!Cardinality, Cardinality
      <3>13. Rates!Sales(Asked(intents', "BUY") + held') = sales BY <3>1 DEF sales
      <3>14. w.limit \in Nat BY RatesConstants
      <3> QED BY <3>2, <3>4, <3>5, <3>8, <3>11, <3>12, <3>13, <3>14
    <2> QED BY <2>1, <2>2
  <1> QED BY <1>1, <1>2, <1>8, <1>9, <1>12, <1>14 DEF RoomInv

LEMMA RoomResolve ==
  ASSUME RoomInv, NEW i, NEW n, Rates!Resolve(i, n)
  PROVE  RoomInv'
  <1> DEFINE o == intents'[i]
             A(s) == Asked(intents, s)
  <1>1. /\ now \in 0..MaxTime /\ held \in Nat /\ Rows(intents, count)
        /\ \A j \in 1..MaxOrders : Sound(intents[j])
        /\ Asked(intents, "SELL") <= held /\ Room(intents, count, now, held)
    BY DEF RoomInv
  <1>2. /\ i \in 1..count /\ intents[i].state = "pending" /\ n \in 0..intents[i].lots
        /\ now' = now /\ count' = count
        /\ intents' = [intents EXCEPT ![i].state = "closed", ![i].filled = n]
        /\ held' = IF intents[i].side = "BUY" THEN held + n ELSE held - n
    BY DEF Rates!Resolve, Rates!Intents
  <1>3. i \in 1..MaxOrders /\ count \in 0..MaxOrders BY <1>1, <1>2 DEF Rows
  <1>4. /\ intents[i].lots \in Nat /\ intents[i].side \in {"BUY", "SELL"}
        /\ n \in Nat /\ n <= intents[i].lots
        /\ intents[i].side = "SELL" => intents[i].lots <= Child
        /\ intents[i].filled = 0
    BY <1>1, <1>2, <1>3 DEF Rows, Sound
  <1>5. /\ o.state = "closed" /\ o.side = intents[i].side /\ o.lots = intents[i].lots
        /\ o.at = intents[i].at /\ o.filled = n
    BY <1>1, <1>2, <1>3 DEF Rows
  <1>6. \A j \in 1..MaxOrders \ {i} : intents'[j] = intents[j]
    BY <1>1, <1>2, <1>3 DEF Rows
  <1>7. Rows(intents', count')
    <2>1. intents' \in [1..MaxOrders -> [state : {"none", "aborted", "pending", "closed"},
              side : {"BUY", "SELL"}, lots : Nat, at : 0..MaxTime, filled : Nat]]
      <3> DEFINE R == [state : {"none", "aborted", "pending", "closed"},
                       side : {"BUY", "SELL"}, lots : Nat, at : 0..MaxTime, filled : Nat]
      <3>1. intents \in [1..MaxOrders -> R] BY <1>1 DEF Rows
      <3>2. intents[i] \in R BY <1>3, <3>1
      <3>3. o = [intents[i] EXCEPT !.state = "closed", !.filled = n]
        <4> HIDE DEF R
        <4> QED BY <1>2, <1>3, <3>1
      <3>4. o \in R BY <1>4, <3>2, <3>3
      <3> HIDE DEF R, o
      <3>5. intents' = [intents EXCEPT ![i] = o]
        <4>1. intents' = [intents EXCEPT ![i] = [intents[i] EXCEPT !.state = "closed", !.filled = n]]
          BY <1>2, <1>3, <3>1
        <4> QED BY <3>3, <4>1
      <3>6. intents' \in [1..MaxOrders -> R] BY <3>1, <3>4, <3>5
      <3> QED BY <3>6 DEF R
    <2>2. \A j \in 1..MaxOrders : j > count => intents'[j].state = "none"
      BY <1>1, <1>2, <1>3, <1>6 DEF Rows
    <2> QED BY <1>2, <1>3, <2>1, <2>2 DEF Rows
  <1> HIDE DEF o
  <1>8. \A j \in 1..MaxOrders : Sound(intents'[j])
    <2>1. Sound(o) BY <1>4, <1>5 DEF Sound
    <2> QED BY <1>1, <1>3, <1>6, <2>1 DEF o
  <1>9. \A s : A(s) \in Nat BY <1>1, LoadType
  <1>10. /\ Asked(intents', intents[i].side) = A(intents[i].side) - intents[i].lots
         /\ intents[i].lots <= A(intents[i].side)
    <2> DEFINE s == intents[i].side
    <2>1. Load(intents, s)[i] = intents[i].lots BY <1>2, <1>3 DEF Load
    <2>2. Load(intents', s)[i] = 0 BY <1>3, <1>5 DEF Load, o
    <2> HIDE DEF s
    <2>3. Asked(intents', s) = A(s) + Load(intents', s)[i] - Load(intents, s)[i]
      BY <1>1, <1>3, <1>6, <1>7, AskedChanges
    <2>4. \A j \in 1..MaxOrders : Load(intents, s)[j] \in Nat BY <1>1, LoadType
    <2>5. Load(intents, s)[i] <= A(s) BY <1>3, <2>4, SlotsFinite, SumNat DEF Asked
    <2>6. A(s) \in Nat BY <1>9
    <2> HIDE DEF A
    <2>7. Asked(intents', s) = A(s) - intents[i].lots BY <1>4, <2>1, <2>2, <2>3, <2>6
    <2> QED BY <2>1, <2>5, <2>7 DEF s
  <1>11. \A s : s # intents[i].side => Asked(intents', s) = A(s)
    <2> SUFFICES ASSUME NEW s, s # intents[i].side PROVE Asked(intents', s) = A(s) OBVIOUS
    <2>1. Load(intents, s)[i] = 0 BY <1>3 DEF Load
    <2>2. Load(intents', s)[i] = 0 BY <1>3, <1>5 DEF Load, o
    <2>3. Asked(intents', s) = A(s) + Load(intents', s)[i] - Load(intents, s)[i]
      BY <1>1, <1>3, <1>6, <1>7, AskedChanges
    <2>4. A(s) \in Nat BY <1>9
    <2> HIDE DEF A
    <2> QED BY <2>1, <2>2, <2>3, <2>4
  <1>12. \A w : \A j \in KeptOf(intents', count', now', w) :
           j # i => j \in KeptOf(intents, count, now, w)
    <2> TAKE w
    <2> TAKE j \in KeptOf(intents', count', now', w)
    <2> HAVE j # i
    <2>1. j \in 1..count /\ j \in 1..MaxOrders BY <1>2, <1>3 DEF KeptOf
    <2>2. intents'[j] = intents[j] BY <1>6, <2>1
    <2> QED BY <1>2, <2>1, <2>2 DEF KeptOf
  <1> HIDE DEF A
  <1>13. CASE intents[i].side = "BUY"
    <2>1. held' = held + n /\ held' \in Nat BY <1>1, <1>2, <1>4, <1>13
    <2>2. Asked(intents', "BUY") = A("BUY") - intents[i].lots BY <1>10, <1>13
    <2>3. Asked(intents', "SELL") = A("SELL") BY <1>11, <1>13
    <2>4. Asked(intents', "SELL") <= held' BY <1>1, <1>4, <1>9, <2>1, <2>3 DEF A
    <2>5. Asked(intents', "BUY") + held' <= A("BUY") + held BY <1>1, <1>4, <1>9, <2>1, <2>2
    <2>6. ASSUME NEW w, i \in KeptOf(intents', count', now', w)
          PROVE  i \in KeptOf(intents, count, now, w)
      <3>1. now' - o.at < w.span BY <2>6 DEF KeptOf, o
      <3>2. now - intents[i].at < w.span BY <1>2, <1>5, <3>1
      <3>3. intents[i].side # "SELL" BY <1>13
      <3> QED BY <1>2, <3>2, <3>3 DEF KeptOf
    <2>7. \A w \in Windows :
            KeptOf(intents', count', now', w) \subseteq KeptOf(intents, count, now, w)
      BY <1>12, <2>6
    <2>8. Room(intents', count', now', held')
      BY <1>1, <1>7, <2>1, <2>5, <2>7, RoomShrinks DEF A
    <2> QED BY <1>1, <1>2, <1>7, <1>8, <2>1, <2>4, <2>8 DEF RoomInv
  <1>14. CASE intents[i].side = "SELL"
    <2>1. held' = held - n BY <1>2, <1>14
    <2>2. Asked(intents', "SELL") = A("SELL") - intents[i].lots /\ intents[i].lots <= A("SELL")
      BY <1>10, <1>14
    <2>3. Asked(intents', "BUY") = A("BUY") BY <1>11, <1>14
    <2>4. A("SELL") \in Nat /\ A("BUY") \in Nat /\ A("SELL") <= held BY <1>1, <1>9 DEF A
    <2>5. held' \in Nat /\ Asked(intents', "SELL") <= held' BY <1>1, <1>4, <2>1, <2>2, <2>4
    <2>6. CASE n < Child
      <3>1. ASSUME NEW w PROVE i \notin KeptOf(intents', count', now', w)
        BY <1>5, <1>14, <2>6 DEF KeptOf, o
      <3>2. \A w \in Windows :
              KeptOf(intents', count', now', w) \subseteq KeptOf(intents, count, now, w)
        BY <1>12, <3>1
      <3>3. Asked(intents', "BUY") + held' <= A("BUY") + held BY <1>1, <1>4, <2>1, <2>3, <2>4
      <3>4. Room(intents', count', now', held')
        BY <1>1, <1>7, <2>5, <3>2, <3>3, RoomShrinks DEF A
      <3> QED BY <1>1, <1>2, <1>7, <1>8, <2>5, <3>4 DEF RoomInv
    <2>7. CASE ~(n < Child)
      <3>1. n = Child
        <4>1. intents[i].lots <= Child BY <1>4, <1>14
        <4> QED BY <1>4, <2>7, <4>1
      <3> SUFFICES ASSUME NEW w \in Windows
                   PROVE  Cardinality(KeptOf(intents', count', now', w))
                            + Rates!Sales(Asked(intents', "BUY") + held') <= w.limit
        BY <1>1, <1>2, <1>7, <1>8, <2>5 DEF RoomInv, Room
      <3> DEFINE K == KeptOf(intents, count, now, w)
                 L == KeptOf(intents', count', now', w)
                 sales == Rates!Sales(A("BUY") + held)
      <3>2. IsFiniteSet(K) /\ Cardinality(K) \in Nat BY <1>1, KeptType
      <3>3. L \subseteq K \cup {i} BY <1>12
      <3>4. Cardinality(K) + sales <= w.limit BY <1>1 DEF Room, A
      <3>5. A("BUY") + held \in Int BY <1>1, <2>4
      <3>6. Asked(intents', "BUY") + held' = (A("BUY") + held) - Child
        BY <1>1, <2>1, <2>3, <2>4, <3>1
      <3>7. sales \in Int /\ Rates!Sales(Asked(intents', "BUY") + held') = sales - 1
        <4> DEFINE p == A("BUY") + held
        <4>1. p \in Int BY <3>5
        <4>0. Asked(intents', "BUY") + held' = p - Child BY <3>6, Zenon
        <4> HIDE DEF p
        <4>2. Rates!Sales(p) \in Int /\ Rates!Sales(p - Child) = Rates!Sales(p) - 1
          BY <4>1, SalesChild
        <4> QED BY <4>0, <4>2, Zenon DEF p
      <3> HIDE DEF K, L, sales
      <3>8. Cardinality(L) \in Nat /\ Cardinality(L) <= Cardinality(K) + 1
        BY <3>2, <3>3, CountOneMore
      <3>9. w.limit \in Nat OBVIOUS
      <3>10. Cardinality(L) + (sales - 1) <= w.limit BY <3>2, <3>4, <3>7, <3>8, <3>9
      <3> QED BY <3>7, <3>10 DEF L
    <2> QED BY <2>6, <2>7
  <1> QED BY <1>4, <1>13, <1>14

LEMMA RoomTick ==
  ASSUME RoomInv, Rates!Tick
  PROVE  RoomInv'
  <1>1. /\ now \in 0..MaxTime /\ held \in Nat /\ Rows(intents, count)
        /\ Room(intents, count, now, held)
    BY DEF RoomInv
  <1>2. now' \in 0..MaxTime /\ now' = now + 1 /\ UNCHANGED <<intents, count, held>>
    BY <1>1 DEF Rates!Tick
  <1>3. ASSUME NEW w \in Windows, NEW i \in KeptOf(intents, count, now', w)
        PROVE  i \in KeptOf(intents, count, now, w)
    <2>1. i \in 1..count /\ i \in 1..MaxOrders BY <1>1 DEF KeptOf, Rows
    <2>2. intents[i].at \in Int BY <1>1, <2>1 DEF Rows
    <2>3. now' - intents[i].at < w.span BY DEF KeptOf
    <2>4. w.span \in Nat BY ServicesAssumption
    <2>5. now - intents[i].at < w.span BY <1>1, <1>2, <2>2, <2>3, <2>4
    <2> QED BY <2>5 DEF KeptOf
  <1>4. Asked(intents, "BUY") \in Nat BY <1>1, LoadType
  <1>5. Asked(intents, "BUY") + held <= Asked(intents, "BUY") + held BY <1>1, <1>4
  <1>6. Room(intents, count, now', held) BY <1>1, <1>3, <1>5, RoomShrinks
  <1> QED BY <1>1, <1>2, <1>6 DEF RoomInv

LEMMA RoomStep == RoomInv /\ [Next]_vars => RoomInv'
  <1> SUFFICES ASSUME RoomInv, Rates!Next \/ UNCHANGED rates
               PROVE  RoomInv'
    BY PartsStep
  <1>1. CASE UNCHANGED rates BY <1>1 DEF RoomInv, rates
  <1>2. ASSUME NEW n \in Sizes, Rates!Buy(n) PROVE RoomInv'
    <2>1. n \in Nat OBVIOUS
    <2> QED BY <1>2, <2>1, RoomCreate DEF Rates!Buy
  <1>3. CASE Rates!Sell
    <2> DEFINE u == Rates!Unreserved
               m == Rates!Min({u, Child})
    <2>1. u = held - Asked(intents, "SELL")
      <3>1. Rows(intents, count) BY DEF RoomInv
      <3>2. Rates!Lots(Rates!Pending("SELL")) = Asked(intents, "SELL")
        BY <3>1, LotsAreLoaded, LoadedIsAsked
      <3> QED BY <3>2 DEF Rates!Unreserved
    <2>2. u \in Int
      <3>1. held \in Nat /\ Asked(intents, "SELL") \in Nat BY LoadType DEF RoomInv
      <3> QED BY <2>1, <3>1
    <2>3. u > 0 /\ Rates!Create("SELL", m) BY <1>3 DEF Rates!Sell
    <2> HIDE DEF u
    <2>4. m \in {u, Child} /\ m <= u /\ m <= Child
      <3>1. \E x \in {u, Child} : \A y \in {u, Child} : x =< y BY <2>2
      <3> QED BY <3>1 DEF Rates!Min
    <2> HIDE DEF m
    <2>5. m \in Nat BY <2>2, <2>3, <2>4
    <2> QED BY <2>1, <2>3, <2>4, <2>5, RoomCreate
  <1>4. CASE Rates!Tick BY <1>4, RoomTick
  <1>5. ASSUME NEW i, NEW n, Rates!Resolve(i, n) PROVE RoomInv' BY <1>5, RoomResolve
  <1> QED BY <1>1, <1>2, <1>3, <1>4, <1>5 DEF Rates!Next

LEMMA RoomAlways == Spec => []RoomInv
  <1>1. Init => RoomInv BY PartsStart, RoomStart
  <1> QED BY <1>1, RoomStep, PTL DEF Spec

LEMMA RoomTyped == RoomInv => Rates!TypeOK
  BY DEF RoomInv, Rows, Rates!TypeOK

\* Whatever is bought and sold, filled or not, and however time passes: every window has
\* room for the sales of all that is held or may still be bought, but for the sales that
\* were wasted (orders.py 100-114).
THEOREM EntriesLeaveRoomHolds == Spec => []EntriesLeaveRoom
  <1>1. RoomInv => EntriesLeaveRoom
    <2> SUFFICES ASSUME RoomInv, NEW w \in Windows
                 PROVE  Rates!Used(w) + Rates!Sales(Rates!Potential(0))
                          <= w.limit + Rates!Cardinality(Rates!Wasted(w))
      BY DEF EntriesLeaveRoom, Rates!EntriesLeaveRoom
    <2> DEFINE E == Rates!Events(w)
               W == Rates!Wasted(w)
               K == KeptOf(intents, count, now, w)
    <2>1. Rows(intents, count) /\ Room(intents, count, now, held) /\ held \in Nat BY DEF RoomInv
    <2>2. Rates!Lots(Rates!Pending("BUY")) = Asked(intents, "BUY")
      BY <2>1, LotsAreLoaded, LoadedIsAsked
    <2>3. Rates!Potential(0) = Asked(intents, "BUY") + held
      <3>1. Asked(intents, "BUY") \in Nat BY <2>1, LoadType
      <3> QED BY <2>1, <2>2, <3>1 DEF Rates!Potential
    <2>4. /\ Rates!Used(w) = Cardinality(E)
          /\ Rates!Cardinality(W) = Cardinality(W)
      BY DEF Rates!Used, Rates!Cardinality, Cardinality
    <2>5. W \subseteq E /\ K \subseteq E /\ E = K \cup W
      BY DEF Rates!Events, Rates!Wasted, Rates!Intents, KeptOf
    <2>6. E \subseteq 1..MaxOrders BY <2>1 DEF Rates!Events, Rates!Intents, Rows
    <2>7. Cardinality(K) + Rates!Sales(Rates!Potential(0)) <= w.limit BY <2>1, <2>3 DEF Room
    <2>8. Rates!Sales(Rates!Potential(0)) \in Int
      <3>1. Rates!Potential(0) \in Int BY <2>1, <2>3, LoadType
      <3> QED BY <3>1, SalesMonotonic
    <2>9. w.limit \in Nat OBVIOUS
    <2> HIDE DEF E, W, K
    <2>10. IsFiniteSet(E) /\ IsFiniteSet(K) /\ IsFiniteSet(W) /\ IsFiniteSet(K \cap W)
      <3>1. IsFiniteSet(E) BY <2>6, SlotsFinite, FS_Subset
      <3>2. K \cap W \subseteq E BY <2>5
      <3> QED BY <2>5, <3>1, <3>2, FS_Subset
    <2>11. /\ Cardinality(E) \in Nat /\ Cardinality(K) \in Nat /\ Cardinality(W) \in Nat
           /\ Cardinality(K \cap W) \in Nat
      BY <2>10, FS_CardinalityType
    <2>12. Cardinality(E) = Cardinality(K) + Cardinality(W) - Cardinality(K \cap W)
      BY <2>5, <2>10, FS_Union
    <2>13. Cardinality(E) + Rates!Sales(Rates!Potential(0)) <= w.limit + Cardinality(W)
      BY <2>7, <2>8, <2>9, <2>11, <2>12
    <2> QED BY <2>4, <2>13 DEF W
  <1> QED BY <1>1, RoomAlways, PTL

HIDE RatesConstants

----------------------------------------------------------------------------
(* Tokens *)

LEMMA TokensConstants ==
  /\ Trader \in Procs /\ "nobody" \notin Procs
  /\ MaxTokens \in Nat /\ MaxTime \in Nat /\ MaxFaults \in Nat
  BY ServicesAssumption

TokensInv ==
  /\ Tokens!TypeOK
  /\ cache \in [token : 0..MaxTokens, at : 0..MaxTime]
  /\ proc \in [Procs -> {"idle", "locking", "minting"}] /\ busy \in BOOLEAN

LEMMA TokensStart == Tokens!Init => TokensInv
  <1> SUFFICES ASSUME Tokens!Init PROVE TokensInv OBVIOUS
  <1> USE TokensConstants DEF Tokens!Init, Tokens!NoCache, Tokens!Nobody
  <1>1. busy \in BOOLEAN /\ ~busy OBVIOUS
  <1>2. Tokens!TypeOK BY <1>1 DEF Tokens!TypeOK
  <1>3. cache \in [token : 0..MaxTokens, at : 0..MaxTime] OBVIOUS
  <1>4. proc \in [Procs -> {"idle", "locking", "minting"}] OBVIOUS
  <1> QED BY <1>1, <1>2, <1>3, <1>4 DEF TokensInv

LEMMA TokensStep == TokensInv /\ [Next]_vars => TokensInv'
  <1> SUFFICES ASSUME TokensInv, Tokens!Next \/ UNCHANGED tokens
               PROVE  TokensInv'
    BY PartsStep
  <1> USE TokensConstants DEF TokensInv, Tokens!TypeOK, Tokens!Nobody, Tokens!NoCache
  <1>1. CASE UNCHANGED tokens BY <1>1 DEF tokens
  <1>2. ASSUME NEW p \in Procs, Tokens!Ask(p) PROVE TokensInv' BY <1>2 DEF Tokens!Ask
  <1>3. ASSUME NEW p \in Procs, Tokens!TakeLock(p) PROVE TokensInv'
    BY <1>3 DEF Tokens!TakeLock, Tokens!Given, Tokens!Usable
  <1>4. ASSUME NEW p \in Procs, Tokens!GiveUp(p) PROVE TokensInv' BY <1>4 DEF Tokens!GiveUp
  <1>5. ASSUME NEW p \in Procs, Tokens!Mint(p) PROVE TokensInv'
    BY <1>5 DEF Tokens!Mint, Tokens!Given
  <1>6. ASSUME NEW p \in Procs, Tokens!Crash(p) PROVE TokensInv'
    <2> USE <1>6 DEF Tokens!Crash, Tokens!Fault
    <2>1. /\ time' \in 0..MaxTime /\ issued' \in 0..MaxTokens
          /\ cache' \in [token : 0..MaxTokens, at : 0..MaxTime] /\ cache'.token \in 0..MaxTokens
      OBVIOUS
    <2>2. busy' \in BOOLEAN BY Zenon
    <2>3. session' \in 0..MaxTokens /\ (busy' => session' # 0)
      <3>1. CASE p = Trader
        <4>1. ~busy' /\ session' = 0 BY <3>1, Zenon
        <4> QED BY <4>1
      <3>2. CASE p # Trader BY <3>2
      <3> QED BY <3>1, <3>2
    <2>4. /\ proc' \in [Procs -> {"idle", "locking", "minting"}]
          /\ tokenLock' \in Procs \cup {"nobody"}
          /\ \A q \in Procs : /\ proc'[q] \in {"idle", "locking", "minting"}
                              /\ proc'[q] = "minting" <=> tokenLock' = q
      OBVIOUS
    <2> QED BY <2>1, <2>2, <2>3, <2>4
  <1>7. CASE Tokens!Rotate BY <1>7 DEF Tokens!Rotate
  <1>8. CASE Tokens!Order BY <1>8 DEF Tokens!Order
  <1>9. CASE Tokens!Damage BY <1>9 DEF Tokens!Damage
  <1>10. CASE Tokens!Tick BY <1>10 DEF Tokens!Tick
  <1> HIDE DEF TokensInv
  <1> QED BY <1>1, <1>2, <1>3, <1>4, <1>5, <1>6, <1>7, <1>8, <1>9, <1>10 DEF Tokens!Next

----------------------------------------------------------------------------
(* Reads *)

LEMMA ReadsConstants == Priorities \subseteq Nat /\ MaxReads \in Nat
  BY ServicesAssumption

LEMMA ReadsStart == Reads!Init => Reads!TypeOK
  BY ReadsConstants DEF Reads!Init, Reads!TypeOK, Reads!Idle

LEMMA ReadsStep == Reads!TypeOK /\ [Next]_vars => Reads!TypeOK'
  <1> SUFFICES ASSUME Reads!TypeOK, Reads!Next \/ UNCHANGED turns
               PROVE  Reads!TypeOK'
    BY PartsStep
  <1> USE ReadsConstants DEF Reads!TypeOK, Reads!Idle
  <1>1. CASE UNCHANGED turns BY <1>1 DEF turns
  <1>2. CASE Reads!Drain
    <2>1. heap' \subseteq heap BY <1>2 DEF Reads!Drain, Reads!Left
    <2>2. task' \in [Tasks -> [seq : 0..MaxReads, at : {"idle", "waiting", "turn"}]]
      BY <1>2 DEF Reads!Drain
    <2>3. worker' \in {"none", "running"} BY <1>2 DEF Reads!Drain, Reads!WorkerAfter
    <2> QED BY <1>2, <2>1, <2>2, <2>3 DEF Reads!Drain
  <1>3. ASSUME NEW t \in Tasks, Reads!Leave(t) PROVE Reads!TypeOK' BY <1>3 DEF Reads!Leave
  <1>4. ASSUME NEW t \in Tasks, Reads!Cancel(t) PROVE Reads!TypeOK' BY <1>4 DEF Reads!Cancel
  <1>5. ASSUME NEW t \in Tasks, NEW p \in Priorities, Reads!Acquire(t, p) PROVE Reads!TypeOK'
    BY <1>5 DEF Reads!Acquire
  <1> HIDE DEF Reads!TypeOK
  <1> QED BY <1>1, <1>2, <1>3, <1>4, <1>5 DEF Reads!Next

----------------------------------------------------------------------------
(* Recovery *)

ToolSteps ==
  {"idle", "stopped", "before", "started", "resetting", "after", "again", "finishing"}
Tools ==
  [at : ToolSteps, reads : SUBSET Recovery!Books, flat : BOOLEAN, whole : BOOLEAN]
\* What was asked of the broker is noted before it is asked.
ResetNoted ==
  /\ "started" \notin notes => resets = 0
  /\ tool.at = "started" => resets = 0 /\ "started" \in notes
  /\ resets \in 0..1
RecoveryTypes ==
  /\ intent \in {"SEND_UNKNOWN", "SENT", "RECOVERY_CLOSED", "FILLED", "CANCELLED"}
  /\ row \in {"none", "open", "ended"} /\ order \in {"held", "open", "ended", "gone"}
  /\ trader \in {"up", "down"} /\ lock \in {"free", "trader", "tool"}
  /\ trader = "up" <=> lock = "trader"
Flags == filled \in BOOLEAN /\ stopFile \in BOOLEAN /\ traded \in BOOLEAN
RecoveryInv == tool \in Tools /\ ResetNoted /\ RecoveryTypes /\ Flags

LEMMA RecoveryTyped == RecoveryInv => Recovery!TypeOK
  <1> SUFFICES ASSUME RecoveryInv PROVE Recovery!TypeOK OBVIOUS
  <1>1. tool.reads \subseteq Recovery!Books /\ tool.flat \in BOOLEAN /\ tool.whole \in BOOLEAN
    BY DEF RecoveryInv, Tools
  <1>2. resets \in Nat BY DEF RecoveryInv, ResetNoted
  <1> QED BY <1>1, <1>2, Zenon DEF RecoveryInv, RecoveryTypes, Flags, Recovery!TypeOK, Recovery!Ended

LEMMA ReadingType ==
  ASSUME tool \in Tools, NEW at \in ToolSteps
  PROVE  Recovery!Reading(at) \in Tools /\ Recovery!Reading(at).at = at
  BY DEF Tools, Recovery!Reading

LEMMA IdleType == Recovery!IdleTool \in Tools /\ Recovery!IdleTool.at = "idle"
  BY DEF Tools, Recovery!IdleTool, ToolSteps

LEMMA StepsType == \A at \in {"idle", "stopped", "before", "started", "resetting", "after",
                             "again", "finishing"} : at \in ToolSteps
  BY DEF ToolSteps

LEMMA RecoveryStart == Recovery!Init => RecoveryInv
  <1> SUFFICES ASSUME Recovery!Init PROVE RecoveryInv OBVIOUS
  <1>1. tool \in Tools /\ ResetNoted BY IdleType DEF Recovery!Init, ResetNoted
  <1>2. RecoveryTypes BY DEF Recovery!Init, RecoveryTypes
  <1>3. Flags BY DEF Recovery!Init, Flags
  <1> QED BY <1>1, <1>2, <1>3 DEF RecoveryInv

LEMMA RecoveryStep == RecoveryInv /\ [Next]_vars => RecoveryInv'
  <1> SUFFICES ASSUME tool \in Tools, ResetNoted, RecoveryTypes, Flags,
                      Recovery!Next \/ UNCHANGED recovery
               PROVE  tool' \in Tools /\ ResetNoted' /\ RecoveryTypes' /\ Flags'
    BY PartsStep DEF RecoveryInv
  <1> USE StepsType DEF Recovery!ledger, Recovery!host, Recovery!broker
  <1> DEFINE Goal == tool' \in Tools /\ ResetNoted' /\ RecoveryTypes' /\ Flags'
  <1>1. CASE UNCHANGED recovery
    BY <1>1 DEF recovery, ResetNoted, RecoveryTypes, Flags
  <1>2. CASE Recovery!Begin
    <2>1. tool' \in Tools /\ ResetNoted' BY <1>2, ReadingType DEF Recovery!Begin, ResetNoted
    <2>2. RecoveryTypes' BY <1>2 DEF Recovery!Begin, RecoveryTypes
    <2>3. Flags' BY <1>2, Zenon DEF Recovery!Begin, Flags
    <2> QED BY <2>1, <2>2, <2>3
  <1>3. CASE Recovery!TakeLock
    <2>1. tool' \in Tools /\ ResetNoted' BY <1>3, ReadingType DEF Recovery!TakeLock, ResetNoted
    <2>2. RecoveryTypes' BY <1>3 DEF Recovery!TakeLock, RecoveryTypes
    <2>3. Flags' BY <1>3, Zenon DEF Recovery!TakeLock, Flags
    <2> QED BY <2>1, <2>2, <2>3
  <1>4. ASSUME NEW b \in Recovery!Books, Recovery!Read(b) PROVE Goal
    <2>1. Recovery!ShowsFlat(b) \in BOOLEAN
      BY DEF Recovery!ShowsFlat, Recovery!Books, Recovery!Listed, Recovery!Whole
    <2>2. Recovery!Whole \in BOOLEAN BY DEF Recovery!Whole
    <2>3. tool' \in Tools /\ tool'.at = tool.at
      <3>1. (tool.flat /\ Recovery!ShowsFlat(b)) \in BOOLEAN OBVIOUS
      <3> HIDE DEF Recovery!ShowsFlat, Recovery!Whole
      <3> QED BY <1>4, <2>2, <3>1 DEF Recovery!Read, Tools
    <2>4. ResetNoted' BY <1>4, <2>3 DEF Recovery!Read, ResetNoted
    <2>5. RecoveryTypes' BY <1>4 DEF Recovery!Read, RecoveryTypes
    <2>6. Flags' BY <1>4, Zenon DEF Recovery!Read, Flags
    <2> QED BY <2>3, <2>4, <2>5, <2>6
  <1>5. CASE Recovery!Started
    <2>1. tool' \in Tools /\ ResetNoted' BY <1>5, ReadingType DEF Recovery!Started, ResetNoted, Recovery!Eligible
    <2>2. RecoveryTypes' BY <1>5 DEF Recovery!Started, RecoveryTypes
    <2>3. Flags' BY <1>5, Zenon DEF Recovery!Started, Flags
    <2> QED BY <2>1, <2>2, <2>3
  <1>6. CASE Recovery!Post
    <2>1. tool' \in Tools /\ ResetNoted' BY <1>6, ReadingType DEF Recovery!Post, ResetNoted
    <2>2. RecoveryTypes' BY <1>6 DEF Recovery!Post, RecoveryTypes
    <2>3. Flags' BY <1>6, Zenon DEF Recovery!Post, Flags
    <2> QED BY <2>1, <2>2, <2>3
  <1>7. ASSUME NEW a \in Recovery!Answers, Recovery!Answer(a) PROVE Goal
    <2>1. tool' \in Tools /\ ResetNoted' BY <1>7, ReadingType DEF Recovery!Answer, ResetNoted, Recovery!Answers
    <2>2. RecoveryTypes' BY <1>7 DEF Recovery!Answer, RecoveryTypes, Recovery!Cancelled
    <2>3. Flags' BY <1>7, Zenon DEF Recovery!Answer, Flags
    <2> QED BY <2>1, <2>2, <2>3
  <1>8. CASE Recovery!After
    <2>1. tool' \in Tools /\ ResetNoted' BY <1>8, ReadingType DEF Recovery!After, ResetNoted
    <2>2. RecoveryTypes' BY <1>8 DEF Recovery!After, RecoveryTypes
    <2>3. Flags' BY <1>8, Zenon DEF Recovery!After, Flags
    <2> QED BY <2>1, <2>2, <2>3
  <1>9. CASE Recovery!Commit
    <2>1. tool' \in Tools /\ ResetNoted' BY <1>9, ReadingType DEF Recovery!Commit, ResetNoted
    <2>2. RecoveryTypes' BY <1>9 DEF Recovery!Commit, RecoveryTypes
    <2>3. Flags' BY <1>9, Zenon DEF Recovery!Commit, Flags
    <2> QED BY <2>1, <2>2, <2>3
  <1>10. CASE Recovery!Finish
    <2>1. tool' \in Tools /\ ResetNoted' BY <1>10, IdleType DEF Recovery!Finish, ResetNoted
    <2>2. RecoveryTypes' BY <1>10 DEF Recovery!Finish, RecoveryTypes
    <2>3. Flags' BY <1>10, Zenon DEF Recovery!Finish, Flags
    <2> QED BY <2>1, <2>2, <2>3
  <1>11. CASE Recovery!CrashTool
    <2>1. tool' \in Tools /\ ResetNoted' BY <1>11, IdleType DEF Recovery!CrashTool, ResetNoted
    <2>2. RecoveryTypes' BY <1>11 DEF Recovery!CrashTool, RecoveryTypes, Recovery!Cancelled
    <2>3. Flags' BY <1>11, Zenon DEF Recovery!CrashTool, Flags
    <2> QED BY <2>1, <2>2, <2>3
  <1>12. CASE Recovery!RemoveStopFile
    <2>1. tool' \in Tools /\ ResetNoted' BY <1>12 DEF Recovery!RemoveStopFile, ResetNoted
    <2>2. RecoveryTypes' BY <1>12 DEF Recovery!RemoveStopFile, RecoveryTypes
    <2>3. Flags' BY <1>12, Zenon DEF Recovery!RemoveStopFile, Flags
    <2> QED BY <2>1, <2>2, <2>3
  <1>13. CASE Recovery!StartTrader
    <2>1. tool' \in Tools /\ ResetNoted' BY <1>13 DEF Recovery!StartTrader, ResetNoted
    <2>2. RecoveryTypes' BY <1>13 DEF Recovery!StartTrader, RecoveryTypes
    <2>3. Flags' BY <1>13, Zenon DEF Recovery!StartTrader, Flags
    <2> QED BY <2>1, <2>2, <2>3
  <1>14. CASE Recovery!CrashTrader
    <2>1. tool' \in Tools /\ ResetNoted' BY <1>14 DEF Recovery!CrashTrader, ResetNoted
    <2>2. RecoveryTypes' BY <1>14 DEF Recovery!CrashTrader, RecoveryTypes
    <2>3. Flags' BY <1>14, Zenon DEF Recovery!CrashTrader, Flags
    <2> QED BY <2>1, <2>2, <2>3
  <1>15. CASE Recovery!Reconcile
    <2>1. tool' \in Tools /\ ResetNoted' BY <1>15 DEF Recovery!Reconcile, ResetNoted, Recovery!Recorded
    <2>2. RecoveryTypes' BY <1>15 DEF Recovery!Reconcile, RecoveryTypes, Recovery!Recorded, Recovery!Listed
    <2>3. Flags' BY <1>15, Zenon DEF Recovery!Reconcile, Flags
    <2> QED BY <2>1, <2>2, <2>3
  <1>16. CASE Recovery!CrashInReconcile
    <2>1. tool' \in Tools /\ ResetNoted' BY <1>16 DEF Recovery!CrashInReconcile, ResetNoted, Recovery!Recorded
    <2>2. RecoveryTypes' BY <1>16 DEF Recovery!CrashInReconcile, RecoveryTypes, Recovery!Recorded, Recovery!Listed
    <2>3. Flags' BY <1>16, Zenon DEF Recovery!CrashInReconcile, Flags
    <2> QED BY <2>1, <2>2, <2>3
  <1>17. CASE Recovery!Appear
    <2>1. tool' \in Tools /\ ResetNoted' BY <1>17 DEF Recovery!Appear, ResetNoted
    <2>2. RecoveryTypes' BY <1>17 DEF Recovery!Appear, RecoveryTypes
    <2>3. Flags' BY <1>17, Zenon DEF Recovery!Appear, Flags
    <2> QED BY <2>1, <2>2, <2>3
  <1>18. ASSUME NEW t \in BOOLEAN, Recovery!End(t) PROVE Goal
    <2>1. tool' \in Tools /\ ResetNoted' BY <1>18 DEF Recovery!End, ResetNoted
    <2>2. RecoveryTypes' BY <1>18 DEF Recovery!End, RecoveryTypes
    <2>3. Flags' BY <1>18, Zenon DEF Recovery!End, Flags
    <2> QED BY <2>1, <2>2, <2>3
  <1> QED
    BY <1>1, <1>2, <1>3, <1>4, <1>5, <1>6, <1>7, <1>8, <1>9, <1>10, <1>11, <1>12, <1>13, <1>14,
       <1>15, <1>16, <1>17, <1>18 DEF Recovery!Next, Recovery!Work

\* Whatever the answer, and however often the tool is killed and called again, the broker
\* is asked to cancel everything at most once for a probe (route_recovery.py 55-59).
THEOREM ResetOnceHolds == Spec => []Recovery!ResetOnce
  <1>1. Init => RecoveryInv BY PartsStart, RecoveryStart
  <1>2. RecoveryInv => Recovery!ResetOnce BY DEF RecoveryInv, ResetNoted, Recovery!ResetOnce
  <1> QED BY <1>1, <1>2, RecoveryStep, PTL DEF Spec

----------------------------------------------------------------------------
(* Deploy *)

\* Where the tool is, what the files, the ledger and systemd are: on the way forward
\* nothing, some or all is replaced; on the way back what was replaced is put back.
Untouched == <<IF edited THEN "edited" ELSE "old", "old", "old">>
Early == {"checked", "locking", "comparing"}
Forward ==
  /\ step \in Early => Deploy!files = Untouched /\ ~changed
  /\ step = "migrating" => Deploy!files = <<"old", "old", "old">> /\ ~changed /\ ~edited
  /\ step = "config" => Deploy!files = <<"old", "old", "old">> /\ changed /\ ~edited
  /\ step = "override" => Deploy!files = <<"new", "old", "old">> /\ changed /\ ~edited
  /\ step = "marker" => Deploy!files = <<"new", "new", "old">> /\ changed /\ ~edited
  /\ step \in {"verifying", "reloading", "starting", "activating", "applied"} =>
       Deploy!files = <<"new", "new", "new">> /\ changed /\ ~edited
Back ==
  /\ step \in {"stopping again", "ledger back", "files back"} =>
       IF changed THEN ~edited ELSE Deploy!files = Untouched
  /\ step \in {"reloading back", "starting back", "refused"} => Deploy!files = Untouched
Units ==
  /\ step \in Early \cup {"migrating", "config", "override", "marker", "verifying", "reloading",
                          "starting back", "refused"} => unit = "old"
  /\ step \in {"starting", "activating", "applied"} => unit = "new"
Payloads ==
  /\ ~migrated /\ step \notin {"files back", "reloading back", "starting back", "refused"} =>
       payload = "old"
  /\ step \in {"files back", "reloading back", "starting back", "refused"} => payload = "old"
\* A session upgrade has the service down while files and unit are of two releases.
Services ==
  kind = "session" =>
    /\ service.at # "up" \/ (service.unit = "new" <=> service.config = "new")
    /\ step \in {"locking", "comparing", "migrating", "config", "override", "marker", "verifying",
                 "reloading", "starting", "ledger back", "files back", "reloading back",
                 "starting back"} => service.at = "down"
    /\ step = "stopping again" => service.at = "down" \/ (unit = "new" /\ config = "new")
DeployTypes ==
  /\ step \in {"checked", "locking", "comparing", "migrating", "config", "override", "marker",
               "verifying", "reloading", "starting", "activating", "stopping again",
               "ledger back", "files back", "reloading back", "starting back", "applied", "refused"}
  /\ config \in {"old", "new", "edited"} /\ override \in {"old", "new"} /\ marker \in {"old", "new"}
  /\ payload \in {"old", "new"} /\ unit \in {"old", "new"}
  /\ service \in [at : {"up", "down", "failed"}, unit : {"old", "new"},
                  config : {"old", "new", "edited"}]
  /\ failures \in 0..MaxFailures /\ kind \in {"session", "profit"}
DeployInv == DeployTypes /\ Forward /\ Back /\ Units /\ Payloads /\ Services

LEMMA DeployStart == Deploy!Init => DeployInv
  <1> SUFFICES ASSUME Deploy!Init PROVE DeployInv OBVIOUS
  <1> USE ServicesAssumption DEF Deploy!Init, Deploy!Started, Deploy!files, Early
  <1>1. DeployTypes BY DEF DeployTypes
  <1>2. Forward /\ Back BY DEF Forward, Back, Untouched
  <1>3. Units /\ Payloads BY DEF Units, Payloads
  <1>4. Services BY DEF Services
  <1> QED BY <1>1, <1>2, <1>3, <1>4 DEF DeployInv

LEMMA DeployStep == DeployInv /\ [Next]_vars => DeployInv'
  <1> SUFFICES ASSUME DeployTypes, Forward, Back, Units, Payloads, Services,
                      Deploy!Next \/ UNCHANGED upgrade
               PROVE  DeployTypes' /\ Forward' /\ Back' /\ Units' /\ Payloads' /\ Services'
    BY PartsStep DEF DeployInv
  <1> DEFINE Goal == DeployTypes' /\ Forward' /\ Back' /\ Units' /\ Payloads' /\ Services'
  <1>0. MaxFailures \in Nat BY ServicesAssumption
  <1> USE <1>0 DEF Deploy!files, Deploy!systemd, Early
  <1>1. CASE UNCHANGED upgrade
    <2>0. UNCHANGED <<kind, step, changed, config, override, marker, payload, migrated, edited,
                      unit, service, failures>>
      BY <1>1 DEF upgrade
    <2> USE <2>0
    <2>1. DeployTypes' BY <2>0 DEF DeployTypes
    <2>2. Forward' /\ Back' BY DEF Forward, Back, Untouched
    <2>3. Units' /\ Payloads' BY DEF Units, Payloads
    <2>4. Services' BY DEF Services
    <2> QED BY <2>1, <2>2, <2>3, <2>4
  <1>2. CASE Deploy!Stop
    <2> USE <1>2 DEF Deploy!Stop
    <2>1. DeployTypes' BY DEF DeployTypes
    <2>2. Forward' BY DEF Forward, Untouched, Back, DeployTypes
    <2>3. Back' BY DEF Forward, Untouched, Back, DeployTypes
    <2>4. Units' BY DEF Units, Forward, Back, Untouched
    <2>5. Payloads' BY DEF Payloads
    <2>6. Services' BY DEF Services, Units, Forward, Back, Untouched, DeployTypes
    <2> QED BY <2>1, <2>2, <2>3, <2>4, <2>5, <2>6
  <1>3. CASE Deploy!TakeLock
    <2> USE <1>3 DEF Deploy!TakeLock
    <2>1. DeployTypes' BY DEF DeployTypes
    <2>2. Forward' BY DEF Forward, Untouched, Back, DeployTypes
    <2>3. Back' BY DEF Forward, Untouched, Back, DeployTypes
    <2>4. Units' BY DEF Units, Forward, Back, Untouched
    <2>5. Payloads' BY DEF Payloads
    <2>6. Services' BY DEF Services, Units, Forward, Back, Untouched, DeployTypes
    <2> QED BY <2>1, <2>2, <2>3, <2>4, <2>5, <2>6
  <1>4. CASE Deploy!Compare
    <2> USE <1>4 DEF Deploy!Compare
    <2>1. DeployTypes' BY DEF DeployTypes
    <2>2. Forward'
      <3>1. CASE kind = "session"
        <4>1. changed' BY <3>1, Zenon
        <4>2. step' = "config" BY <3>1
        <4> QED BY <4>1, <4>2 DEF Forward, Untouched
      <3>2. CASE kind = "profit"
        <4>1. kind # "session" BY <3>2
        <4>2. ~changed' BY <4>1, Zenon
        <4>3. step' = "migrating" BY <3>2
        <4> QED BY <4>2, <4>3 DEF Forward, Untouched
      <3> QED BY <3>1, <3>2 DEF DeployTypes
    <2>3. Back' BY DEF Forward, Untouched, Back, DeployTypes
    <2>4. Units' BY DEF Units, Forward, Back, Untouched
    <2>5. Payloads' BY DEF Payloads
    <2>6. Services' BY DEF Services, Units, Forward, Back, Untouched, DeployTypes
    <2> QED BY <2>1, <2>2, <2>3, <2>4, <2>5, <2>6
  <1>5. ASSUME NEW v \in Deploy!Versions, Deploy!Migrate(v) PROVE Goal
    <2> USE <1>5 DEF Deploy!Migrate, Deploy!Versions
    <2>1. DeployTypes' BY DEF DeployTypes
    <2>2. Forward' BY DEF Forward, Untouched, Back, DeployTypes
    <2>3. Back' BY DEF Forward, Untouched, Back, DeployTypes
    <2>4. Units' BY DEF Units, Forward, Back, Untouched
    <2>5. Payloads' BY DEF Payloads
    <2>6. Services' BY DEF Services, Units, Forward, Back, Untouched, DeployTypes
    <2> QED BY <2>1, <2>2, <2>3, <2>4, <2>5, <2>6
  <1>6. CASE Deploy!WriteConfig
    <2> USE <1>6 DEF Deploy!WriteConfig
    <2>1. DeployTypes' BY DEF DeployTypes
    <2>2. Forward' BY DEF Forward, Untouched, Back, DeployTypes
    <2>3. Back' BY DEF Forward, Untouched, Back, DeployTypes
    <2>4. Units' BY DEF Units, Forward, Back, Untouched
    <2>5. Payloads' BY DEF Payloads
    <2>6. Services' BY DEF Services, Units, Forward, Back, Untouched, DeployTypes
    <2> QED BY <2>1, <2>2, <2>3, <2>4, <2>5, <2>6
  <1>7. CASE Deploy!WriteOverride
    <2> USE <1>7 DEF Deploy!WriteOverride
    <2>1. DeployTypes' BY DEF DeployTypes
    <2>2. Forward' BY DEF Forward, Untouched, Back, DeployTypes
    <2>3. Back' BY DEF Forward, Untouched, Back, DeployTypes
    <2>4. Units' BY DEF Units, Forward, Back, Untouched
    <2>5. Payloads' BY DEF Payloads
    <2>6. Services' BY DEF Services, Units, Forward, Back, Untouched, DeployTypes
    <2> QED BY <2>1, <2>2, <2>3, <2>4, <2>5, <2>6
  <1>8. CASE Deploy!WriteMarker
    <2> USE <1>8 DEF Deploy!WriteMarker
    <2>1. DeployTypes' BY DEF DeployTypes
    <2>2. Forward' BY DEF Forward, Untouched, Back, DeployTypes
    <2>3. Back' BY DEF Forward, Untouched, Back, DeployTypes
    <2>4. Units' BY DEF Units, Forward, Back, Untouched
    <2>5. Payloads' BY DEF Payloads
    <2>6. Services' BY DEF Services, Units, Forward, Back, Untouched, DeployTypes
    <2> QED BY <2>1, <2>2, <2>3, <2>4, <2>5, <2>6
  <1>9. CASE Deploy!Verify
    <2> USE <1>9 DEF Deploy!Verify
    <2>1. DeployTypes' BY DEF DeployTypes
    <2>2. Forward' BY DEF Forward, Untouched, Back, DeployTypes
    <2>3. Back' BY DEF Forward, Untouched, Back, DeployTypes
    <2>4. Units' BY DEF Units, Forward, Back, Untouched
    <2>5. Payloads' BY DEF Payloads
    <2>6. Services' BY DEF Services, Units, Forward, Back, Untouched, DeployTypes
    <2> QED BY <2>1, <2>2, <2>3, <2>4, <2>5, <2>6
  <1>10. CASE Deploy!Reload
    <2> USE <1>10 DEF Deploy!Reload
    <2>1. DeployTypes' BY DEF DeployTypes
    <2>2. Forward' BY DEF Forward, Untouched, Back, DeployTypes
    <2>3. Back' BY DEF Forward, Untouched, Back, DeployTypes
    <2>4. Units' BY DEF Units, Forward, Back, Untouched
    <2>5. Payloads' BY DEF Payloads
    <2>6. Services' BY DEF Services, Units, Forward, Back, Untouched, DeployTypes
    <2> QED BY <2>1, <2>2, <2>3, <2>4, <2>5, <2>6
  <1>11. CASE Deploy!Start
    <2> USE <1>11 DEF Deploy!Start, Deploy!Started
    <2>1. DeployTypes' BY DEF DeployTypes
    <2>2. Forward' BY DEF Forward, Untouched, Back, DeployTypes
    <2>3. Back' BY DEF Forward, Untouched, Back, DeployTypes
    <2>4. Units' BY DEF Units, Forward, Back, Untouched
    <2>5. Payloads' BY DEF Payloads
    <2>6. Services' BY DEF Services, Units, Forward, Back, Untouched, DeployTypes
    <2> QED BY <2>1, <2>2, <2>3, <2>4, <2>5, <2>6
  <1>12. CASE Deploy!Active
    <2> USE <1>12 DEF Deploy!Active
    <2>1. DeployTypes' BY DEF DeployTypes
    <2>2. Forward' BY DEF Forward, Untouched, Back, DeployTypes
    <2>3. Back' BY DEF Forward, Untouched, Back, DeployTypes
    <2>4. Units' BY DEF Units, Forward, Back, Untouched
    <2>5. Payloads' BY DEF Payloads
    <2>6. Services' BY DEF Services, Units, Forward, Back, Untouched, DeployTypes
    <2> QED BY <2>1, <2>2, <2>3, <2>4, <2>5, <2>6
  <1>13. CASE Deploy!Fail
    <2> USE <1>13 DEF Deploy!Fail, Deploy!StopsAgain, Deploy!Locked, Deploy!Released
    <2>1. DeployTypes' BY DEF DeployTypes
    <2>2. Forward' BY DEF Forward, Untouched, Back, DeployTypes
    <2>3. Back' BY DEF Forward, Untouched, Back, DeployTypes
    <2>4. Units' BY DEF Units, Forward, Back, Untouched
    <2>5. Payloads' BY DEF Payloads
    <2>6. Services' BY DEF Services, Units, Forward, Back, Untouched, DeployTypes
    <2> QED BY <2>1, <2>2, <2>3, <2>4, <2>5, <2>6
  <1>14. CASE Deploy!StopAgain
    <2> USE <1>14 DEF Deploy!StopAgain
    <2>1. DeployTypes' BY DEF DeployTypes
    <2>2. Forward' BY DEF Forward, Untouched, Back, DeployTypes
    <2>3. Back' BY DEF Forward, Untouched, Back, DeployTypes
    <2>4. Units' BY DEF Units, Forward, Back, Untouched
    <2>5. Payloads' BY DEF Payloads
    <2>6. Services' BY DEF Services, Units, Forward, Back, Untouched, DeployTypes
    <2> QED BY <2>1, <2>2, <2>3, <2>4, <2>5, <2>6
  <1>15. CASE Deploy!LedgerBack
    <2> USE <1>15 DEF Deploy!LedgerBack
    <2>1. DeployTypes' BY DEF DeployTypes
    <2>2. Forward' BY DEF Forward, Untouched, Back, DeployTypes
    <2>3. Back' BY DEF Forward, Untouched, Back, DeployTypes
    <2>4. Units' BY DEF Units, Forward, Back, Untouched
    <2>5. Payloads' BY DEF Payloads
    <2>6. Services' BY DEF Services, Units, Forward, Back, Untouched, DeployTypes
    <2> QED BY <2>1, <2>2, <2>3, <2>4, <2>5, <2>6
  <1>16. CASE Deploy!FilesBack
    <2> USE <1>16 DEF Deploy!FilesBack, Deploy!Restores
    <2>1. DeployTypes' BY DEF DeployTypes
    <2>2. Forward' BY DEF Forward, Untouched, Back, DeployTypes
    <2>3. Back' BY DEF Forward, Untouched, Back, DeployTypes
    <2>4. Units' BY DEF Units, Forward, Back, Untouched
    <2>5. Payloads' BY DEF Payloads
    <2>6. Services' BY DEF Services, Units, Forward, Back, Untouched, DeployTypes
    <2> QED BY <2>1, <2>2, <2>3, <2>4, <2>5, <2>6
  <1>17. CASE Deploy!Edit
    <2> USE <1>17 DEF Deploy!Edit
    <2>1. DeployTypes' BY DEF DeployTypes
    <2>2. Forward' BY DEF Forward, Untouched, Back, DeployTypes
    <2>3. Back' BY DEF Forward, Untouched, Back, DeployTypes
    <2>4. Units' BY DEF Units, Forward, Back, Untouched
    <2>5. Payloads' BY DEF Payloads
    <2>6. Services' BY DEF Services, Units, Forward, Back, Untouched, DeployTypes
    <2> QED BY <2>1, <2>2, <2>3, <2>4, <2>5, <2>6
  <1>18. CASE Deploy!ServiceFails
    <2> USE <1>18 DEF Deploy!ServiceFails
    <2>1. DeployTypes'
      <3>1. service' \in [at : {"up", "down", "failed"}, unit : {"old", "new"},
                          config : {"old", "new", "edited"}]
        BY DEF DeployTypes
      <3>2. failures \in 0..MaxFailures BY DEF DeployTypes
      <3>3. failures' \in 0..MaxFailures BY <3>2
      <3> QED BY <3>1, <3>3 DEF DeployTypes
    <2>2. Forward' BY DEF Forward, Untouched, Back, DeployTypes
    <2>3. Back' BY DEF Forward, Untouched, Back, DeployTypes
    <2>4. Units' BY DEF Units, Forward, Back, Untouched
    <2>5. Payloads' BY DEF Payloads
    <2>6. Services' BY DEF Services, Units, Forward, Back, Untouched, DeployTypes
    <2> QED BY <2>1, <2>2, <2>3, <2>4, <2>5, <2>6
  <1>19. CASE Deploy!SystemdRestart
    <2> USE <1>19 DEF Deploy!SystemdRestart, Deploy!Started
    <2>1. DeployTypes' BY DEF DeployTypes
    <2>2. Forward' BY DEF Forward, Untouched, Back, DeployTypes
    <2>3. Back' BY DEF Forward, Untouched, Back, DeployTypes
    <2>4. Units' BY DEF Units, Forward, Back, Untouched
    <2>5. Payloads' BY DEF Payloads
    <2>6. Services' BY DEF Services, Units, Forward, Back, Untouched, DeployTypes
    <2> QED BY <2>1, <2>2, <2>3, <2>4, <2>5, <2>6
  <1> QED
    BY <1>1, <1>2, <1>3, <1>4, <1>5, <1>6, <1>7, <1>8, <1>9, <1>10, <1>11, <1>12, <1>13, <1>14,
       <1>15, <1>16, <1>17, <1>18, <1>19 DEF Deploy!Next

LEMMA DeployTyped == DeployInv => Deploy!TypeOK
  BY DEF DeployInv, DeployTypes, Deploy!TypeOK, Deploy!Versions, Deploy!Locked, Deploy!Released,
         Deploy!Undoing, Deploy!Ended

\* Wherever a step fails, and whatever somebody edits meanwhile: an upgrade is applied or
\* undone as a whole, and a session upgrade never lets one release run on the configuration
\* of the other (upgrade-session-strategies.py 133-167, activate-profit-exit.py 77-128).
THEOREM AllOrNothingHolds == Spec => []Deploy!AllOrNothing
  <1>1. Init => DeployInv BY PartsStart, DeployStart
  <1>2. DeployInv => Deploy!AllOrNothing
    <2> SUFFICES ASSUME DeployInv PROVE Deploy!AllOrNothing OBVIOUS
    <2>1. step = "applied" => Deploy!files = <<"new", "new", "new">> /\ ~edited
      BY DEF DeployInv, Forward
    <2>2. step = "refused" => Deploy!files = Untouched /\ payload = "old"
      BY DEF DeployInv, Back, Payloads
    <2>3. kind = "session" /\ service.at = "up" => (service.unit = "new" <=> service.config = "new")
      BY DEF DeployInv, Services
    <2> QED BY <2>1, <2>2, <2>3 DEF Deploy!AllOrNothing, Untouched
  <1> QED BY <1>1, <1>2, DeployStep, PTL DEF Spec

----------------------------------------------------------------------------
(* Activation *)

Daemons ==
  [at : {"down", "starting", "up", "failed"}, readOnly : BOOLEAN,
   session : [writes : BOOLEAN, verified : BOOLEAN], source : Nat]
ActivationTypes ==
  /\ source \in Nat \ {0} /\ proof \in Nat
  /\ verification \in [at : {"idle", "testing", "passed"}, of : Nat]
  /\ mandate \in {"off", "live"} /\ authority \in {"off", "live"}
  /\ ledger \in [mandate : {"off", "live"}, disarmed : BOOLEAN, of : Nat, history : BOOLEAN]
  /\ daemon \in Daemons
  /\ activation \in [at : 0..13, of : Nat, disturbed : BOOLEAN]
  /\ wish \in {"none", "go", "stop"}
Switches == interlock \in BOOLEAN /\ loaded \in BOOLEAN
\* A session that may write rests on a mandate that is live in the files and in the ledger,
\* and on an interlock that was lifted; it is lifted when all else is written.
Authority ==
  /\ daemon.session.writes =>
       authority = "live" /\ mandate = "live" /\ ledger.mandate = "live" /\ ~daemon.readOnly
  /\ ~daemon.readOnly => ~interlock
  /\ ~loaded => ~interlock
  /\ ~interlock => ledger.of # 0 /\ wish # "none"
  /\ activation.at >= 7 => wish # "none"
  /\ activation.at >= 8 => ledger.of # 0
\* What the ledger says of arming is the operator's last word.
LastWord == ledger.disarmed <=> wish = "stop"
\* A marker names a version that passed, or that came as it was written.
Proven ==
  /\ daemon.session.verified => daemon.source \in tested \cup slipped
  /\ proof # 0 => proof \in tested \cup slipped
  /\ verification.at = "passed" => source \in tested \cup slipped
Idle == refresh = "checked" => authority = "off" /\ mandate = "off"
ActivationInv == ActivationTypes /\ Switches /\ Authority /\ LastWord /\ Proven /\ Idle

LEMMA ActivationStart == Activation!Init => ActivationInv
  <1> SUFFICES ASSUME Activation!Init PROVE ActivationInv OBVIOUS
  <1> USE DEF Activation!Init, Activation!None, Activation!NoSession
  <1>1. ActivationTypes BY DEF ActivationTypes, Daemons
  <1>2. interlock /\ loaded BY Zenon
  <1>3. daemon.session.writes = FALSE /\ daemon.session.verified = FALSE /\ daemon.readOnly = TRUE
        /\ activation.at = 0 /\ ledger.disarmed = FALSE /\ wish = "none" /\ proof = 0
        /\ verification.at = "idle" /\ refresh = "idle"
    OBVIOUS
  <1>4. Switches BY <1>2 DEF Switches
  <1>5. Authority /\ LastWord /\ Proven /\ Idle
    BY <1>2, <1>3 DEF Authority, LastWord, Proven, Idle
  <1> QED BY <1>1, <1>4, <1>5 DEF ActivationInv

LEMMA StepAt ==
  ASSUME activation \in [at : 0..13, of : Nat, disturbed : BOOLEAN]
  PROVE  /\ \A s \in {"stop", "lock", "mandate", "config", "ledger", "armed", "recorded", "override",
                      "unlock", "timer", "reload", "start"} :
              Activation!At(s) => activation.at \in 1..12
         /\ \A s \in {"stop", "lock", "mandate", "config"} : Activation!At(s) => activation.at < 5
         /\ Activation!At("ledger") => activation.at = 5
         /\ Activation!At("armed") => activation.at = 6
         /\ Activation!At("recorded") => activation.at = 7
         /\ Activation!At("override") => activation.at = 8
         /\ \A s \in {"unlock", "timer", "reload", "start"} : Activation!At(s) => activation.at >= 9
  BY DEF Activation!At, Activation!Steps

LEMMA SessionType ==
  /\ Activation!Session \in [writes : BOOLEAN, verified : BOOLEAN]
  /\ Activation!Session.writes => authority = "live" /\ mandate = "live" /\ ~daemon.readOnly
  /\ Activation!Session.verified => proof = source
  BY DEF Activation!Session, Activation!Verified

\* What a session may do is what the files say as it begins.
LEMMA BeginsKeeps ==
  ASSUME ActivationTypes, Activation!Begins(Activation!Session)
  PROVE  /\ daemon' \in Daemons
         /\ ledger' \in [mandate : {"off", "live"}, disarmed : BOOLEAN, of : Nat, history : BOOLEAN]
         /\ daemon'.session.writes =>
              authority = "live" /\ mandate = "live" /\ ledger'.mandate = "live" /\ ~daemon'.readOnly
         /\ daemon'.session.verified => proof = source
         /\ daemon'.readOnly = daemon.readOnly /\ daemon'.source = source
         /\ ledger'.disarmed = ledger.disarmed /\ ledger'.of = ledger.of
  <1> DEFINE s == Activation!Session
  <1>1. s \in [writes : BOOLEAN, verified : BOOLEAN]
        /\ (s.writes => authority = "live" /\ mandate = "live" /\ ~daemon.readOnly)
        /\ (s.verified => proof = source)
    BY SessionType
  <1>2. /\ daemon' = [daemon EXCEPT !.at = "up", !.session = s, !.source = source]
        /\ ledger' = IF s.writes THEN [ledger EXCEPT !.mandate = mandate] ELSE ledger
    BY DEF Activation!Begins
  <1>3. daemon \in Daemons /\ source \in Nat /\ mandate \in {"off", "live"}
        /\ ledger \in [mandate : {"off", "live"}, disarmed : BOOLEAN, of : Nat, history : BOOLEAN]
    BY DEF ActivationTypes
  <1> HIDE DEF s
  <1>4. daemon' \in Daemons /\ daemon'.session = s /\ daemon'.source = source
        /\ daemon'.readOnly = daemon.readOnly
    BY <1>1, <1>2, <1>3 DEF Daemons
  <1>5. ledger' \in [mandate : {"off", "live"}, disarmed : BOOLEAN, of : Nat, history : BOOLEAN]
        /\ ledger'.disarmed = ledger.disarmed /\ ledger'.of = ledger.of
        /\ (s.writes => ledger'.mandate = mandate)
    BY <1>2, <1>3
  <1> QED BY <1>1, <1>4, <1>5

LEMMA StartedType ==
  ASSUME daemon \in Daemons, NEW lifted \in BOOLEAN
  PROVE  /\ [Activation!Started(daemon) EXCEPT !.readOnly = lifted] \in Daemons
         /\ [Activation!Started(daemon) EXCEPT !.readOnly = lifted].readOnly = lifted
         /\ [Activation!Started(daemon) EXCEPT !.readOnly = lifted].session = Activation!NoSession
         /\ [Activation!Started(daemon) EXCEPT !.readOnly = lifted].source = daemon.source
         /\ loaded = lifted =>
              Activation!Started(daemon) = [Activation!Started(daemon) EXCEPT !.readOnly = lifted]
  BY DEF Activation!Started, Activation!NoSession, Daemons

LEMMA StoppedType ==
  ASSUME daemon \in Daemons
  PROVE  LET stopped == Activation!Stopped(daemon) IN
         /\ stopped \in Daemons /\ [stopped EXCEPT !.at = "failed"] \in Daemons
         /\ stopped.session = Activation!NoSession /\ stopped.readOnly = daemon.readOnly
         /\ stopped.source = daemon.source
  BY DEF Activation!Stopped, Activation!NoSession, Daemons

LEMMA ActivationStep == ActivationInv /\ [Next]_vars => ActivationInv'
  <1> SUFFICES ASSUME ActivationTypes, Switches, Authority, LastWord, Proven, Idle,
                      Activation!Next \/ UNCHANGED admission
               PROVE  ActivationTypes' /\ Switches' /\ Authority' /\ LastWord' /\ Proven' /\ Idle'
    BY PartsStep DEF ActivationInv
  <1> DEFINE Goal ==
        ActivationTypes' /\ Switches' /\ Authority' /\ LastWord' /\ Proven' /\ Idle'
  <1> USE DEF Activation!files, Activation!code, Activation!None, Activation!NoSession
  <1>1. CASE UNCHANGED admission
    <2>1. UNCHANGED <<source, proof, verification, tested, slipped, mandate, authority, interlock,
                      ledger, loaded, daemon, activation, refresh, wish>>
      BY <1>1 DEF admission
    <2>2. ActivationTypes' BY <2>1 DEF ActivationTypes
    <2>3. Switches' BY <2>1, Zenon DEF Switches
    <2>4. Authority' BY <2>1, Zenon DEF Authority
    <2>5. LastWord' /\ Proven' /\ Idle' BY <2>1 DEF LastWord, Proven, Idle
    <2> QED BY <2>2, <2>3, <2>4, <2>5
  <1>2. CASE Activation!Verify
    <2> USE <1>2 DEF Activation!Verify
    <2>1. ActivationTypes' BY StepAt DEF ActivationTypes
    <2>2. Switches' BY Zenon DEF Switches
    <2>3. Authority' BY StepAt DEF Authority, ActivationTypes
    <2>4. LastWord' BY DEF LastWord, ActivationTypes
    <2>5. Proven' BY DEF Proven, ActivationTypes
    <2>6. Idle' BY DEF Idle
    <2> QED BY <2>1, <2>2, <2>3, <2>4, <2>5, <2>6
  <1>3. CASE Activation!Passes
    <2> USE <1>3 DEF Activation!Passes, Activation!Unchanged
    <2>1. ActivationTypes' BY StepAt DEF ActivationTypes
    <2>2. Switches' BY Zenon DEF Switches
    <2>3. Authority' BY StepAt DEF Authority, ActivationTypes
    <2>4. LastWord' BY DEF LastWord, ActivationTypes
    <2>5. Proven' BY DEF Proven, ActivationTypes
    <2>6. Idle' BY DEF Idle
    <2> QED BY <2>1, <2>2, <2>3, <2>4, <2>5, <2>6
  <1>4. CASE Activation!WriteMarker
    <2> USE <1>4 DEF Activation!WriteMarker
    <2>1. ActivationTypes' BY StepAt DEF ActivationTypes
    <2>2. Switches' BY Zenon DEF Switches
    <2>3. Authority' BY StepAt DEF Authority, ActivationTypes
    <2>4. LastWord' BY DEF LastWord, ActivationTypes
    <2>5. Proven' BY DEF Proven, ActivationTypes
    <2>6. Idle' BY DEF Idle
    <2> QED BY <2>1, <2>2, <2>3, <2>4, <2>5, <2>6
  <1>5. CASE Activation!VerificationEnds
    <2> USE <1>5 DEF Activation!VerificationEnds
    <2>1. ActivationTypes' BY StepAt DEF ActivationTypes
    <2>2. Switches' BY Zenon DEF Switches
    <2>3. Authority' BY StepAt DEF Authority, ActivationTypes
    <2>4. LastWord' BY DEF LastWord, ActivationTypes
    <2>5. Proven' BY DEF Proven, ActivationTypes
    <2>6. Idle' BY DEF Idle
    <2> QED BY <2>1, <2>2, <2>3, <2>4, <2>5, <2>6
  <1>6. CASE Activation!Edit
    <2> USE <1>6 DEF Activation!Edit
    <2>1. ActivationTypes' BY StepAt DEF ActivationTypes
    <2>2. Switches' BY Zenon DEF Switches
    <2>3. Authority' BY StepAt DEF Authority, ActivationTypes
    <2>4. LastWord' BY DEF LastWord, ActivationTypes
    <2>5. Proven' BY DEF Proven, ActivationTypes
    <2>6. Idle' BY DEF Idle
    <2> QED BY <2>1, <2>2, <2>3, <2>4, <2>5, <2>6
  <1>7. CASE Activation!Acquire
    <2> USE <1>7 DEF Activation!Acquire
    <2>1. CASE writer = "free"
      <3> USE <2>1
      <3>1. daemon' \in Daemons /\ ledger' \in
              [mandate : {"off", "live"}, disarmed : BOOLEAN, of : Nat, history : BOOLEAN]
        BY BeginsKeeps
      <3>2. /\ daemon'.session.writes =>
                 authority = "live" /\ mandate = "live" /\ ledger'.mandate = "live" /\ ~daemon'.readOnly
            /\ daemon'.session.verified => proof = source
            /\ daemon'.readOnly = daemon.readOnly /\ daemon'.source = source
            /\ ledger'.disarmed = ledger.disarmed /\ ledger'.of = ledger.of
        BY BeginsKeeps
      <3>3. ActivationTypes' BY <3>1 DEF ActivationTypes
      <3>4. Switches' BY Zenon DEF Switches
      <3>5. Authority' BY <3>2 DEF Authority
      <3>6. LastWord' BY <3>2 DEF LastWord
      <3>7. Proven' BY <3>2 DEF Proven, ActivationTypes
      <3>8. Idle' BY DEF Idle
      <3> QED BY <3>3, <3>4, <3>5, <3>6, <3>7, <3>8
    <2>2. CASE writer # "free"
      <3> USE <2>2
      <3>1. daemon' \in Daemons /\ daemon'.session = daemon.session
            /\ daemon'.readOnly = daemon.readOnly /\ daemon'.source = daemon.source
        BY DEF ActivationTypes, Daemons
      <3>2. ActivationTypes' BY <3>1 DEF ActivationTypes
      <3>3. Switches' BY Zenon DEF Switches
      <3>4. Authority' BY <3>1 DEF Authority
      <3>5. LastWord' BY DEF LastWord
      <3>6. Proven' BY <3>1 DEF Proven
      <3>7. Idle' BY DEF Idle
      <3> QED BY <3>2, <3>3, <3>4, <3>5, <3>6, <3>7
    <2> QED BY <2>1, <2>2
  <1>8. CASE Activation!Restart
    <2> USE <1>8 DEF Activation!Restart
    <2>1. daemon' \in Daemons /\ daemon'.session = Activation!NoSession /\ daemon'.source = daemon.source
          /\ (daemon'.readOnly = loaded)
      BY StartedType DEF ActivationTypes, Switches
    <2>2. ~daemon'.session.writes /\ ~daemon'.session.verified BY <2>1
    <2>3. ActivationTypes' BY <2>1, StepAt DEF ActivationTypes
    <2>4. Switches' BY Zenon DEF Switches, Activation!Loaded
    <2>5. Authority' BY <2>1, <2>2, StepAt DEF Authority, ActivationTypes, Switches, Activation!Loaded
    <2>6. LastWord' BY DEF LastWord, ActivationTypes
    <2>7. Proven' BY <2>2 DEF Proven, ActivationTypes
    <2>8. Idle' BY DEF Idle
    <2> QED BY <2>3, <2>4, <2>5, <2>6, <2>7, <2>8
  <1>9. CASE Activation!NewSession
    <2> USE <1>9 DEF Activation!NewSession
    <2>1. daemon' \in Daemons /\ ledger' \in
            [mandate : {"off", "live"}, disarmed : BOOLEAN, of : Nat, history : BOOLEAN]
      BY BeginsKeeps
    <2>2. /\ daemon'.session.writes =>
               authority = "live" /\ mandate = "live" /\ ledger'.mandate = "live" /\ ~daemon'.readOnly
          /\ daemon'.session.verified => proof = source
          /\ daemon'.readOnly = daemon.readOnly /\ daemon'.source = source
          /\ ledger'.disarmed = ledger.disarmed /\ ledger'.of = ledger.of
      BY BeginsKeeps
    <2>3. ActivationTypes' BY <2>1 DEF ActivationTypes
    <2>4. Switches' BY Zenon DEF Switches
    <2>5. Authority' BY <2>2 DEF Authority
    <2>6. LastWord' BY <2>2 DEF LastWord
    <2>7. Proven' BY <2>2 DEF Proven, ActivationTypes
    <2>8. Idle' BY DEF Idle
    <2> QED BY <2>3, <2>4, <2>5, <2>6, <2>7, <2>8
  <1>10. CASE Activation!Crash
    <2> USE <1>10 DEF Activation!Crash
    <2>1. daemon' \in Daemons /\ daemon'.session = Activation!NoSession /\ daemon'.source = daemon.source
          /\ (daemon'.readOnly = daemon.readOnly)
      BY StoppedType DEF ActivationTypes
    <2>2. ~daemon'.session.writes /\ ~daemon'.session.verified BY <2>1
    <2>3. ActivationTypes' BY <2>1, StepAt DEF ActivationTypes
    <2>4. Switches' BY Zenon DEF Switches, Activation!Loaded
    <2>5. Authority' BY <2>1, <2>2, StepAt DEF Authority, ActivationTypes, Switches, Activation!Loaded
    <2>6. LastWord' BY DEF LastWord, ActivationTypes
    <2>7. Proven' BY <2>2 DEF Proven, ActivationTypes
    <2>8. Idle' BY DEF Idle
    <2> QED BY <2>3, <2>4, <2>5, <2>6, <2>7, <2>8
  <1>11. CASE Activation!Trade
    <2> USE <1>11 DEF Activation!Trade
    <2>1. ActivationTypes' BY StepAt DEF ActivationTypes
    <2>2. Switches' BY Zenon DEF Switches
    <2>3. Authority' BY StepAt DEF Authority, ActivationTypes
    <2>4. LastWord' BY DEF LastWord, ActivationTypes
    <2>5. Proven' BY DEF Proven, ActivationTypes
    <2>6. Idle' BY DEF Idle
    <2> QED BY <2>1, <2>2, <2>3, <2>4, <2>5, <2>6
  <1>12. CASE Activation!Activate
    <2> USE <1>12 DEF Activation!Activate, Activation!Ended
    <2>1. ActivationTypes' BY StepAt DEF ActivationTypes
    <2>2. Switches' BY Zenon DEF Switches
    <2>3. Authority' BY StepAt DEF Authority, ActivationTypes
    <2>4. LastWord' BY DEF LastWord, ActivationTypes
    <2>5. Proven' BY DEF Proven, ActivationTypes
    <2>6. Idle' BY DEF Idle
    <2> QED BY <2>1, <2>2, <2>3, <2>4, <2>5, <2>6
  <1>13. CASE Activation!StopService
    <2> USE <1>13 DEF Activation!StopService, Activation!Advance
    <2>1. daemon' \in Daemons /\ daemon'.session = Activation!NoSession /\ daemon'.source = daemon.source
          /\ (daemon'.readOnly = daemon.readOnly)
      BY StoppedType DEF ActivationTypes
    <2>2. ~daemon'.session.writes /\ ~daemon'.session.verified BY <2>1
    <2>3. ActivationTypes' BY <2>1, StepAt DEF ActivationTypes
    <2>4. Switches' BY Zenon DEF Switches, Activation!Loaded
    <2>5. Authority' BY <2>1, <2>2, StepAt DEF Authority, ActivationTypes, Switches, Activation!Loaded
    <2>6. LastWord' BY DEF LastWord, ActivationTypes
    <2>7. Proven' BY <2>2 DEF Proven, ActivationTypes
    <2>8. Idle' BY DEF Idle
    <2> QED BY <2>3, <2>4, <2>5, <2>6, <2>7, <2>8
  <1>14. CASE Activation!TakeLock
    <2> USE <1>14 DEF Activation!TakeLock, Activation!Advance
    <2>1. ActivationTypes' BY StepAt DEF ActivationTypes
    <2>2. Switches' BY Zenon DEF Switches
    <2>3. Authority' BY StepAt DEF Authority, ActivationTypes
    <2>4. LastWord' BY DEF LastWord, ActivationTypes
    <2>5. Proven' BY DEF Proven, ActivationTypes
    <2>6. Idle' BY DEF Idle
    <2> QED BY <2>1, <2>2, <2>3, <2>4, <2>5, <2>6
  <1>15. CASE Activation!WriteFiles
    <2> USE <1>15 DEF Activation!WriteFiles, Activation!Advance
    <2>1. ActivationTypes' BY StepAt DEF ActivationTypes
    <2>2. Switches' BY Zenon DEF Switches
    <2>3. Authority' BY StepAt DEF Authority, ActivationTypes
    <2>4. LastWord' BY DEF LastWord, ActivationTypes
    <2>5. Proven' BY DEF Proven, ActivationTypes
    <2>6. Idle' BY DEF Idle
    <2> QED BY <2>1, <2>2, <2>3, <2>4, <2>5, <2>6
  <1>16. CASE Activation!WriteLedger
    <2> USE <1>16 DEF Activation!WriteLedger, Activation!Advance
    <2>1. ledger' \in [mandate : {"off", "live"}, disarmed : BOOLEAN, of : Nat, history : BOOLEAN]
          /\ wish' \in {"none", "go", "stop"}
      <3>1. CASE Activation!At("ledger") /\ ledger' = [ledger EXCEPT !.mandate = "live"] /\ UNCHANGED wish
        BY <3>1 DEF ActivationTypes
      <3>2. CASE Activation!At("armed") /\ ledger' = [ledger EXCEPT !.disarmed = FALSE] /\ wish' = "go"
        BY <3>2 DEF ActivationTypes
      <3>3. CASE Activation!At("recorded") /\ ledger' = [ledger EXCEPT !.of = source] /\ UNCHANGED wish
        BY <3>3 DEF ActivationTypes
      <3> QED BY <3>1, <3>2, <3>3
    <2>2. activation' \in [at : 0..13, of : Nat, disturbed : BOOLEAN] BY StepAt DEF ActivationTypes
    <2>3. ActivationTypes' BY <2>1, <2>2 DEF ActivationTypes
    <2>4. Switches' BY Zenon DEF Switches
    <2>5. Authority' BY StepAt DEF Authority, ActivationTypes
    <2>6. LastWord' BY DEF LastWord, ActivationTypes
    <2>7. Proven' BY DEF Proven
    <2>8. Idle' BY DEF Idle
    <2> QED BY <2>3, <2>4, <2>5, <2>6, <2>7, <2>8
  <1>17. CASE Activation!Unlock
    <2> USE <1>17 DEF Activation!Unlock, Activation!Advance
    <2>1. ActivationTypes' BY StepAt DEF ActivationTypes
    <2>2. Switches' BY Zenon DEF Switches
    <2>3. Authority' BY StepAt DEF Authority, ActivationTypes
    <2>4. LastWord' BY DEF LastWord, ActivationTypes
    <2>5. Proven' BY DEF Proven, ActivationTypes
    <2>6. Idle' BY DEF Idle
    <2> QED BY <2>1, <2>2, <2>3, <2>4, <2>5, <2>6
  <1>18. CASE Activation!CallSystemd
    <2> USE <1>18 DEF Activation!CallSystemd, Activation!Advance, Activation!Loaded
    <2>1. /\ daemon' \in Daemons /\ daemon'.source = daemon.source
          /\ \/ daemon' = daemon
             \/ UNCHANGED loaded /\ daemon'.session = Activation!NoSession /\ daemon'.readOnly = loaded
      <3>1. CASE UNCHANGED daemon BY <3>1 DEF ActivationTypes
      <3>2. CASE UNCHANGED loaded /\ daemon' = Activation!Started(daemon)
        BY <3>2, StartedType DEF ActivationTypes, Switches
      <3> QED BY <3>1, <3>2
    <2>2. (daemon'.session.writes => daemon' = daemon) /\ (daemon'.session.verified => daemon' = daemon)
      BY <2>1
    <2>3. activation' \in [at : 0..13, of : Nat, disturbed : BOOLEAN] /\ activation.at >= 9
      BY StepAt DEF ActivationTypes
    <2>4. ActivationTypes' BY <2>1, <2>3 DEF ActivationTypes
    <2>5. loaded' = loaded \/ loaded' = interlock BY Zenon
    <2>6. Switches' BY <2>5, Zenon DEF Switches
    <2>7. wish # "none" /\ ledger.of # 0 BY <2>3 DEF Authority, ActivationTypes
    <2>8. ~daemon'.readOnly => ~interlock
      <3>1. CASE daemon' = daemon BY <3>1 DEF Authority
      <3>2. CASE daemon'.readOnly = loaded BY <3>2 DEF Authority
      <3> QED BY <2>1, <3>1, <3>2
    <2>9. ~loaded' => ~interlock BY <2>5, Zenon DEF Authority
    <2>10. daemon'.session.writes =>
             authority = "live" /\ mandate = "live" /\ ledger.mandate = "live" /\ ~daemon'.readOnly
      BY <2>2 DEF Authority
    <2>11. Authority' BY <2>7, <2>8, <2>9, <2>10 DEF Authority
    <2>12. LastWord' BY DEF LastWord
    <2>13. Proven' BY <2>2 DEF Proven
    <2>14. Idle' BY DEF Idle
    <2> QED BY <2>4, <2>6, <2>11, <2>12, <2>13, <2>14
  <1>19. CASE Activation!ToolEnds
    <2> USE <1>19 DEF Activation!ToolEnds
    <2>1. ActivationTypes' BY StepAt DEF ActivationTypes
    <2>2. Switches' BY Zenon DEF Switches
    <2>3. Authority' BY StepAt DEF Authority, ActivationTypes
    <2>4. LastWord' BY DEF LastWord, ActivationTypes
    <2>5. Proven' BY DEF Proven, ActivationTypes
    <2>6. Idle' BY DEF Idle
    <2> QED BY <2>1, <2>2, <2>3, <2>4, <2>5, <2>6
  <1>20. CASE Activation!RefreshCheck
    <2> USE <1>20 DEF Activation!RefreshCheck, Activation!Refreshable
    <2>1. ActivationTypes' BY StepAt DEF ActivationTypes
    <2>2. Switches' BY Zenon DEF Switches
    <2>3. Authority' BY StepAt DEF Authority, ActivationTypes
    <2>4. LastWord' BY DEF LastWord, ActivationTypes
    <2>5. Proven' BY DEF Proven, ActivationTypes
    <2>6. Idle' BY DEF Idle
    <2> QED BY <2>1, <2>2, <2>3, <2>4, <2>5, <2>6
  <1>21. CASE Activation!RefreshRestart
    <2> USE <1>21 DEF Activation!RefreshRestart
    <2>1. daemon' \in Daemons /\ daemon'.session = Activation!NoSession /\ daemon'.source = daemon.source
          /\ (daemon'.readOnly = loaded)
      BY StartedType DEF ActivationTypes, Switches
    <2>2. ~daemon'.session.writes /\ ~daemon'.session.verified BY <2>1
    <2>3. ActivationTypes' BY <2>1, StepAt DEF ActivationTypes
    <2>4. Switches' BY Zenon DEF Switches, Activation!Loaded
    <2>5. Authority' BY <2>1, <2>2, StepAt DEF Authority, ActivationTypes, Switches, Activation!Loaded
    <2>6. LastWord' BY DEF LastWord, ActivationTypes
    <2>7. Proven' BY <2>2 DEF Proven, ActivationTypes
    <2>8. Idle' BY DEF Idle
    <2> QED BY <2>3, <2>4, <2>5, <2>6, <2>7, <2>8
  <1>22. CASE Activation!Enable
    <2> USE <1>22 DEF Activation!Enable
    <2>1. ActivationTypes' BY StepAt DEF ActivationTypes
    <2>2. Switches' BY Zenon DEF Switches
    <2>3. Authority' BY StepAt DEF Authority, ActivationTypes
    <2>4. LastWord' BY DEF LastWord, ActivationTypes
    <2>5. Proven' BY DEF Proven, ActivationTypes
    <2>6. Idle' BY DEF Idle
    <2> QED BY <2>1, <2>2, <2>3, <2>4, <2>5, <2>6
  <1>23. CASE Activation!Disarm
    <2> USE <1>23 DEF Activation!Disarm
    <2>1. ActivationTypes' BY StepAt DEF ActivationTypes
    <2>2. Switches' BY Zenon DEF Switches
    <2>3. Authority' BY StepAt DEF Authority, ActivationTypes
    <2>4. LastWord' BY DEF LastWord, ActivationTypes
    <2>5. Proven' BY DEF Proven, ActivationTypes
    <2>6. Idle' BY DEF Idle
    <2> QED BY <2>1, <2>2, <2>3, <2>4, <2>5, <2>6
  <1>24. ASSUME NEW starts \in BOOLEAN, Activation!Boot(starts) PROVE Goal
    <2> USE <1>24 DEF Activation!Boot, Activation!Loaded
    <2>1. daemon' \in Daemons /\ daemon'.session = Activation!NoSession /\ daemon'.source = daemon.source
          /\ (daemon'.readOnly = interlock \/ daemon'.readOnly = daemon.readOnly)
      BY StartedType, StoppedType DEF ActivationTypes, Switches
    <2>2. ~daemon'.session.writes /\ ~daemon'.session.verified BY <2>1
    <2>3. activation' \in [at : 0..13, of : Nat, disturbed : BOOLEAN]
          /\ (activation'.at = activation.at \/ activation'.at = 0)
      BY DEF ActivationTypes
    <2>4. ActivationTypes' BY <2>1, <2>3 DEF ActivationTypes
    <2>5. Switches' BY Zenon DEF Switches
    <2>6. (~daemon'.readOnly => ~interlock) BY <2>1 DEF Authority
    <2>7. ~loaded' => ~interlock BY Zenon
    <2>8. Authority' BY <2>2, <2>3, <2>6, <2>7 DEF Authority
    <2>9. LastWord' BY DEF LastWord
    <2>10. Proven' BY <2>2 DEF Proven, ActivationTypes
    <2>11. Idle' BY DEF Idle
    <2> QED BY <2>4, <2>5, <2>8, <2>9, <2>10, <2>11
  <1> QED
    BY <1>1, <1>2, <1>3, <1>4, <1>5, <1>6, <1>7, <1>8, <1>9, <1>10, <1>11, <1>12, <1>13, <1>14,
       <1>15, <1>16, <1>17, <1>18, <1>19, <1>20, <1>21, <1>22, <1>23, <1>24
       DEF Activation!Next, Activation!ServiceSteps, Activation!ToolSteps

LEMMA ActivationAlways == Spec => []ActivationInv
  <1>1. Init => ActivationInv BY PartsStart, ActivationStart
  <1> QED BY <1>1, ActivationStep, PTL DEF Spec

\* Whatever is killed, booted or started by itself, no process may send orders before the
\* operator's activation is complete, or after the operator said to stop (activate-live.py,
\* service.py run_service, cli.py enable and disarm).
THEOREM OrdersAreAuthorisedHolds == Spec => []Activation!OrdersAreAuthorised
  <1>1. ActivationInv => Activation!OrdersAreAuthorised
    <2> SUFFICES ASSUME ActivationInv, Activation!MayOrder
                 PROVE  /\ authority = "live" /\ mandate = "live" /\ ledger.mandate = "live"
                        /\ ledger.of # 0 /\ wish = "go"
      BY DEF Activation!OrdersAreAuthorised, Activation!None
    <2>1. daemon.session.writes /\ ~ledger.disarmed BY DEF Activation!MayOrder
    <2>2. authority = "live" /\ mandate = "live" /\ ledger.mandate = "live" /\ ~daemon.readOnly
      BY <2>1 DEF ActivationInv, Authority
    <2>3. ledger.of # 0 /\ wish # "none" BY <2>2 DEF ActivationInv, Authority
    <2>4. wish # "stop" BY <2>1 DEF ActivationInv, LastWord
    <2> QED BY <2>2, <2>3, <2>4 DEF ActivationInv, ActivationTypes
  <1> QED BY <1>1, ActivationAlways, PTL

\* A session that takes its source for verified began on a version that passed the tests, or
\* on one that was put there between the comparison and the marker (release.py
\* run_verification, write_verification).
THEOREM VerifiedIsTestedHolds == Spec => []Activation!VerifiedIsTested
  <1>1. ActivationInv => Activation!VerifiedIsTested
    BY DEF ActivationInv, Proven, Activation!VerifiedIsTested
  <1> QED BY <1>1, ActivationAlways, PTL

\* The daily restart does not hit a process that may send orders, unless the activation began
\* between its check and the restart (session_refresh.py).
THEOREM FundedNotRestartedHolds == Spec => Activation!FundedNotRestarted
  <1>1. ActivationInv => (refresh = "checked" => ~daemon.session.writes)
    BY DEF ActivationInv, Authority, Idle
  <1>2. ActivationInv => [refresh = "checked" /\ refresh' = "idle" /\ mishaps' = mishaps
                            => ~daemon.session.writes]_Activation!vars
    BY <1>1
  <1> QED BY <1>2, ActivationAlways, PTL DEF Activation!FundedNotRestarted

----------------------------------------------------------------------------
(* Paper *)

PaperOrders == [side : {"none", "BUY", "SELL"}, limit : Nat, due : Int, deadline : Int]
PaperPositions == [entry : Nat, debit : Nat, deadline : Int, triggered : BOOLEAN]
PaperRows ==
  [cash : Nat, net : Int, signals : Nat, entries : Nat, closed : Nat, missed : Nat,
   pending : PaperOrders, position : PaperPositions, last : Nat]
\* A purchase that waits has its signal; a position keeps the fees of its way out.
Balanced(first, r) ==
  /\ r \in PaperRows
  /\ r.cash + r.position.debit = first + r.net
  /\ r.entries = r.closed + (IF r.position # Paper!NoPosition THEN 1 ELSE 0)
  /\ r.entries + (IF r.pending.side = "BUY" THEN 1 ELSE 0) <= r.signals
  /\ r.pending.side = "SELL" => r.position # Paper!NoPosition
  /\ r.pending.side = "BUY" => r.position = Paper!NoPosition
  /\ r.pending.side # "none" => r.pending.limit >= 1
  /\ r.pending.side = "none" => r.pending = Paper!NoOrder
  /\ r.position # Paper!NoPosition => r.cash >= 3 * Fee /\ r.position.entry >= 1
Counted(r) == r.signals + r.closed + r.missed
PaperInv ==
  /\ second \in Nat /\ episodes \in Nat /\ ruled \in Nat /\ top.bid \in Int
  /\ running \in BOOLEAN
  /\ running => firstCash \in Nat /\ Balanced(firstCash, account)
  /\ history # Paper!NoHistory => history.initial \in Nat /\ Balanced(history.initial, history.row)
  /\ running /\ history # Paper!NoHistory => Counted(history.row) <= Counted(account)

LEMMA PaperConstants ==
  /\ Asks \subseteq Nat \ {0} /\ Bankrolls \subseteq Nat /\ Fee \in Nat
  /\ Delay \in Nat /\ Hold \in Nat
  BY ServicesAssumption

LEMMA SavedIsHistory ==
  ASSUME NEW first, NEW r
  PROVE  [initial |-> first, row |-> r] # Paper!NoHistory
  BY DEF Paper!NoHistory

LEMMA FreshBalanced ==
  ASSUME NEW bankroll \in Nat
  PROVE  Balanced(bankroll, Paper!Fresh(bankroll))
  BY PaperConstants
     DEF Balanced, PaperRows, PaperOrders, PaperPositions, Paper!Fresh, Paper!NoOrder, Paper!NoPosition

LEMMA BalancedAdds ==
  ASSUME NEW first \in Nat, NEW r, Balanced(first, r)
  PROVE  Paper!Adds(first, r)
  <1>1. r.cash \in Nat /\ r.entries \in Nat /\ r.signals \in Nat BY DEF Balanced, PaperRows
  <1>2. r.entries <= r.signals BY <1>1 DEF Balanced
  <1> QED BY <1>1, <1>2 DEF Balanced, Paper!Adds

LEMMA PaperStart == Paper!Init => PaperInv
  <1> SUFFICES ASSUME Paper!Init PROVE PaperInv OBVIOUS
  <1>1. second \in Nat /\ episodes \in Nat /\ ruled \in Nat /\ top.bid \in Int
    BY DEF Paper!Init, Paper!NoBook
  <1>2. running = FALSE /\ history = Paper!NoHistory BY Zenon DEF Paper!Init
  <1> QED BY <1>1, <1>2 DEF PaperInv

\* What the steps make of a row is a row.
LEMMA RowUpdate ==
  ASSUME NEW r \in PaperRows, NEW cash \in Nat, NEW net \in Int, NEW n \in Nat, NEW m \in Nat,
         NEW o \in PaperOrders, NEW p \in PaperPositions
  PROVE  /\ [r EXCEPT !.pending = o, !.missed = n] \in PaperRows
         /\ [r EXCEPT !.missed = n, !.pending = o] \in PaperRows
         /\ [r EXCEPT !.pending = o] \in PaperRows
         /\ [r EXCEPT !.position = p] \in PaperRows
         /\ [r EXCEPT !.last = m, !.signals = n] \in PaperRows
         /\ [r EXCEPT !.cash = cash, !.entries = n, !.pending = o, !.position = p] \in PaperRows
         /\ [r EXCEPT !.cash = cash, !.net = net, !.closed = n, !.pending = o, !.position = p]
              \in PaperRows
  <1>1. [r EXCEPT !.pending = o, !.missed = n] \in PaperRows BY DEF PaperRows
  <1>2. [r EXCEPT !.missed = n, !.pending = o] \in PaperRows BY DEF PaperRows
  <1>3. [r EXCEPT !.pending = o] \in PaperRows /\ [r EXCEPT !.position = p] \in PaperRows
    BY DEF PaperRows
  <1>4. [r EXCEPT !.last = m, !.signals = n] \in PaperRows BY DEF PaperRows
  <1>5. [r EXCEPT !.cash = cash, !.entries = n, !.pending = o, !.position = p] \in PaperRows
    BY DEF PaperRows
  <1>6. [r EXCEPT !.cash = cash, !.net = net, !.closed = n, !.pending = o, !.position = p]
          \in PaperRows
    BY DEF PaperRows
  <1> QED BY <1>1, <1>2, <1>3, <1>4, <1>5, <1>6

\* Nothing but the orders of the strategy change its row.
LEMMA RowKeeps ==
  ASSUME NEW first \in Nat, Balanced(first, account), second \in Nat, ruled \in Nat, top.bid \in Int,
         \/ Paper!AwaitQuote \/ Paper!Buy \/ Paper!Sell \/ Paper!Watch \/ Paper!Signal
  PROVE  Balanced(first, account') /\ Counted(account) <= Counted(account')
  <1> DEFINE pending == account.pending
             position == account.position
             Goal == Balanced(first, account') /\ Counted(account) <= Counted(account')
  <1>1. /\ account \in PaperRows /\ pending \in PaperOrders /\ position \in PaperPositions
        /\ account.cash \in Nat /\ account.net \in Int /\ account.signals \in Nat
        /\ account.entries \in Nat /\ account.closed \in Nat /\ account.missed \in Nat
        /\ account.last \in Nat
    BY DEF Balanced, PaperRows
  <1>2. /\ pending.side \in {"none", "BUY", "SELL"} /\ pending.limit \in Nat
        /\ position.entry \in Nat /\ position.debit \in Nat /\ position.deadline \in Int
        /\ position.triggered \in BOOLEAN /\ pending.due \in Int /\ pending.deadline \in Int
    BY <1>1 DEF PaperOrders, PaperPositions
  <1>3. Fee \in Nat /\ Delay \in Nat /\ Hold \in Nat BY PaperConstants
  <1>4. Paper!NoOrder \in PaperOrders /\ Paper!NoOrder.side = "none"
        /\ Paper!NoPosition \in PaperPositions /\ Paper!NoPosition.debit = 0
        /\ Paper!NoPosition.entry = 0
    BY DEF Paper!NoOrder, Paper!NoPosition, PaperOrders, PaperPositions
  <1>5. ASSUME account' = Paper!Missed, pending.side = "BUY" \/ position = Paper!NoPosition
        PROVE  Goal
    <2>1. account' = [account EXCEPT !.pending = Paper!NoOrder, !.missed = account.missed + 1]
      BY <1>5 DEF Paper!Missed
    <2>2. /\ account' \in PaperRows /\ account'.cash = account.cash /\ account'.net = account.net
          /\ account'.signals = account.signals /\ account'.entries = account.entries
          /\ account'.closed = account.closed /\ account'.missed = account.missed + 1
          /\ account'.pending = Paper!NoOrder /\ account'.position = position
      <3>1. account.missed + 1 \in Nat BY <1>1
      <3>2. account' \in PaperRows BY <1>1, <1>4, <2>1, <3>1, RowUpdate
      <3> QED BY <1>1, <2>1, <3>2 DEF PaperRows
    <2>3. account.entries <= account.signals BY <1>1 DEF Balanced
    <2>4. Balanced(first, account') BY <1>1, <1>4, <2>2, <2>3 DEF Balanced
    <2> QED BY <1>1, <2>2, <2>4 DEF Counted
  <1>6. CASE Paper!AwaitQuote
    <2>1. position = Paper!NoPosition /\ account' = Paper!Missed
      BY <1>6 DEF Paper!AwaitQuote, Paper!Open, Paper!Position
    <2> QED BY <1>5, <2>1
  <1>7. CASE Paper!Buy
    <2>1. pending.side = "BUY" BY <1>7 DEF Paper!Buy, Paper!Pending
    <2>2. CASE account' = Paper!Missed BY <1>5, <2>1, <2>2
    <2>3. CASE account' = Paper!Bought /\ Paper!Affordable(pending.limit)
      <3> DEFINE bought == [entry |-> pending.limit, debit |-> pending.limit + Fee,
                            deadline |-> pending.deadline, triggered |-> FALSE]
      <3>1. account' = [account EXCEPT !.cash = account.cash - (pending.limit + Fee),
                          !.entries = account.entries + 1, !.pending = Paper!NoOrder,
                          !.position = bought]
        BY <2>3 DEF Paper!Bought, Paper!Debit, Paper!Pending
      <3>2. 100 * (pending.limit + Fee + 3 * Fee) <= 95 * account.cash
        BY <2>3 DEF Paper!Affordable, Paper!Debit, Paper!SellFees
      <3>3. pending.limit >= 1 /\ position = Paper!NoPosition BY <2>1 DEF Balanced
      <3>4. account.cash - (pending.limit + Fee) \in Nat
            /\ account.cash - (pending.limit + Fee) >= 3 * Fee
        BY <1>1, <1>2, <1>3, <3>2
      <3>5. bought \in PaperPositions /\ bought.debit = pending.limit + Fee
            /\ bought.entry = pending.limit
        BY <1>2, <1>3 DEF PaperPositions
      <3>6. bought # Paper!NoPosition BY <3>3, <3>5, <1>4
      <3> HIDE DEF bought
      <3>7. /\ account' \in PaperRows /\ account'.cash = account.cash - (pending.limit + Fee)
            /\ account'.net = account.net /\ account'.signals = account.signals
            /\ account'.entries = account.entries + 1 /\ account'.closed = account.closed
            /\ account'.missed = account.missed /\ account'.pending = Paper!NoOrder
            /\ account'.position = bought
        <4>1. account.entries + 1 \in Nat BY <1>1
        <4>2. account' \in PaperRows BY <1>1, <1>4, <3>1, <3>4, <3>5, <4>1, RowUpdate
        <4> QED BY <1>1, <3>1, <4>2 DEF PaperRows
      <3>8. account.entries = account.closed /\ account.entries + 1 <= account.signals
            /\ account.cash = first + account.net
        BY <1>1, <1>4, <2>1, <3>3 DEF Balanced
      <3>9. account'.cash + account'.position.debit = first + account'.net
        BY <1>1, <1>2, <1>3, <3>5, <3>7, <3>8
      <3>10. account'.cash >= 3 * Fee /\ account'.position.entry >= 1 BY <3>3, <3>4, <3>5, <3>7
      <3>11. account'.entries = account'.closed + 1 /\ account'.entries <= account'.signals
        BY <1>1, <3>7, <3>8
      <3>12. Balanced(first, account') BY <1>1, <1>4, <3>6, <3>7, <3>9, <3>10, <3>11 DEF Balanced
      <3> QED BY <1>1, <3>7, <3>12 DEF Counted
    <2> QED BY <1>7, <2>2, <2>3 DEF Paper!Buy, Paper!Pending
  <1>8. CASE Paper!Sell
    <2>1. pending.side = "SELL" BY <1>8 DEF Paper!Sell, Paper!Pending
    <2>2. position # Paper!NoPosition /\ pending.limit >= 1 /\ account.cash >= 3 * Fee
          /\ position.entry >= 1 /\ account.entries = account.closed + 1
          /\ account.cash + position.debit = first + account.net /\ account.entries <= account.signals
      BY <1>1, <2>1 DEF Balanced
    <2>3. CASE account' = Paper!Sold
      <3> DEFINE x == Paper!Proceeds
                 cash == account.cash + x
                 net == account.net + (x - position.debit)
      <3>1. account' = [account EXCEPT !.cash = cash, !.net = net, !.closed = account.closed + 1,
                          !.pending = Paper!NoOrder, !.position = Paper!NoPosition]
        BY <2>3 DEF Paper!Sold, Paper!Position
      <3>2. x = pending.limit - Fee BY <1>3 DEF Paper!Proceeds, Paper!Pending, Paper!SellFees
      <3> HIDE DEF x
      <3>3. cash \in Nat /\ net \in Int /\ cash + 0 = first + net /\ account.closed + 1 \in Nat
        BY <1>1, <1>2, <1>3, <2>2, <3>2
      <3> HIDE DEF cash, net
      <3>4. account' \in PaperRows BY <1>1, <1>4, <3>1, <3>3, RowUpdate
      <3>5. /\ account'.cash = cash /\ account'.net = net
            /\ account'.signals = account.signals /\ account'.entries = account.entries
            /\ account'.closed = account.closed + 1 /\ account'.missed = account.missed
            /\ account'.pending = Paper!NoOrder /\ account'.position = Paper!NoPosition
        BY <1>1, <3>1 DEF PaperRows
      <3>6. account'.entries = account'.closed /\ account'.entries <= account'.signals
        BY <1>1, <2>2, <3>5
      <3>7. Balanced(first, account') BY <1>1, <1>4, <3>3, <3>4, <3>5, <3>6 DEF Balanced
      <3> QED BY <1>1, <3>5, <3>7 DEF Counted
    <2>4. CASE account' = [account EXCEPT !.missed = @ + 1,
                             !.pending.limit = Paper!Below(top.bid), !.pending.due = second + Delay]
      <3>1. Paper!Below(top.bid) \in Nat /\ Paper!Below(top.bid) >= 1 BY DEF Paper!Below
      <3>2. account' = [account EXCEPT !.missed = account.missed + 1,
                          !.pending = [pending EXCEPT !.limit = Paper!Below(top.bid),
                                                      !.due = second + Delay]]
        BY <1>1, <2>4 DEF PaperRows
      <3> DEFINE lower == [pending EXCEPT !.limit = Paper!Below(top.bid), !.due = second + Delay]
      <3>3. lower \in PaperOrders /\ lower.side = "SELL" /\ lower.limit >= 1
        <4>1. second + Delay \in Int BY <1>3
        <4> QED BY <1>1, <2>1, <3>1, <4>1 DEF PaperOrders
      <3> HIDE DEF lower
      <3>4. /\ account' \in PaperRows /\ account'.cash = account.cash /\ account'.net = account.net
            /\ account'.signals = account.signals /\ account'.entries = account.entries
            /\ account'.closed = account.closed /\ account'.missed = account.missed + 1
            /\ account'.pending = lower /\ account'.position = position
        <4>1. account.missed + 1 \in Nat BY <1>1
        <4>2. account' = [account EXCEPT !.missed = account.missed + 1, !.pending = lower]
          BY <3>2 DEF lower
        <4>3. \A n \in Nat, o \in PaperOrders :
                [account EXCEPT !.missed = n, !.pending = o] \in PaperRows
          BY <1>1 DEF PaperRows
        <4>4. account' \in PaperRows BY <3>3, <4>1, <4>2, <4>3
        <4> QED BY <1>1, <4>2, <4>4 DEF PaperRows
      <3>5. Balanced(first, account') BY <1>1, <2>2, <3>3, <3>4 DEF Balanced
      <3> QED BY <1>1, <3>4, <3>5 DEF Counted
    <2> QED BY <1>8, <2>3, <2>4 DEF Paper!Sell
  <1>9. CASE Paper!Watch
    <2>1. PICK triggered \in BOOLEAN, leave \in BOOLEAN :
            LET guarded == [account EXCEPT !.position.triggered = @ \/ triggered]
            IN account' = IF leave
                          THEN [guarded EXCEPT !.pending =
                                  [side |-> "SELL", limit |-> Paper!Below(top.bid),
                                   due |-> second + Delay, deadline |-> 0]]
                          ELSE guarded
      BY <1>9 DEF Paper!Watch
    <2>2. position # Paper!NoPosition /\ pending = Paper!NoOrder
      BY <1>9 DEF Paper!Watch, Paper!Open, Paper!Position, Paper!Pending
    <2>3. account.cash >= 3 * Fee /\ position.entry >= 1 /\ account.entries = account.closed + 1
          /\ account.cash + position.debit = first + account.net /\ account.entries <= account.signals
      BY <1>1, <1>4, <2>2 DEF Balanced
    <2> DEFINE kept == [position EXCEPT !.triggered = @ \/ triggered]
               sale == [side |-> "SELL", limit |-> Paper!Below(top.bid), due |-> second + Delay,
                        deadline |-> 0]
               guarded == [account EXCEPT !.position = kept]
    <2>4. Paper!Below(top.bid) \in Nat /\ Paper!Below(top.bid) >= 1 BY DEF Paper!Below
    <2>5. sale \in PaperOrders /\ sale.side = "SELL" /\ sale.limit >= 1
      BY <1>3, <2>4 DEF PaperOrders
    <2>6. kept \in PaperPositions /\ kept.debit = position.debit /\ kept.entry = position.entry
      BY <1>1 DEF PaperPositions
    <2>7. kept # Paper!NoPosition
      <3>1. kept.entry >= 1 /\ Paper!NoPosition.entry = 0 BY <1>4, <2>3, <2>6
      <3> HIDE DEF kept
      <3> QED BY <3>1
    <2>8. [account EXCEPT !.position.triggered = @ \/ triggered] = guarded
      BY <1>1 DEF PaperRows
    <2>9. account' = IF leave THEN [guarded EXCEPT !.pending = sale] ELSE guarded BY <2>1, <2>8
    <2> HIDE DEF kept, sale
    <2>10. /\ account' \in PaperRows /\ account'.cash = account.cash /\ account'.net = account.net
           /\ account'.signals = account.signals /\ account'.entries = account.entries
           /\ account'.closed = account.closed /\ account'.missed = account.missed
           /\ account'.pending \in {sale, Paper!NoOrder} /\ account'.position = kept
      BY <1>1, <1>4, <2>2, <2>5, <2>6, <2>9 DEF PaperRows
    <2>11. Balanced(first, account') BY <1>1, <1>4, <2>3, <2>5, <2>6, <2>7, <2>10 DEF Balanced
    <2> QED BY <1>1, <2>10, <2>11 DEF Counted
  <1>10. CASE Paper!Signal
    <2>1. position = Paper!NoPosition /\ pending = Paper!NoOrder
      BY <1>10 DEF Paper!Signal, Paper!Open, Paper!Position, Paper!Pending
    <2>2. account.entries = account.closed /\ account.entries <= account.signals
          /\ account.cash = first + account.net
      BY <1>1, <1>4, <2>1 DEF Balanced
    <2> DEFINE counted == [account EXCEPT !.last = ruled, !.signals = account.signals + 1]
    <2>3. /\ counted \in PaperRows /\ counted.cash = account.cash /\ counted.net = account.net
          /\ counted.signals = account.signals + 1 /\ counted.entries = account.entries
          /\ counted.closed = account.closed /\ counted.missed = account.missed
          /\ counted.pending = Paper!NoOrder /\ counted.position = Paper!NoPosition
      <3>1. account.signals + 1 \in Nat BY <1>1
      <3>2. counted \in PaperRows BY <1>1, <3>1, RowUpdate
      <3> QED BY <1>1, <2>1, <3>2 DEF PaperRows
    <2>4. \/ account' = counted
          \/ \E limit \in Paper!Limits :
               account' = [counted EXCEPT !.pending =
                             [side |-> "BUY", limit |-> limit, due |-> second + Delay,
                              deadline |-> second + Hold]]
      BY <1>10 DEF Paper!Signal
    <2> HIDE DEF counted
    <2>5. CASE account' = counted
      <3>1. Balanced(first, account') BY <1>1, <1>4, <2>2, <2>3, <2>5 DEF Balanced
      <3> QED BY <1>1, <2>3, <2>5, <3>1 DEF Counted
    <2>6. ASSUME NEW limit \in Paper!Limits,
                 account' = [counted EXCEPT !.pending =
                               [side |-> "BUY", limit |-> limit, due |-> second + Delay,
                                deadline |-> second + Hold]]
          PROVE  Goal
      <3> DEFINE buy == [side |-> "BUY", limit |-> limit, due |-> second + Delay,
                         deadline |-> second + Hold]
      <3>1. limit \in Nat /\ limit >= 1 BY PaperConstants DEF Paper!Limits
      <3>2. buy \in PaperOrders /\ buy.side = "BUY" /\ buy.limit >= 1
        BY <1>3, <3>1 DEF PaperOrders
      <3>3. account' = [counted EXCEPT !.pending = buy] BY <2>6
      <3> HIDE DEF buy
      <3>4. /\ account' \in PaperRows /\ account'.cash = account.cash /\ account'.net = account.net
            /\ account'.signals = account.signals + 1 /\ account'.entries = account.entries
            /\ account'.closed = account.closed /\ account'.missed = account.missed
            /\ account'.pending = buy /\ account'.position = Paper!NoPosition
        BY <2>3, <3>2, <3>3 DEF PaperRows
      <3>5. Balanced(first, account') BY <1>1, <1>4, <2>2, <3>2, <3>4 DEF Balanced
      <3> QED BY <1>1, <3>4, <3>5 DEF Counted
    <2> QED BY <2>4, <2>5, <2>6
  <1> QED BY <1>6, <1>7, <1>8, <1>9, <1>10

\* What is saved is what is in memory, and what is read is what was saved.
LEMMA PaperStep == PaperInv /\ [Next]_vars => PaperInv'
  <1> SUFFICES ASSUME PaperInv, Paper!Next \/ UNCHANGED simulation PROVE PaperInv'
    BY PartsStep
  <1> DEFINE Small == second \in Nat /\ episodes \in Nat /\ ruled \in Nat /\ top.bid \in Int
             Kept == history # Paper!NoHistory =>
                       history.initial \in Nat /\ Balanced(history.initial, history.row)
             Memory == running => firstCash \in Nat /\ Balanced(firstCash, account)
             Grown == running /\ history # Paper!NoHistory => Counted(history.row) <= Counted(account)
             NoBookBid == Paper!NoBook.bid \in Int
  <1>0. Small /\ Kept /\ Memory /\ Grown /\ running \in BOOLEAN BY DEF PaperInv
  <1>1. (Small /\ Kept /\ Memory /\ Grown /\ running \in BOOLEAN)' => PaperInv' BY DEF PaperInv
  <1>2. Paper!NoBook.bid = 0 BY DEF Paper!NoBook
  <1>3. CASE UNCHANGED simulation
    <2>1. UNCHANGED <<second, running, firstCash, account, history, ruled, episodes, top>>
      BY <1>3 DEF simulation
    <2>2. Small' /\ Kept' BY <1>0, <2>1
    <2>3. Memory' /\ Grown' BY <1>0, <2>1, Zenon
    <2>4. running' \in BOOLEAN BY <1>0, <2>1, Zenon
    <2> QED BY <1>1, <2>2, <2>3, <2>4
  <1>4. CASE Paper!Step
    <2>1. UNCHANGED <<second, running, firstCash, history, ruled, episodes, top>> BY <1>4 DEF Paper!Step
    <2>2. running BY <1>4 DEF Paper!Step
    <2>3. firstCash \in Nat /\ Balanced(firstCash, account) BY <1>0, <2>2
    <2>4. Paper!AwaitQuote \/ Paper!Buy \/ Paper!Sell \/ Paper!Watch \/ Paper!Signal
      BY <1>4 DEF Paper!Step
    <2>5. Balanced(firstCash, account') /\ Counted(account) <= Counted(account')
      BY <1>0, <2>3, <2>4, RowKeeps
    <2>6. Small' /\ Kept' BY <1>0, <2>1
    <2>7. Memory' BY <2>1, <2>3, <2>5
    <2>8. Grown'
      <3>1. SUFFICES ASSUME history # Paper!NoHistory PROVE Counted(history.row) <= Counted(account')
        BY <2>1
      <3>2. Counted(history.row) <= Counted(account) BY <1>0, <2>2, <3>1
      <3>3. Counted(account) \in Int /\ Counted(account') \in Int /\ Counted(history.row) \in Int
        BY <1>0, <2>3, <2>5, <3>1 DEF Counted, Balanced, PaperRows
      <3> QED BY <2>5, <3>2, <3>3
    <2>9. running' \in BOOLEAN BY <1>0, <2>1, Zenon
    <2> QED BY <1>1, <2>6, <2>7, <2>8, <2>9
  <1>5. CASE Paper!Save \/ Paper!Stop
    <2>1. running /\ history' = [initial |-> firstCash, row |-> account]
      BY <1>5 DEF Paper!Save, Paper!Stop, Paper!Saved
    <2>2. firstCash \in Nat /\ Balanced(firstCash, account) BY <1>0, <2>1
    <2>3. history'.initial = firstCash /\ history'.row = account BY <2>1
    <2>4. Kept' BY <2>2, <2>3
    <2>5. Small' BY <1>0, <1>2, <1>5 DEF Paper!Save, Paper!Stop
    <2>6. ~running' \/ UNCHANGED <<running, firstCash, account>>
      BY <1>5, Zenon DEF Paper!Save, Paper!Stop
    <2>7. Memory' BY <2>2, <2>6
    <2>8. Grown'
      <3>1. CASE ~running' BY <3>1
      <3>2. CASE account' = account
        <4>1. Counted(history'.row) = Counted(account) BY <2>3
        <4>2. Counted(account) \in Int BY <2>2 DEF Counted, Balanced, PaperRows
        <4> QED BY <3>2, <4>1, <4>2
      <3> QED BY <2>6, <3>1, <3>2
    <2>9. running' \in BOOLEAN BY <1>0, <1>5, Zenon DEF Paper!Save, Paper!Stop
    <2> QED BY <1>1, <2>4, <2>5, <2>7, <2>8, <2>9
  <1>6. CASE Paper!Kill
    <2>1. Small' /\ Kept' BY <1>0, <1>2, <1>6 DEF Paper!Kill
    <2>2. running' = FALSE BY <1>6, Zenon DEF Paper!Kill
    <2>3. Memory' /\ Grown' BY <2>2
    <2> QED BY <1>1, <2>1, <2>2, <2>3
  <1>7. CASE Paper!Start
    <2>1. UNCHANGED <<second, history, ruled, episodes, top>> /\ running' = TRUE
      BY <1>7, Zenon DEF Paper!Start
    <2>2. PICK bankroll \in Bankrolls :
            IF history = Paper!NoHistory THEN firstCash' = bankroll /\ account' = Paper!Fresh(bankroll)
            ELSE firstCash' = history.initial /\ account' = history.row
      BY <1>7 DEF Paper!Start, Paper!Opened
    <2>3. bankroll \in Nat BY PaperConstants
    <2>4. firstCash' \in Nat /\ Balanced(firstCash, account)'
      <3>1. CASE history = Paper!NoHistory BY <2>2, <2>3, <3>1, FreshBalanced
      <3>2. CASE history # Paper!NoHistory BY <1>0, <2>2, <3>2
      <3> QED BY <3>1, <3>2
    <2>5. Small' /\ Kept' BY <1>0, <2>1
    <2>6. Grown'
      <3>1. SUFFICES ASSUME history # Paper!NoHistory PROVE Counted(history.row) <= Counted(account')
        BY <2>1
      <3>2. account' = history.row BY <2>2, <3>1
      <3>3. Counted(history.row) \in Int BY <1>0, <3>1 DEF Counted, Balanced, PaperRows
      <3> QED BY <3>2, <3>3
    <2> QED BY <1>1, <2>1, <2>4, <2>5, <2>6
  <1>8. CASE Paper!Quote \/ Paper!Rule \/ Paper!Pass
    <2>1. UNCHANGED <<firstCash, account, history>>
      BY <1>8 DEF Paper!Quote, Paper!Rule, Paper!Pass
    <2>2. running' = running BY <1>8, Zenon DEF Paper!Quote, Paper!Rule, Paper!Pass
    <2>3. Small'
      <3>1. CASE Paper!Quote BY <1>0, <1>2, <3>1, PaperConstants DEF Paper!Quote
      <3>2. CASE Paper!Rule BY <1>0, <3>2 DEF Paper!Rule
      <3>3. CASE Paper!Pass BY <1>0, <3>3 DEF Paper!Pass
      <3> QED BY <1>8, <3>1, <3>2, <3>3
    <2>4. Kept' BY <1>0, <2>1
    <2>5. Memory' /\ Grown' BY <1>0, <2>1, <2>2, Zenon
    <2>6. running' \in BOOLEAN BY <1>0, <2>2, Zenon
    <2> QED BY <1>1, <2>3, <2>4, <2>5, <2>6
  <1> QED BY <1>3, <1>4, <1>5, <1>6, <1>7, <1>8 DEF Paper!Next

\* The history is replaced by what is in memory, which is at least what was saved.
LEMMA HistoryGrows ==
  PaperInv /\ [Next]_vars => [Paper!Booked(history') >= Paper!Booked(history)]_history
  <1> SUFFICES ASSUME PaperInv, Paper!Next \/ UNCHANGED simulation, history' # history
               PROVE  Paper!Booked(history') >= Paper!Booked(history)
    BY PartsStep
  <1>1. Paper!Save \/ Paper!Stop
    BY DEF Paper!Next, Paper!Step, Paper!Kill, Paper!Start, Paper!Quote, Paper!Rule, Paper!Pass,
           simulation
  <1>2. running /\ history' = [initial |-> firstCash, row |-> account]
    BY <1>1 DEF Paper!Save, Paper!Stop, Paper!Saved
  <1>3. history' # Paper!NoHistory BY <1>2, SavedIsHistory
  <1>4. Paper!Booked(history') = Counted(account) BY <1>2, <1>3 DEF Paper!Booked, Counted
  <1>5. Counted(account) \in Nat BY <1>2 DEF PaperInv, Counted, Balanced, PaperRows
  <1>6. CASE history = Paper!NoHistory
    <2>1. Paper!Booked(history) = 0 BY <1>6 DEF Paper!Booked
    <2> QED BY <1>4, <1>5, <2>1
  <1>7. CASE history # Paper!NoHistory
    <2>1. Paper!Booked(history) = Counted(history.row) BY <1>7 DEF Paper!Booked, Counted
    <2>2. Counted(history.row) <= Counted(account) BY <1>2, <1>7 DEF PaperInv
    <2>3. Counted(history.row) \in Nat BY <1>7 DEF PaperInv, Counted, Balanced, PaperRows
    <2> QED BY <1>4, <1>5, <2>1, <2>2, <2>3
  <1> QED BY <1>6, <1>7

\* The simulated account adds up in memory and on disk, keeps the fees of its way out, and
\* forgets nothing that was saved, whatever is killed and started again (seconds_paper.py
\* PaperLab, seconds_observer.py main).
THEOREM PaperIsExactHolds == Spec => PaperIsExact
  <1>1. Init => PaperInv BY PartsStart, PaperStart
  <1>2. PaperInv => (running => Paper!Adds(firstCash, account)) BY BalancedAdds DEF PaperInv
  <1>3. PaperInv => (history # Paper!NoHistory => Paper!Adds(history.initial, history.row))
    BY BalancedAdds DEF PaperInv
  <1> QED
    BY <1>1, <1>2, <1>3, PaperStep, HistoryGrows, PTL DEF Spec, PaperIsExact, Paper!PaperIsExact

----------------------------------------------------------------------------
(* Feed *)

FeedFrames == [no : Nat \ {0}, conn : Nat, contract : Contracts]
\* The mark of the end, once it is put, is behind the frames.
Marks(at) == IF at = "draining" THEN 1 ELSE 0
\* What is queued and what is on the wire are numbered on from what was handled, and came on
\* the connection that is up, or was the last.
FlowOf(q, w, h, s, at, n) ==
  /\ q \in Seq(FeedFrames \cup {Feed!End}) /\ w \in Seq(FeedFrames)
  /\ Len(q) <= QueueSize /\ Len(w) <= WireSize
  /\ at \in {"down", "subscribing"} => q = <<>>
  /\ at # "open" => w = <<>>
  /\ at = "draining" => q # <<>> /\ q[Len(q)] = Feed!End
  /\ \A i \in 1..(Len(q) - Marks(at)) : q[i] \in FeedFrames /\ q[i].no = h + i /\ q[i].conn = n
  /\ \A i \in 1..Len(w) : w[i] \in FeedFrames /\ w[i].no = h + Len(q) + i /\ w[i].conn = n
  /\ at # "down" => h + (Len(q) - Marks(at)) + Len(w) = s
Flow == FlowOf(queue, wire, handled, sent, conn.at, conn.n)
FeedTypes ==
  /\ conn \in [n : 0..MaxConns, at : {"down", "subscribing", "open", "ending", "draining"}]
  /\ handled \in Nat /\ sent \in 0..MaxFrames
  /\ subs \subseteq Contracts /\ packets \subseteq Contracts
  /\ wanted \subseteq Contracts /\ applied \subseteq Contracts /\ desired \subseteq Contracts
  /\ sync \in [at : {"idle", "sending"}, conn : Nat, add : SUBSET Contracts, remove : SUBSET Contracts]
Up == conn.at \in {"subscribing", "open"}
\* A change that is being sent was begun on a connection that was open: not on one that does
\* not yet subscribe, whose broker sends nothing.
Sockets ==
  /\ IF Up THEN link \in {"open", "broken"} ELSE link = "none"
  /\ conn.at = "subscribing" => subs = {}
  /\ Up => conn.n # 0
  /\ sync.at = "sending" => sync.conn # 0 /\ sync.conn <= conn.n
  /\ sync.at = "sending" /\ conn.at = "subscribing" => sync.conn # conn.n
Followed(b) ==
  /\ b \in [Contracts -> [conn : 0..MaxConns, no : 0..MaxFrames]]
  /\ \A c \in Contracts : b[c] # Feed!NoBook => Up /\ b[c].conn = conn.n /\ c \in wanted
Live == live \in BOOLEAN /\ (live <=> Up)
FeedInv == FeedTypes /\ Live /\ Sockets /\ Flow /\ Followed(books)

LEMMA FeedConstants ==
  /\ Bootstrap \subseteq Contracts /\ QueueSize \in Nat /\ WireSize \in Nat
  /\ MaxConns \in Nat /\ MaxFrames \in Nat
  BY ServicesAssumption

LEMMA FramesOrEnd == \A f \in FeedFrames : f # Feed!End /\ f.no \in Nat \ {0} /\ f.contract \in Contracts
  <1> SUFFICES ASSUME NEW f \in FeedFrames
               PROVE  f # Feed!End /\ f.no \in Nat \ {0} /\ f.contract \in Contracts
    OBVIOUS
  <1>1. f.no \in Nat \ {0} /\ f.contract \in Contracts BY DEF FeedFrames
  <1>2. Feed!End.no = 0 BY DEF Feed!End
  <1> QED BY <1>1, <1>2

LEMMA FlowNone ==
  ASSUME NEW n \in Nat, NEW h \in Nat, NEW s \in Nat, NEW at \in {"down", "subscribing"},
         at = "down" \/ h = s
  PROVE  FlowOf(<<>>, <<>>, h, s, at, n)
  BY FeedConstants DEF FlowOf, Marks

\* A frame goes from the wire to the queue.
LEMMA FlowReceive ==
  ASSUME NEW q, NEW w, NEW h \in Nat, NEW s \in Nat, NEW n \in Nat,
         FlowOf(q, w, h, s, "open", n), w # <<>>, Len(q) < QueueSize
  PROVE  FlowOf(Append(q, Head(w)), Tail(w), h, s, "open", n)
  <1> DEFINE x == Append(q, Head(w))
             y == Tail(w)
  <1>1. /\ q \in Seq(FeedFrames \cup {Feed!End}) /\ w \in Seq(FeedFrames)
        /\ Len(w) <= WireSize /\ h + Len(q) + Len(w) = s
        /\ \A i \in 1..Len(q) : q[i] \in FeedFrames /\ q[i].no = h + i /\ q[i].conn = n
        /\ \A i \in 1..Len(w) : w[i] \in FeedFrames /\ w[i].no = h + Len(q) + i /\ w[i].conn = n
    <2>1. Marks("open") = 0 BY DEF Marks
    <2>2. q \in Seq(FeedFrames \cup {Feed!End}) /\ w \in Seq(FeedFrames) BY DEF FlowOf
    <2>3. Len(q) \in Nat /\ Len(q) - 0 = Len(q) BY <2>2
    <2> QED BY <2>1, <2>2, <2>3 DEF FlowOf
  <1>2. Head(w) = w[1] /\ Head(w) \in FeedFrames /\ 1 \in 1..Len(w) BY <1>1
  <1>3. x \in Seq(FeedFrames \cup {Feed!End}) /\ Len(x) = Len(q) + 1
        /\ (\A i \in 1..Len(q) : x[i] = q[i]) /\ x[Len(q) + 1] = w[1]
    BY <1>1, <1>2
  <1>4. y \in Seq(FeedFrames) /\ Len(y) = Len(w) - 1 /\ \A i \in 1..(Len(w) - 1) : y[i] = w[i + 1]
    BY <1>1
  <1>5. Len(q) \in Nat /\ Len(w) \in Nat BY <1>1
  <1> HIDE DEF x, y
  <1>6. Len(x) <= QueueSize /\ Len(y) <= WireSize /\ h + (Len(x) - 0) + Len(y) = s
    BY <1>1, <1>3, <1>4, <1>5, FeedConstants
  <1>7. ASSUME NEW i \in 1..Len(x) PROVE x[i] \in FeedFrames /\ x[i].no = h + i /\ x[i].conn = n
    <2>1. CASE i \in 1..Len(q) BY <1>1, <1>3, <2>1
    <2>2. CASE i = Len(q) + 1
      <3>1. w[1].no = h + Len(q) + 1 /\ w[1].conn = n BY <1>1, <1>2
      <3> QED BY <1>2, <1>3, <1>5, <2>2, <3>1
    <2> QED BY <1>3, <1>5, <2>1, <2>2
  <1>8. ASSUME NEW i \in 1..Len(y)
        PROVE  y[i] \in FeedFrames /\ y[i].no = h + Len(x) + i /\ y[i].conn = n
    <2>1. y[i] = w[i + 1] /\ i + 1 \in 1..Len(w) BY <1>4, <1>5
    <2>2. w[i + 1].no = h + Len(q) + (i + 1) /\ w[i + 1] \in FeedFrames /\ w[i + 1].conn = n
      BY <1>1, <2>1
    <2> QED BY <1>3, <1>5, <2>1, <2>2
  <1>9. Len(x) - 0 = Len(x) BY <1>3, <1>5
  <1> QED BY <1>3, <1>4, <1>6, <1>7, <1>8, <1>9 DEF FlowOf, Marks, x, y

\* The first frame of the queue is handled.
LEMMA FlowHandle ==
  ASSUME NEW q, NEW w, NEW h \in Nat, NEW s \in Nat, NEW n \in Nat, NEW at,
         FlowOf(q, w, h, s, at, n), q # <<>>, Head(q) # Feed!End
  PROVE  /\ FlowOf(Tail(q), w, Head(q).no, s, at, n)
         /\ Head(q) \in FeedFrames /\ Head(q).conn = n
         /\ Head(q).no = h + 1 /\ (at # "down" => h + 1 <= s)
  <1> DEFINE x == Tail(q)
             k == Marks(at)
             g == Head(q).no
  <1>1. q \in Seq(FeedFrames \cup {Feed!End}) /\ w \in Seq(FeedFrames) BY DEF FlowOf
  <1>0. k \in Nat /\ k <= 1 BY DEF Marks
  <1>2. x \in Seq(FeedFrames \cup {Feed!End}) /\ Len(x) = Len(q) - 1 /\ Head(q) = q[1]
        /\ \A i \in 1..(Len(q) - 1) : x[i] = q[i + 1]
    BY <1>1
  <1>3. Len(q) \in Nat /\ Len(q) >= 1 /\ Len(w) \in Nat BY <1>1
  <1>4. Len(q) - k >= 1
    <2>1. CASE at = "draining"
      <3>1. q[Len(q)] = Feed!End BY <2>1 DEF FlowOf
      <3>2. Len(q) >= 2
        <4>1. CASE Len(q) = 1 BY <1>2, <3>1, <4>1
        <4> QED BY <1>3, <4>1
      <3> HIDE DEF k
      <3> QED BY <1>0, <1>3, <3>2
    <2>2. CASE at # "draining" BY <1>3, <2>2 DEF Marks
    <2> QED BY <2>1, <2>2
  <1>5. /\ \A i \in 1..(Len(q) - k) : q[i] \in FeedFrames /\ q[i].no = h + i /\ q[i].conn = n
        /\ \A i \in 1..Len(w) : w[i] \in FeedFrames /\ w[i].no = h + Len(q) + i /\ w[i].conn = n
        /\ (at # "down" => h + (Len(q) - k) + Len(w) = s)
    BY DEF FlowOf
  <1> HIDE DEF k
  <1>6. Head(q) \in FeedFrames /\ g = h + 1 /\ Head(q).conn = n BY <1>0, <1>2, <1>3, <1>4, <1>5
  <1> HIDE DEF x, g
  <1>7. ASSUME NEW i \in 1..(Len(x) - k)
        PROVE  x[i] \in FeedFrames /\ x[i].no = g + i /\ x[i].conn = n
    <2>1. i + 1 \in 1..(Len(q) - k) /\ i \in 1..(Len(q) - 1) BY <1>0, <1>2, <1>3
    <2>2. x[i] = q[i + 1] BY <1>2, <2>1
    <2>3. q[i + 1] \in FeedFrames /\ q[i + 1].no = h + (i + 1) /\ q[i + 1].conn = n BY <1>5, <2>1
    <2> QED BY <1>6, <2>2, <2>3
  <1>8. ASSUME NEW i \in 1..Len(w)
        PROVE  w[i] \in FeedFrames /\ w[i].no = g + Len(x) + i /\ w[i].conn = n
    <2>1. w[i].no = h + Len(q) + i /\ w[i] \in FeedFrames /\ w[i].conn = n BY <1>5
    <2> QED BY <1>2, <1>3, <1>6, <2>1
  <1>9. (at # "down" => g + (Len(x) - k) + Len(w) = s) /\ Len(x) <= QueueSize
    <2>1. Len(q) <= QueueSize BY DEF FlowOf
    <2>2. at # "down" => h + (Len(q) - k) + Len(w) = s BY <1>5
    <2>3. g = h + 1 /\ Len(x) = Len(q) - 1 BY <1>2, <1>6
    <2>4. (h + 1) + ((Len(q) - 1) - k) = h + (Len(q) - k) /\ Len(q) - 1 <= QueueSize
      BY <1>0, <1>3, <2>1, FeedConstants
    <2> QED BY <2>2, <2>3, <2>4
  <1>10. Len(w) <= WireSize /\ at \notin {"down", "subscribing"} /\ (at # "open" => w = <<>>)
    BY DEF FlowOf
  <1>11. at = "draining" => x # <<>> /\ x[Len(x)] = Feed!End
    <2> SUFFICES ASSUME at = "draining" PROVE x # <<>> /\ x[Len(x)] = Feed!End OBVIOUS
    <2>1. k = 1 BY DEF Marks, k
    <2>2. Len(x) >= 1 /\ Len(x) \in 1..(Len(q) - 1) /\ Len(x) + 1 = Len(q) BY <1>2, <1>3, <1>4, <2>1
    <2>3. x[Len(x)] = q[Len(q)] BY <1>2, <2>2
    <2>4. q[Len(q)] = Feed!End BY DEF FlowOf
    <2>5. x # <<>> BY <1>2, <2>2
    <2> QED BY <2>3, <2>4, <2>5
  <1>12. FlowOf(x, w, g, s, at, n)
    BY <1>1, <1>2, <1>7, <1>8, <1>9, <1>10, <1>11 DEF FlowOf, k
  <1>13. at # "down" => h + 1 <= s BY <1>0, <1>3, <1>4, <1>5
  <1> QED BY <1>6, <1>12, <1>13 DEF x, g

\* The broker sends a frame.
LEMMA FlowSend ==
  ASSUME NEW q, NEW w, NEW h \in Nat, NEW s \in Nat, NEW n \in Nat, NEW c \in Contracts,
         FlowOf(q, w, h, s, "open", n), Len(w) < WireSize
  PROVE  FlowOf(q, Append(w, [no |-> s + 1, conn |-> n, contract |-> c]), h, s + 1, "open", n)
  <1> DEFINE f == [no |-> s + 1, conn |-> n, contract |-> c]
             y == Append(w, f)
  <1>1. q \in Seq(FeedFrames \cup {Feed!End}) /\ w \in Seq(FeedFrames) /\ Marks("open") = 0
    BY DEF FlowOf, Marks
  <1>2. Len(q) \in Nat /\ Len(w) \in Nat /\ Len(q) - 0 = Len(q) BY <1>1
  <1>3. /\ Len(q) <= QueueSize /\ h + Len(q) + Len(w) = s
        /\ \A i \in 1..Len(q) : q[i] \in FeedFrames /\ q[i].no = h + i /\ q[i].conn = n
        /\ \A i \in 1..Len(w) : w[i] \in FeedFrames /\ w[i].no = h + Len(q) + i /\ w[i].conn = n
    BY <1>1, <1>2 DEF FlowOf
  <1>4. f \in FeedFrames /\ f.no = s + 1 /\ f.conn = n BY DEF FeedFrames
  <1> HIDE DEF f
  <1>5. y \in Seq(FeedFrames) /\ Len(y) = Len(w) + 1 /\ (\A i \in 1..Len(w) : y[i] = w[i])
        /\ y[Len(w) + 1] = f
    BY <1>1, <1>4
  <1> HIDE DEF y
  <1>6. ASSUME NEW i \in 1..Len(y)
        PROVE  y[i] \in FeedFrames /\ y[i].no = h + Len(q) + i /\ y[i].conn = n
    <2>1. CASE i \in 1..Len(w) BY <1>3, <1>5, <2>1
    <2>2. CASE i = Len(w) + 1 BY <1>2, <1>3, <1>4, <1>5, <2>2
    <2> QED BY <1>2, <1>5, <2>1, <2>2
  <1>7. Len(y) <= WireSize /\ h + (Len(q) - 0) + Len(y) = s + 1
    BY <1>2, <1>3, <1>5, FeedConstants
  <1> QED BY <1>1, <1>2, <1>3, <1>5, <1>6, <1>7 DEF FlowOf, f, y

\* The mark of the end is put behind the frames.
LEMMA FlowEnd ==
  ASSUME NEW q, NEW h \in Nat, NEW s \in Nat, NEW n \in Nat,
         FlowOf(q, <<>>, h, s, "ending", n), Len(q) < QueueSize
  PROVE  FlowOf(Append(q, Feed!End), <<>>, h, s, "draining", n)
  <1> DEFINE x == Append(q, Feed!End)
  <1>1. q \in Seq(FeedFrames \cup {Feed!End}) /\ Marks("ending") = 0 /\ Marks("draining") = 1
    BY DEF FlowOf, Marks
  <1>2. Len(q) \in Nat /\ Len(q) - 0 = Len(q) BY <1>1
  <1>3. /\ h + Len(q) + 0 = s
        /\ \A i \in 1..Len(q) : q[i] \in FeedFrames /\ q[i].no = h + i /\ q[i].conn = n
    BY <1>1, <1>2 DEF FlowOf
  <1>4. x \in Seq(FeedFrames \cup {Feed!End}) /\ Len(x) = Len(q) + 1
        /\ (\A i \in 1..Len(q) : x[i] = q[i]) /\ x[Len(q) + 1] = Feed!End
    BY <1>1
  <1> HIDE DEF x
  <1>5. Len(x) - 1 = Len(q) /\ Len(x) <= QueueSize /\ x # <<>> BY <1>2, <1>4, FeedConstants
  <1>6. \A i \in 1..(Len(x) - 1) : x[i] \in FeedFrames /\ x[i].no = h + i /\ x[i].conn = n
    BY <1>3, <1>4, <1>5
  <1> QED BY <1>1, <1>3, <1>4, <1>5, <1>6, FeedConstants DEF FlowOf, x

LEMMA NoBooksFollow ==
  /\ Feed!NoBooks \in [Contracts -> [conn : 0..MaxConns, no : 0..MaxFrames]]
  /\ Feed!NoBook \in [conn : 0..MaxConns, no : 0..MaxFrames]
  /\ \A c \in Contracts : Feed!NoBooks[c] = Feed!NoBook
  BY FeedConstants DEF Feed!NoBooks, Feed!NoBook

LEMMA IdleSyncType ==
  Feed!IdleSync \in [at : {"idle", "sending"}, conn : Nat, add : SUBSET Contracts,
                     remove : SUBSET Contracts]
  /\ Feed!IdleSync.at = "idle"
  BY DEF Feed!IdleSync

LEMMA LiveKeeps == Live /\ live' = live /\ conn' = conn => Live'
  <1> SUFFICES ASSUME Live, live' = live, conn' = conn PROVE Live' OBVIOUS
  <1>1. Up' <=> Up BY DEF Up
  <1>2. live \in BOOLEAN /\ (live <=> Up) BY Zenon DEF Live
  <1> QED BY <1>1, <1>2, Zenon DEF Live

LEMMA FeedStart == Feed!Init => FeedInv
  <1> SUFFICES ASSUME Feed!Init PROVE FeedInv OBVIOUS
  <1> USE DEF Feed!Init
  <1>1. conn = [n |-> 0, at |-> "down"] /\ conn.at = "down" /\ conn.n = 0 OBVIOUS
  <1>2. FeedTypes BY FeedConstants, IdleSyncType, <1>1 DEF FeedTypes
  <1>3. ~Up BY <1>1 DEF Up
  <1>4. live = FALSE BY Zenon
  <1>5. Live BY <1>3, <1>4 DEF Live
  <1>6. Sockets BY <1>1, <1>3, IdleSyncType DEF Sockets
  <1>7. Flow BY <1>1, FlowNone DEF Flow
  <1>8. Followed(books) BY NoBooksFollow DEF Followed
  <1> QED BY <1>2, <1>5, <1>6, <1>7, <1>8 DEF FeedInv

\* What must hold of a step, with the facts the actions have in common.
LEMMA FeedStep == FeedInv /\ [Next]_vars => FeedInv'
  <1> SUFFICES ASSUME FeedTypes, Live, Sockets, Flow, Followed(books),
                      Feed!Next \/ UNCHANGED feed
               PROVE  FeedTypes' /\ Live' /\ Sockets' /\ Flow' /\ Followed(books)'
    BY PartsStep DEF FeedInv
  <1> DEFINE Goal == FeedTypes' /\ Live' /\ Sockets' /\ Flow' /\ Followed(books)'
             Syncs == [at : {"idle", "sending"}, conn : Nat, add : SUBSET Contracts,
                       remove : SUBSET Contracts]
             Ats == {"down", "subscribing", "open", "ending", "draining"}
  <1> USE DEF Feed!syncVars
  <1>1. /\ conn \in [n : 0..MaxConns, at : Ats] /\ conn.n \in Nat /\ conn.n <= MaxConns
        /\ conn.at \in Ats /\ handled \in Nat /\ sent \in Nat /\ sent <= MaxFrames
        /\ MaxConns \in Nat /\ MaxFrames \in Nat
    BY FeedConstants DEF FeedTypes
  <1>2. \A at \in Ats : /\ [conn EXCEPT !.at = at] \in [n : 0..MaxConns, at : Ats]
                        /\ [conn EXCEPT !.at = at].n = conn.n /\ [conn EXCEPT !.at = at].at = at
    BY <1>1
  <1>3. \A c \in Contracts : books[c] # Feed!NoBook =>
          live /\ conn.at \in {"subscribing", "open"} /\ books[c].conn = conn.n /\ c \in wanted
    BY Zenon DEF Followed, Up, Live
  <1>4. /\ FlowOf(queue, wire, handled, sent, conn.at, conn.n)
        /\ (conn.at \in {"down", "subscribing"} => queue = <<>>)
        /\ (conn.at # "open" => wire = <<>>)
    BY DEF Flow, FlowOf
  <1>5. /\ sync \in Syncs /\ sync.conn \in Nat /\ sync.add \subseteq Contracts
        /\ sync.remove \subseteq Contracts /\ sync.at \in {"idle", "sending"}
    BY DEF FeedTypes
  <1>0. live' = live /\ conn' = conn => Live' BY LiveKeeps
  <1>6. CASE UNCHANGED feed
    <2>1. UNCHANGED <<conn, link, subs, sent, wire, queue, handled, live, books, packets,
                      wanted, applied, sync, desired>>
      BY <1>6 DEF feed
    <2>2. FeedTypes' BY <2>1 DEF FeedTypes
    <2>3. Live' BY <2>1, Zenon DEF Live, Up
    <2>4. Sockets' BY <2>1 DEF Sockets, Up
    <2>5. Flow' BY <2>1 DEF Flow
    <2>6. Followed(books)' BY <2>1 DEF Followed, Up
    <2> QED BY <2>2, <2>3, <2>4, <2>5, <2>6
  <1>7. CASE Feed!Connect
    <2> USE <1>7 DEF Feed!Connect
    <2>1. conn.at = "down" /\ conn' \in [n : 0..MaxConns, at : Ats] /\ conn'.n = conn.n + 1
          /\ conn'.at = "subscribing"
      BY <1>1
    <2>2. FeedTypes' BY <2>1, FeedConstants DEF FeedTypes
    <2>3. live' = TRUE BY Zenon
    <2>4. Live' BY <2>1, <2>3 DEF Live, Up
    <2>5. Sockets' BY <1>1, <1>5, <2>1 DEF Sockets, Up
    <2>6. queue' = <<>> /\ wire' = <<>> /\ handled' = 0 /\ sent' = 0 BY <1>4, <2>1
    <2>7. FlowOf(<<>>, <<>>, 0, 0, "subscribing", conn'.n) BY <1>1, <2>1, FlowNone
    <2>8. Flow' BY <2>1, <2>6, <2>7 DEF Flow
    <2>9. Followed(books)' BY NoBooksFollow DEF Followed
    <2> QED BY <2>2, <2>4, <2>5, <2>8, <2>9
  <1>8. CASE Feed!Subscribe
    <2> USE <1>8 DEF Feed!Subscribe
    <2>1. conn.at = "subscribing" /\ conn' \in [n : 0..MaxConns, at : Ats] /\ conn'.n = conn.n
          /\ conn'.at = "open"
      BY <1>2
    <2>2. FeedTypes' BY <2>1, FeedConstants DEF FeedTypes
    <2>3. live' = live BY Zenon
    <2>4. Live' BY <2>1, <2>3 DEF Live, Up
    <2>5. Sockets' BY <1>1, <1>5, <2>1 DEF Sockets, Up
    <2>6. queue = <<>> /\ wire = <<>> BY <1>4, <2>1
    <2>7. FlowOf(queue, wire, handled, sent, "open", conn.n)
      BY <1>4, <2>1, <2>6 DEF FlowOf, Marks
    <2>8. Flow' BY <2>1, <2>7 DEF Flow
    <2>9. Followed(books)' BY <2>1 DEF Followed, Up
    <2> QED BY <2>2, <2>4, <2>5, <2>8, <2>9
  <1>9. CASE Feed!SubscribeFails
    <2> USE <1>9 DEF Feed!SubscribeFails, Feed!Disconnected
    <2>1. conn.at = "subscribing" /\ conn' \in [n : 0..MaxConns, at : Ats] /\ conn'.n = conn.n
          /\ conn'.at = "down"
      BY <1>2
    <2>2. FeedTypes' BY <2>1 DEF FeedTypes
    <2>3. live' = FALSE BY Zenon
    <2>4. Live' BY <2>1, <2>3 DEF Live, Up
    <2>5. Sockets' BY <1>1, <1>5, <2>1 DEF Sockets, Up
    <2>6. queue = <<>> /\ wire = <<>> BY <1>4, <2>1
    <2>7. FlowOf(<<>>, <<>>, handled, sent, "down", conn.n) BY <1>1, FlowNone
    <2>8. Flow' BY <2>1, <2>6, <2>7 DEF Flow
    <2>9. Followed(books)' BY NoBooksFollow DEF Followed
    <2> QED BY <2>2, <2>4, <2>5, <2>8, <2>9
  <1>10. CASE Feed!Receive
    <2> USE <1>10 DEF Feed!Receive
    <2>1. FeedTypes' BY DEF FeedTypes
    <2>2. Live' BY Zenon DEF Live, Up
    <2>3. Sockets' BY DEF Sockets, Up
    <2>4. Flow' BY <1>1, <1>4, FlowReceive DEF Flow
    <2>5. Followed(books)' BY DEF Followed, Up
    <2> QED BY <2>1, <2>2, <2>3, <2>4, <2>5
  <1>11. CASE Feed!Notice
    <2> USE <1>11 DEF Feed!Notice, Feed!Disconnected
    <2>1. conn.at = "open" /\ conn' \in [n : 0..MaxConns, at : Ats] /\ conn'.n = conn.n
          /\ conn'.at \in {"ending", "down"}
      BY <1>2
    <2>2. FeedTypes' BY <2>1 DEF FeedTypes
    <2>3. live' = FALSE BY Zenon
    <2>4. Live' BY <2>1, <2>3 DEF Live, Up
    <2>5. link' = "none" /\ UNCHANGED <<subs, sync>> OBVIOUS
    <2>6. Sockets' BY <1>1, <1>5, <2>1, <2>5 DEF Sockets, Up
    <2>7. UNCHANGED <<wire, handled, sent>> /\ wire = <<>> OBVIOUS
    <2>8. Flow'
      <3>1. CASE conn'.at = "ending" /\ queue' = queue
        <4>1. FlowOf(queue, wire, handled, sent, "ending", conn.n)
          BY <1>4, <2>1, <2>7 DEF FlowOf, Marks
        <4> QED BY <2>1, <2>7, <3>1, <4>1 DEF Flow
      <3>2. CASE conn'.at = "down" /\ queue' = <<>>
        <4>1. FlowOf(<<>>, <<>>, handled, sent, "down", conn.n) BY <1>1, FlowNone
        <4> QED BY <2>1, <2>7, <3>2, <4>1 DEF Flow
      <3> QED BY <1>2, <3>1, <3>2
    <2>9. Followed(books)'
      <3>1. books' = Feed!NoBooks OBVIOUS
      <3> QED BY <3>1, NoBooksFollow DEF Followed
    <2> QED BY <2>2, <2>4, <2>6, <2>8, <2>9
  <1>12. CASE Feed!PutEnd
    <2> USE <1>12 DEF Feed!PutEnd
    <2>1. conn.at = "ending" /\ conn' \in [n : 0..MaxConns, at : Ats] /\ conn'.n = conn.n
          /\ conn'.at = "draining"
      BY <1>2
    <2>2. FeedTypes' BY <2>1 DEF FeedTypes
    <2>3. live' = live BY Zenon
    <2>4. Live' BY <2>1, <2>3 DEF Live, Up
    <2>5. Sockets' BY <1>1, <1>5, <2>1 DEF Sockets, Up
    <2>6. wire = <<>> BY <1>4, <2>1
    <2>7. FlowOf(queue, <<>>, handled, sent, "ending", conn.n) BY <1>4, <2>1, <2>6
    <2>8. FlowOf(Append(queue, Feed!End), <<>>, handled, sent, "draining", conn.n)
      BY <1>1, <2>7, FlowEnd
    <2>9. Flow' BY <2>1, <2>6, <2>8 DEF Flow
    <2>10. Followed(books)' BY <2>1 DEF Followed, Up
    <2> QED BY <2>2, <2>4, <2>5, <2>9, <2>10
  <1>13. CASE Feed!Drained
    <2> USE <1>13 DEF Feed!Drained
    <2>1. conn.at = "draining"
      <3>1. Head(queue) = queue[1] /\ queue # <<>> /\ Len(queue) \in Nat \ {0} BY <1>4 DEF FlowOf
      <3>2. CASE conn.at # "draining"
        <4>1. 1 \in 1..(Len(queue) - Marks(conn.at)) BY <3>1, <3>2 DEF Marks
        <4>2. Head(queue) \in FeedFrames BY <1>4, <3>1, <4>1 DEF FlowOf
        <4> QED BY <4>2, FramesOrEnd
      <3> QED BY <3>2
    <2>2. conn' \in [n : 0..MaxConns, at : Ats] /\ conn'.n = conn.n /\ conn'.at = "down" BY <1>2
    <2>3. FeedTypes' BY <2>2 DEF FeedTypes
    <2>4. live' = live BY Zenon
    <2>5. Live' BY <2>1, <2>2, <2>4 DEF Live, Up
    <2>6. Sockets' BY <1>1, <1>5, <2>1, <2>2 DEF Sockets, Up
    <2>7. wire = <<>> BY <1>4, <2>1
    <2>8. FlowOf(<<>>, <<>>, handled, sent, "down", conn.n) BY <1>1, FlowNone
    <2>9. Flow' BY <2>2, <2>7, <2>8 DEF Flow
    <2>10. Followed(books)' BY <2>1, <2>2 DEF Followed, Up
    <2> QED BY <2>3, <2>5, <2>6, <2>9, <2>10
  <1>14. CASE Feed!Handle \/ Feed!HandleBad
    <2> DEFINE f == Head(queue)
    <2>1. /\ queue # <<>> /\ f # Feed!End /\ queue' = Tail(queue) /\ handled' = f.no
          /\ UNCHANGED <<conn, link, subs, sent, wire, wanted, applied, sync, desired>>
      BY <1>14 DEF Feed!Handle, Feed!HandleBad
    <2>2. live' = live BY <1>14, Zenon DEF Feed!Handle, Feed!HandleBad
    <2>3. /\ FlowOf(Tail(queue), wire, f.no, sent, conn.at, conn.n)
          /\ f \in FeedFrames /\ f.conn = conn.n /\ f.no = handled + 1
          /\ (conn.at # "down" => handled + 1 <= sent)
      BY <1>1, <1>4, <2>1, FlowHandle
    <2>4. f.contract \in Contracts BY <2>3, FramesOrEnd
    <2>5. Flow' BY <2>1, <2>3 DEF Flow
    <2>6. Live' BY <2>1, <2>2, Zenon DEF Live, Up
    <2>7. Sockets' BY <2>1 DEF Sockets, Up
    <2>8. [conn |-> f.conn, no |-> f.no] \in [conn : 0..MaxConns, no : 0..MaxFrames]
      <3>1. conn.at # "down" BY <1>4, <2>1
      <3> QED BY <1>1, <2>3, <3>1
    <2>9. packets' \subseteq Contracts
      <3>1. packets \subseteq Contracts BY DEF FeedTypes
      <3>2. packets' \in {packets, packets \cup {f.contract}, {}, packets \ {f.contract}}
        BY <1>14 DEF Feed!Handle, Feed!HandleBad
      <3> QED BY <2>4, <3>1, <3>2
    <2>10. FeedTypes' BY <1>1, <2>1, <2>3, <2>9 DEF FeedTypes
    <2>11. \/ UNCHANGED books \/ books' = Feed!NoBooks
           \/ books' = [books EXCEPT ![f.contract] = Feed!NoBook]
           \/ /\ Feed!Accepts(f.contract)
              /\ books' = [books EXCEPT ![f.contract] = [conn |-> f.conn, no |-> f.no]]
      BY <1>14 DEF Feed!Handle, Feed!HandleBad
    <2> HIDE DEF f
    <2>12. books \in [Contracts -> [conn : 0..MaxConns, no : 0..MaxFrames]] BY DEF Followed
    <2>13. books' \in [Contracts -> [conn : 0..MaxConns, no : 0..MaxFrames]]
      BY <2>4, <2>8, <2>11, <2>12, NoBooksFollow
    <2>14. Feed!Accepts(f.contract) => Up /\ f.contract \in wanted BY Zenon DEF Feed!Accepts, Live
    <2>15. ASSUME NEW c \in Contracts, books'[c] # Feed!NoBook
           PROVE  Up /\ books'[c].conn = conn.n /\ c \in wanted
      <3>1. CASE books'[c] = books[c] BY <2>15, <3>1 DEF Followed
      <3>2. CASE c = f.contract /\ books'[c] = [conn |-> f.conn, no |-> f.no] /\ Feed!Accepts(f.contract)
        BY <2>3, <2>14, <3>2
      <3> QED BY <2>4, <2>11, <2>12, <2>15, <3>1, <3>2, NoBooksFollow
    <2>16. Followed(books)' BY <2>1, <2>13, <2>15 DEF Followed, Up
    <2> QED BY <2>5, <2>6, <2>7, <2>10, <2>16
  <1>15. CASE Feed!SyncStart
    <2> USE <1>15 DEF Feed!SyncStart
    <2>1. live' = live BY Zenon
    <2>2. UNCHANGED <<conn, link, subs, sent, wire, queue, handled, packets, desired>>
          /\ wanted' = desired /\ books' = [c \in Contracts |-> Feed!Kept(c)]
      OBVIOUS
    <2>3. Feed!AppliedNow \subseteq Contracts BY FeedConstants DEF Feed!AppliedNow, FeedTypes
    <2>4. desired \subseteq Contracts /\ applied \subseteq Contracts BY DEF FeedTypes
    <2>5. Feed!Started \in Syncs /\ Feed!Started.at = "sending" /\ Feed!Started.conn = conn.n
      BY <1>1, <2>3, <2>4 DEF Feed!Started
    <2>6. \/ sync' = sync
          \/ sync' = Feed!IdleSync
          \/ sync' = Feed!Started /\ conn.at = "open"
      OBVIOUS
    <2>7. applied' \subseteq Contracts BY <2>3, <2>4
    <2>8. sync' \in Syncs BY <1>5, <2>5, <2>6, IdleSyncType
    <2>9. FeedTypes' BY <2>2, <2>4, <2>7, <2>8 DEF FeedTypes
    <2>10. Live' BY <1>0, <2>1, <2>2
    <2>11. conn.at = "open" => conn.n # 0 BY DEF Sockets, Up
    <2>12. Sockets' BY <1>1, <2>2, <2>5, <2>6, <2>11, IdleSyncType DEF Sockets, Up
    <2>13. Flow' BY <2>2 DEF Flow
    <2>14. Followed(books)'
      <3>1. \A c \in Contracts : books'[c] = IF c \in desired THEN books[c] ELSE Feed!NoBook
        BY <2>2 DEF Feed!Kept
      <3>2. books' \in [Contracts -> [conn : 0..MaxConns, no : 0..MaxFrames]]
        <4>1. \A c \in Contracts : Feed!Kept(c) \in [conn : 0..MaxConns, no : 0..MaxFrames]
          BY NoBooksFollow DEF Feed!Kept, Followed
        <4> QED BY <2>2, <4>1
      <3> QED BY <2>2, <3>1, <3>2 DEF Followed, Up
    <2> QED BY <2>9, <2>10, <2>12, <2>13, <2>14
  <1>16. CASE Feed!SyncSend
    <2> USE <1>16 DEF Feed!SyncSend
    <2>1. live' = live BY Zenon
    <2>2. UNCHANGED <<conn, link, sent, wire, queue, handled, books, packets, wanted, desired>>
          /\ sync.at = "sending"
      OBVIOUS
    <2>3. PICK c \in IF sync.add # {} THEN sync.add ELSE sync.remove :
            LET rest == [sync EXCEPT !.add = @ \ {c}, !.remove = @ \ {c}] IN
            /\ subs' = IF ~Feed!Heard THEN subs
                       ELSE IF c \in sync.add THEN subs \cup {c} ELSE subs \ {c}
            /\ sync' = IF Feed!Socket # sync.conn \/ Feed!Nothing(rest) THEN Feed!IdleSync ELSE rest
            /\ applied' = IF Feed!Socket = sync.conn /\ Feed!Nothing(rest) THEN wanted ELSE applied
      OBVIOUS
    <2> DEFINE rest == [sync EXCEPT !.add = @ \ {c}, !.remove = @ \ {c}]
    <2>4. c \in Contracts BY <1>5, <2>3
    <2>5. rest \in Syncs /\ rest.at = sync.at /\ rest.conn = sync.conn BY <1>5
    <2>6. sync' \in {Feed!IdleSync, rest} /\ applied' \in {wanted, applied} BY <2>3
    <2>7. subs' \in {subs, subs \cup {c}, subs \ {c}} BY <2>3
    <2> HIDE DEF rest
    <2>8. sync' \in Syncs BY <2>5, <2>6, IdleSyncType
    <2>9. subs' \subseteq Contracts /\ applied' \subseteq Contracts BY <2>4, <2>6, <2>7 DEF FeedTypes
    <2>10. FeedTypes' BY <2>2, <2>8, <2>9 DEF FeedTypes
    <2>11. Live' BY <1>0, <2>1, <2>2
    <2>12. conn.at = "subscribing" => subs' = subs
      <3>1. conn.at = "subscribing" => ~Feed!Heard BY <2>2 DEF Feed!Heard, Sockets
      <3> QED BY <2>3, <3>1
    <2>13. Sockets' BY <2>2, <2>5, <2>6, <2>12, IdleSyncType DEF Sockets, Up
    <2>14. Flow' BY <2>2 DEF Flow
    <2>15. Followed(books)' BY <2>2 DEF Followed, Up
    <2> QED BY <2>10, <2>11, <2>13, <2>14, <2>15
  <1>17. CASE Feed!SyncFails
    <2> USE <1>17 DEF Feed!SyncFails
    <2>1. live' = live BY Zenon
    <2>2. UNCHANGED <<conn, subs, sent, wire, queue, handled, books, packets, wanted, applied, desired>>
          /\ sync.at = "sending" /\ sync' = Feed!IdleSync
          /\ link' = IF Feed!Socket = sync.conn THEN "broken" ELSE link
      OBVIOUS
    <2>3. FeedTypes' BY <2>2, IdleSyncType DEF FeedTypes
    <2>4. Live' BY <1>0, <2>1, <2>2
    <2>5. ~Up => Feed!Socket # sync.conn BY <2>2 DEF Feed!Socket, Up, Sockets
    <2>6. IF Up THEN link' \in {"open", "broken"} ELSE link' = "none" BY <2>2, <2>5 DEF Sockets
    <2>7. Sockets' BY <2>2, <2>6, IdleSyncType DEF Sockets, Up
    <2>8. Flow' BY <2>2 DEF Flow
    <2>9. Followed(books)' BY <2>2 DEF Followed, Up
    <2> QED BY <2>3, <2>4, <2>7, <2>8, <2>9
  <1>18. CASE Feed!Break
    <2> USE <1>18 DEF Feed!Break
    <2>1. FeedTypes' BY DEF FeedTypes
    <2>2. Live' BY Zenon DEF Live, Up
    <2>3. Sockets' BY DEF Sockets, Up
    <2>4. Flow' BY DEF Flow
    <2>5. Followed(books)' BY DEF Followed, Up
    <2> QED BY <2>1, <2>2, <2>3, <2>4, <2>5
  <1>19. ASSUME NEW c \in Contracts, Feed!Send(c) PROVE Goal
    <2> USE <1>19 DEF Feed!Send
    <2>1. conn.at = "open" BY <1>1 DEF Sockets, Up
    <2>2. FeedTypes' BY <1>1 DEF FeedTypes
    <2>3. Live' BY Zenon DEF Live, Up
    <2>4. Sockets' BY DEF Sockets, Up
    <2>5. FlowOf(queue, wire, handled, sent, "open", conn.n) /\ Len(wire) < WireSize
      BY <1>4, <2>1
    <2>6. FlowOf(queue, Append(wire, [no |-> sent + 1, conn |-> conn.n, contract |-> c]),
                 handled, sent + 1, "open", conn.n)
      BY <1>1, <2>5, FlowSend
    <2>7. Flow' BY <2>1, <2>6 DEF Flow
    <2>8. Followed(books)' BY DEF Followed, Up
    <2> QED BY <2>2, <2>3, <2>4, <2>7, <2>8
  <1>20. ASSUME NEW d \in Wishes, Feed!Wish(d) PROVE Goal
    <2> USE <1>20 DEF Feed!Wish, Feed!feedVars
    <2>1. d \subseteq Contracts BY DEF Wishes
    <2>2. FeedTypes' BY <2>1 DEF FeedTypes
    <2>3. Live' BY Zenon DEF Live, Up
    <2>4. Sockets' BY DEF Sockets, Up
    <2>5. Flow' BY DEF Flow
    <2>6. Followed(books)' BY DEF Followed, Up
    <2> QED BY <2>2, <2>3, <2>4, <2>5, <2>6
  <1> QED
    BY <1>6, <1>7, <1>8, <1>9, <1>10, <1>11, <1>12, <1>13, <1>14, <1>15, <1>16, <1>17, <1>18,
       <1>19, <1>20 DEF Feed!Next, Feed!Run, Feed!Sync

LEMMA FrontOf ==
  ASSUME NEW S, NEW q \in Seq(S), q # <<>>
  PROVE  LET front == SubSeq(q, 1, Len(q) - 1) IN
         /\ front \in Seq(S) /\ Len(front) = Len(q) - 1
         /\ \A i \in 1..(Len(q) - 1) : front[i] = q[i]
  OBVIOUS

LEMMA Joined ==
  ASSUME NEW S, NEW q \in Seq(S), NEW w \in Seq(S)
  PROVE  /\ Len(q \o w) = Len(q) + Len(w)
         /\ \A i \in 1..Len(q \o w) : (q \o w)[i] = IF i <= Len(q) THEN q[i] ELSE w[i - Len(q)]
  OBVIOUS

LEMMA FeedAlways == Spec => []FeedInv
  <1>1. Init => FeedInv BY PartsStart, FeedStart
  <1> QED BY <1>1, FeedStep, PTL DEF Spec

LEMMA FeedTyped == FeedInv => Feed!TypeOK
  <1> SUFFICES ASSUME FeedInv PROVE Feed!TypeOK OBVIOUS
  <1>1. live \in BOOLEAN BY DEF FeedInv, Live
  <1>2. link \in {"none", "open", "broken"} BY DEF FeedInv, Sockets
  <1>3. Len(wire) <= WireSize /\ Len(queue) <= QueueSize BY DEF FeedInv, Flow, FlowOf
  <1>4. books \in [Contracts -> [conn : 0..MaxConns, no : 0..MaxFrames]] BY DEF FeedInv, Followed
  <1> QED BY <1>1, <1>2, <1>3, <1>4 DEF FeedInv, FeedTypes, Feed!TypeOK

\* No frame of a connection that is gone brings a book back, and no contract that is not
\* wanted any more keeps one (transport.py WebSocketRunner, service.py record_dhan).
THEOREM BooksAreLiveHolds == Spec => []Feed!BooksAreLive
  <1>1. FeedInv => Feed!BooksAreLive BY Zenon DEF FeedInv, Followed, Live, Feed!BooksAreLive
  <1> QED BY <1>1, FeedAlways, PTL

\* However full the queue is, and however the socket ends in order: no frame is dropped or
\* overtaken while the connection is there (transport.py WebSocketRunner receive and consume).
THEOREM NothingSkippedHolds == Spec => []Feed!NothingSkipped
  <1>1. FeedInv => Feed!NothingSkipped
    <2> SUFFICES ASSUME FeedInv, conn.at # "down"
                 PROVE  /\ handled + Len(Feed!Waiting) = sent
                        /\ \A i \in 1..Len(Feed!Waiting) : Feed!Waiting[i].no = handled + i
      BY DEF Feed!NothingSkipped
    <2> DEFINE q == Feed!Frames
               k == Marks(conn.at)
    <2>1. /\ queue \in Seq(FeedFrames \cup {Feed!End}) /\ wire \in Seq(FeedFrames)
          /\ (conn.at # "open" => wire = <<>>)
          /\ (conn.at = "draining" => queue # <<>> /\ queue[Len(queue)] = Feed!End)
          /\ (\A i \in 1..(Len(queue) - k) : queue[i] \in FeedFrames /\ queue[i].no = handled + i)
          /\ (\A i \in 1..Len(wire) : wire[i].no = handled + Len(queue) + i)
          /\ handled + (Len(queue) - k) + Len(wire) = sent
      BY DEF FeedInv, Flow, FlowOf
    <2>2. handled \in Nat /\ Len(queue) \in Nat /\ Len(wire) \in Nat BY <2>1 DEF FeedInv, FeedTypes
    <2>3. /\ q \in Seq(FeedFrames \cup {Feed!End}) /\ Len(q) = Len(queue) - k
          /\ \A i \in 1..Len(q) : q[i] = queue[i]
      <3>1. CASE conn.at = "draining"
        <4>1. k = 1 /\ queue # <<>> /\ q = SubSeq(queue, 1, Len(queue) - 1)
          BY <2>1, <3>1 DEF Feed!Frames, Marks
        <4>2. Len(q) = Len(queue) - 1 /\ (\A i \in 1..(Len(queue) - 1) : q[i] = queue[i])
              /\ q \in Seq(FeedFrames \cup {Feed!End})
          BY <2>1, <4>1, FrontOf
        <4> HIDE DEF q, k
        <4> QED BY <4>1, <4>2
      <3>2. CASE conn.at # "draining"
        <4>1. k = 0 BY <3>2 DEF Marks
        <4>2. queue = <<>> \/ queue[Len(queue)] # Feed!End
          <5>1. CASE queue # <<>>
            <6>1. Len(queue) \in 1..(Len(queue) - k) BY <2>1, <2>2, <4>1, <5>1
            <6>2. queue[Len(queue)] \in FeedFrames BY <2>1, <6>1
            <6> QED BY <6>2, FramesOrEnd
          <5> QED BY <5>1
        <4>3. q = queue BY <4>2 DEF Feed!Frames
        <4> HIDE DEF q, k
        <4> QED BY <2>1, <2>2, <4>1, <4>3
      <3> QED BY <3>1, <3>2
    <2>4. Len(wire) # 0 => k = 0 BY <2>1 DEF Marks
    <2>5. Feed!Waiting = q \o wire BY DEF Feed!Waiting
    <2>6. k \in Nat BY DEF Marks
    <2> HIDE DEF q, k
    <2>7. /\ Len(Feed!Waiting) = Len(q) + Len(wire)
          /\ \A i \in 1..Len(Feed!Waiting) :
               Feed!Waiting[i] = IF i <= Len(q) THEN q[i] ELSE wire[i - Len(q)]
      <3>1. wire \in Seq(FeedFrames \cup {Feed!End}) BY <2>1
      <3> QED BY <2>3, <2>5, <3>1, Joined
    <2>8. handled + Len(Feed!Waiting) = sent BY <2>1, <2>2, <2>3, <2>6, <2>7
    <2>9. ASSUME NEW i \in 1..Len(Feed!Waiting) PROVE Feed!Waiting[i].no = handled + i
      <3>1. Len(q) \in Nat BY <2>3
      <3>2. CASE i <= Len(q)
        <4>1. i \in 1..(Len(queue) - k) /\ i \in 1..Len(q) BY <2>3, <3>1, <3>2
        <4> QED BY <2>1, <2>3, <2>7, <2>9, <3>2, <4>1
      <3>3. CASE ~(i <= Len(q))
        <4>1. i - Len(q) \in 1..Len(wire) BY <2>2, <2>7, <3>1, <3>3
        <4>2. Len(q) = Len(queue) BY <2>2, <2>3, <2>4, <4>1
        <4>3. wire[i - Len(q)].no = handled + Len(queue) + (i - Len(q)) BY <2>1, <4>1
        <4>4. Feed!Waiting[i] = wire[i - Len(q)] BY <2>7, <3>3
        <4>5. handled + Len(queue) + (i - Len(q)) = handled + i BY <2>2, <3>1, <4>2
        <4> QED BY <4>3, <4>4, <4>5
      <3> QED BY <3>2, <3>3
    <2> QED BY <2>8, <2>9
  <1> QED BY <1>1, FeedAlways, PTL

----------------------------------------------------------------------------
(* The types of all *)

\* Every variable of the feed, the recovery, the rates, the token cache, the read scheduler
\* and the upgrades keeps its type (transport.py, route_recovery.py, orders.py, service.py,
\* read_scheduler.py and the scripts in ops).
THEOREM TypesOKHolds == Spec => []TypesOK
  <1>1. Init => TokensInv /\ Reads!TypeOK /\ RecoveryInv /\ DeployInv
    BY PartsStart, TokensStart, ReadsStart, RecoveryStart, DeployStart
  <1>2. TokensInv /\ Reads!TypeOK /\ RecoveryInv /\ DeployInv /\ [Next]_vars =>
          (TokensInv /\ Reads!TypeOK /\ RecoveryInv /\ DeployInv)'
    BY TokensStep, ReadsStep, RecoveryStep, DeployStep
  <1>3. FeedInv /\ RoomInv /\ TokensInv /\ Reads!TypeOK /\ RecoveryInv /\ DeployInv => TypesOK
    BY FeedTyped, RoomTyped, RecoveryTyped, DeployTyped DEF TokensInv, TypesOK
  <1> QED BY <1>1, <1>2, <1>3, FeedAlways, RoomAlways, PTL DEF Spec
=============================================================================
