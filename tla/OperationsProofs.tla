--------------------------- MODULE OperationsProofs ---------------------------
(* What is proved of the parts of MCOperations, for every value of their       *)
(* constants. Of the incidents (Incidents): what the file says of those that   *)
(* are not over, how many agents a day gets, and when one is started again. Of *)
(* what is bought (Sizing, Candidates): that it is paid for, and the best.     *)
EXTENDS MCOperations, Sums, TLAPS

-----------------------------------------------------------------------------
(* Sets of places *)

\* The places of a finite set are counted off by how many are not behind them.
Rank(ks, k) == Cardinality({j \in ks : j <= k})

LEMMA RankType ==
  ASSUME NEW ks \in SUBSET Int, IsFiniteSet(ks), NEW k \in ks
  PROVE  Rank(ks, k) \in 1..Cardinality(ks)
  <1>1. {j \in ks : j <= k} \in SUBSET ks /\ k \in {j \in ks : j <= k} OBVIOUS
  <1> DEFINE S == {j \in ks : j <= k}
  <1> HIDE DEF S
  <1>2. /\ IsFiniteSet(S) /\ Cardinality(S) \in Nat /\ Cardinality(S) <= Cardinality(ks)
        /\ Cardinality(ks) \in Nat
    BY <1>1, FS_Subset, FS_CardinalityType DEF S
  <1>3. Cardinality(S) # 0 BY <1>1, <1>2, FS_EmptySet DEF S
  <1> QED BY <1>2, <1>3 DEF Rank, S

LEMMA RankRises ==
  ASSUME NEW ks \in SUBSET Int, IsFiniteSet(ks), NEW k \in ks, NEW l \in ks, k < l
  PROVE  Rank(ks, k) # Rank(ks, l)
  <1> DEFINE S == {j \in ks : j <= k}
             T == {j \in ks : j <= l}
  <1>a. \A j \in ks : j \in Int OBVIOUS
  <1>b. \A j \in ks : j <= k => j <= l BY <1>a
  <1>c. l <= l /\ ~(l <= k) BY <1>a
  <1>d. S \subseteq T BY <1>b
  <1>e. l \in T /\ l \notin S BY <1>c
  <1>1. S \in SUBSET T /\ T \in SUBSET ks /\ l \in T /\ l \notin S BY <1>d, <1>e
  <1> HIDE DEF S, T
  <1>2. IsFiniteSet(T) BY <1>1, FS_Subset
  <1>3. Cardinality(T) # Cardinality(S) BY <1>1, <1>2, FS_Subset
  <1> QED BY <1>3 DEF Rank, S, T

LEMMA Ranked ==
  ASSUME NEW ks \in SUBSET Int, IsFiniteSet(ks)
  PROVE  /\ \A n \in 1..Cardinality(ks) : \E k \in ks : Rank(ks, k) = n
         /\ \A k, l \in ks : Rank(ks, k) = Rank(ks, l) => k = l
  <1> DEFINE f == [k \in ks |-> Rank(ks, k)]
  <1>1. \A k, l \in ks : Rank(ks, k) = Rank(ks, l) => k = l
    <2> SUFFICES ASSUME NEW k \in ks, NEW l \in ks, k # l PROVE Rank(ks, k) # Rank(ks, l)
      OBVIOUS
    <2>1. k < l \/ l < k OBVIOUS
    <2> QED BY <2>1, RankRises
  <1>2. f \in Injection(ks, 1..Cardinality(ks))
    BY <1>1, RankType DEF Injection, IsInjective
  <1>3. /\ Cardinality(ks) \in Nat /\ IsFiniteSet(1..Cardinality(ks))
        /\ Cardinality(1..Cardinality(ks)) = Cardinality(ks)
    BY FS_CardinalityType, FS_Interval
  <1>4. f \in Surjection(ks, 1..Cardinality(ks))
    <2> HIDE DEF f
    <2> QED BY <1>2, <1>3, FS_Injection
  <1>5. \A n \in 1..Cardinality(ks) : \E k \in ks : f[k] = n BY <1>4 DEF Surjection
  <1> QED BY <1>1, <1>5

\* b has the places ks of s, each once.
Takes(b, c, s, ks) ==
  \E f \in [1..c -> ks] :
    /\ b = [n \in 1..c |-> s[f[n]]]
    /\ \A m, n \in 1..c : f[m] = f[n] => m = n
    /\ \A k \in ks : \E n \in 1..c : f[n] = k

LEMMA TakenInOrder ==
  ASSUME NEW s, NEW ks \in SUBSET Int, IsFiniteSet(ks)
  PROVE  Cardinality(ks) \in Nat /\ Takes(Incidents!InOrder(s, ks), Cardinality(ks), s, ks)
  <1> DEFINE f == [n \in 1..Cardinality(ks) |-> CHOOSE k \in ks : Rank(ks, k) = n]
  <1>1. Incidents!InOrder(s, ks) = [n \in 1..Cardinality(ks) |-> s[f[n]]]
    BY DEF Incidents!InOrder, Rank, Incidents!Cardinality, Cardinality
  <1>2. \A n \in 1..Cardinality(ks) : f[n] \in ks /\ Rank(ks, f[n]) = n
    BY Ranked
  <1>3. f \in [1..Cardinality(ks) -> ks] BY <1>2
  <1>4. \A k \in ks : Rank(ks, k) \in 1..Cardinality(ks) BY RankType
  <1> HIDE DEF f
  <1>5. ASSUME NEW k \in ks PROVE f[Rank(ks, k)] = k
    <2>1. f[Rank(ks, k)] \in ks /\ Rank(ks, f[Rank(ks, k)]) = Rank(ks, k) BY <1>2, <1>4
    <2>2. \A j, l \in ks : Rank(ks, j) = Rank(ks, l) => j = l BY Ranked
    <2> QED BY <2>1, <2>2, Zenon
  <1>6. \A m, n \in 1..Cardinality(ks) : f[m] = f[n] => m = n BY <1>2, Zenon
  <1>7. Cardinality(ks) \in Nat BY FS_CardinalityType
  <1>8. \A k \in ks : \E n \in 1..Cardinality(ks) : f[n] = k BY <1>4, <1>5
  <1> QED BY <1>1, <1>3, <1>6, <1>7, <1>8 DEF Takes

\* A finite set as a sequence has every element, once.
LEMMA Listed ==
  ASSUME NEW R, IsFiniteSet(R)
  PROVE  /\ Incidents!SetToSeq(R) \in Seq(R)
         /\ \A m, n \in DOMAIN Incidents!SetToSeq(R) :
              Incidents!SetToSeq(R)[m] = Incidents!SetToSeq(R)[n] => m = n
         /\ \A x \in R : \E n \in DOMAIN Incidents!SetToSeq(R) : Incidents!SetToSeq(R)[n] = x
  <1>1. Cardinality(R) \in Nat BY FS_CardinalityType
  <1>2. PICK b \in Bijection(1..Cardinality(R), R) : TRUE
    BY FS_CardinalityType DEF ExistsBijection
  <1>3. b \in [1..Cardinality(R) -> R] /\ Incidents!IsInjective(b)
    BY <1>2 DEF Bijection, Injection, Incidents!IsInjective, IsInjective
  <1> DEFINE g == Incidents!SetToSeq(R)
  <1>4. g \in [1..Cardinality(R) -> R] /\ Incidents!IsInjective(g)
    BY <1>3 DEF Incidents!SetToSeq, Incidents!Cardinality, Cardinality
  <1> HIDE DEF g
  <1>5. g \in Injection(1..Cardinality(R), R)
    BY <1>4 DEF Injection, Incidents!IsInjective, IsInjective
  <1>6. Cardinality(1..Cardinality(R)) = Cardinality(R) BY <1>1, FS_Interval
  <1>7. g \in Surjection(1..Cardinality(R), R) BY <1>5, <1>6, FS_Injection
  <1>8. DOMAIN g = 1..Cardinality(R) BY <1>4
  <1>9. \A m, n \in DOMAIN g : g[m] = g[n] => m = n BY <1>4 DEF Incidents!IsInjective
  <1>10. \A x \in R : \E n \in DOMAIN g : g[n] = x BY <1>7, <1>8 DEF Surjection
  <1>11. g \in Seq(R) BY <1>1, <1>4
  <1> QED BY <1>9, <1>10, <1>11 DEF g

-----------------------------------------------------------------------------
(* The file of incidents *)

Codes == UNION {t.wrong : t \in Traders}
Incident == [code : Codes, first : Int, last : Int, state : {"PENDING", "OPEN", "RESOLVED"}]
Live(q) == {k \in DOMAIN q : Incidents!Unresolved(q[k])}
Counts(i, at) == i.code \in Incidents!Immediate \/ at - i.first >= Confirm

\* What is not over in q is what the check at "at" found, each code since "found".
Confirmed(q, found, at) ==
  /\ \A k, l \in Live(q) : q[k].code = q[l].code => k = l
  /\ DOMAIN found = {q[k].code : k \in Live(q)}
  /\ \A k \in Live(q) :
       /\ q[k].first = found[q[k].code] /\ q[k].last = at
       /\ q[k].state = "OPEN" <=> Counts(q[k], at)

LEMMA IncidentConstants ==
  /\ Confirm \in Nat /\ Pause \in Nat /\ MaxDaily \in Nat /\ Kept \in Nat /\ MaxWatch \in Nat
  /\ DayLength \in Nat \ {0}
  BY OperationsAssumption

LEMMA Joined ==
  ASSUME NEW S, NEW a \in Seq(S), NEW b \in Seq(S)
  PROVE  /\ a \o b \in Seq(S) /\ DOMAIN (a \o b) = 1..(Len(a) + Len(b))
         /\ Len(a) \in Nat /\ Len(b) \in Nat /\ DOMAIN a = 1..Len(a) /\ DOMAIN b = 1..Len(b)
         /\ \A k \in 1..Len(a) : k \in DOMAIN (a \o b) /\ (a \o b)[k] = a[k]
         /\ \A n \in 1..Len(b) : Len(a) + n \in DOMAIN (a \o b) /\ (a \o b)[Len(a) + n] = b[n]
         /\ \A k \in DOMAIN (a \o b) : k \in 1..Len(a) \/ \E n \in 1..Len(b) : k = Len(a) + n
  <1>1. /\ a \o b \in Seq(S) /\ DOMAIN (a \o b) = 1..(Len(a) + Len(b))
        /\ Len(a) \in Nat /\ Len(b) \in Nat /\ DOMAIN a = 1..Len(a) /\ DOMAIN b = 1..Len(b)
    OBVIOUS
  <1>2. \A k \in 1..Len(a) : k \in DOMAIN (a \o b) /\ (a \o b)[k] = a[k] BY <1>1
  <1>3. \A n \in 1..Len(b) : Len(a) + n \in DOMAIN (a \o b) /\ (a \o b)[Len(a) + n] = b[n]
    BY <1>1
  <1>4. ASSUME NEW k \in DOMAIN (a \o b), k \notin 1..Len(a)
        PROVE  \E n \in 1..Len(b) : k = Len(a) + n
    <2>1. k - Len(a) \in 1..Len(b) /\ k = Len(a) + (k - Len(a)) BY <1>1, <1>4
    <2> QED BY <2>1
  <1> QED BY <1>1, <1>2, <1>3, <1>4

LEMMA FunctionIsSequence ==
  ASSUME NEW S, NEW n \in Nat, NEW b \in [1..n -> S]
  PROVE  b \in Seq(S) /\ Len(b) = n
  OBVIOUS

\* A part of a sequence, in its order.
LEMMA PartOf ==
  ASSUME NEW S, NEW s \in Seq(S), NEW ks \in SUBSET DOMAIN s
  PROVE  LET b == Incidents!InOrder(s, ks) IN b \in Seq(S) /\ Takes(b, Len(b), s, ks)
  <1> DEFINE b == Incidents!InOrder(s, ks)
             c == Cardinality(ks)
  <1>1. DOMAIN s = 1..Len(s) /\ Len(s) \in Nat /\ \A k \in DOMAIN s : s[k] \in S OBVIOUS
  <1>2. ks \in SUBSET Int /\ IsFiniteSet(ks)
    <2>1. IsFiniteSet(DOMAIN s) BY <1>1, FS_Interval
    <2> QED BY <1>1, <2>1, FS_Subset
  <1>3. c \in Nat /\ Takes(b, c, s, ks) BY <1>2, TakenInOrder
  <1> HIDE DEF b, c
  <1>5. b \in [1..c -> S] BY <1>1, <1>3 DEF Takes
  <1>6. b \in Seq(S) /\ Len(b) = c BY <1>3, <1>5, FunctionIsSequence
  <1> QED BY <1>3, <1>6 DEF b

\* The order in the file does not matter, nor which of the resolved are kept.
LEMMA Reordered ==
  ASSUME NEW all \in Seq(Incident), NEW found, NEW at, Confirmed(all, found, at),
         NEW old \in SUBSET (DOMAIN all \ Live(all))
  PROVE  LET q == Incidents!InOrder(all, old) \o Incidents!InOrder(all, Live(all))
         IN  q \in Seq(Incident) /\ Confirmed(q, found, at)
  <1> DEFINE A == Incidents!InOrder(all, old)
             B == Incidents!InOrder(all, Live(all))
             q == A \o B
  <1>3. Live(all) \in SUBSET DOMAIN all BY DEF Live
  <1>2. old \in SUBSET DOMAIN all OBVIOUS
  <1>8. A \in Seq(Incident) /\ Takes(A, Len(A), all, old) BY <1>2, PartOf
  <1>9. B \in Seq(Incident) /\ Takes(B, Len(B), all, Live(all)) BY <1>3, PartOf
  <1> HIDE DEF A, B
  <1>4. PICK f \in [1..Len(A) -> old] : \A n \in 1..Len(A) : A[n] = all[f[n]]
    BY <1>8 DEF Takes
  <1>5. PICK g \in [1..Len(B) -> Live(all)] :
             /\ \A n \in 1..Len(B) : B[n] = all[g[n]]
             /\ \A m, n \in 1..Len(B) : g[m] = g[n] => m = n
             /\ \A k \in Live(all) : \E n \in 1..Len(B) : g[n] = k
    BY <1>9 DEF Takes
  <1>10. /\ q \in Seq(Incident) /\ Len(A) \in Nat /\ Len(B) \in Nat
         /\ \A k \in 1..Len(A) : k \in DOMAIN q /\ q[k] = A[k]
         /\ \A n \in 1..Len(B) : Len(A) + n \in DOMAIN q /\ q[Len(A) + n] = B[n]
         /\ \A k \in DOMAIN q : k \in 1..Len(A) \/ \E n \in 1..Len(B) : k = Len(A) + n
    BY <1>8, <1>9, Joined
  <1> HIDE DEF q
  <1>11. \A k \in 1..Len(A) : ~Incidents!Unresolved(q[k])
    <2> SUFFICES ASSUME NEW k \in 1..Len(A) PROVE ~Incidents!Unresolved(q[k]) OBVIOUS
    <2>1. q[k] = all[f[k]] /\ f[k] \in old BY <1>4, <1>8, <1>10
    <2>2. ~Incidents!Unresolved(all[f[k]]) BY <1>2, <2>1 DEF Live
    <2> QED BY <2>1, <2>2
  <1>12. \A n \in 1..Len(B) : /\ Len(A) + n \in Live(q) /\ q[Len(A) + n] = all[g[n]]
                              /\ g[n] \in Live(all)
    <2> SUFFICES ASSUME NEW n \in 1..Len(B)
                 PROVE  /\ Len(A) + n \in Live(q) /\ q[Len(A) + n] = all[g[n]] /\ g[n] \in Live(all)
      OBVIOUS
    <2>1. q[Len(A) + n] = all[g[n]] /\ g[n] \in Live(all) BY <1>5, <1>9, <1>10
    <2>2. Incidents!Unresolved(all[g[n]]) BY <2>1 DEF Live
    <2>3. Len(A) + n \in DOMAIN q BY <1>10
    <2> QED BY <2>1, <2>2, <2>3 DEF Live
  <1>13. \A k \in Live(q) : \E n \in 1..Len(B) : k = Len(A) + n
    BY <1>10, <1>11 DEF Live
  <1>14. ASSUME NEW k \in Live(q), NEW l \in Live(q), q[k].code = q[l].code PROVE k = l
    <2>1. PICK m \in 1..Len(B) : k = Len(A) + m BY <1>13
    <2>2. PICK n \in 1..Len(B) : l = Len(A) + n BY <1>13
    <2>3. /\ g[m] \in Live(all) /\ g[n] \in Live(all)
          /\ all[g[m]].code = all[g[n]].code
      BY <1>12, <1>14, <2>1, <2>2
    <2>4. g[m] = g[n] BY <2>3 DEF Confirmed
    <2>5. m = n BY <1>5, <1>9, <2>4
    <2> QED BY <2>1, <2>2, <2>5
  <1>15. {q[k].code : k \in Live(q)} = {all[k].code : k \in Live(all)}
    <2>1. \A k \in Live(q) : \E l \in Live(all) : q[k] = all[l] BY <1>12, <1>13
    <2>2. ASSUME NEW l \in Live(all) PROVE \E k \in Live(q) : q[k] = all[l]
      <3>1. PICK n \in 1..Len(B) : g[n] = l BY <1>5
      <3> QED BY <1>12, <3>1, Zenon
    <2> QED BY <2>1, <2>2
  <1>16. ASSUME NEW k \in Live(q)
         PROVE  /\ q[k].first = found[q[k].code] /\ q[k].last = at
                /\ q[k].state = "OPEN" <=> Counts(q[k], at)
    <2>1. PICK l \in Live(all) : q[k] = all[l] BY <1>12, <1>13
    <2>2. /\ all[l].first = found[all[l].code] /\ all[l].last = at
          /\ all[l].state = "OPEN" <=> Counts(all[l], at)
      BY DEF Confirmed
    <2> QED BY <2>1, <2>2
  <1>17. Confirmed(q, found, at) BY <1>14, <1>15, <1>16 DEF Confirmed
  <1> QED BY <1>10, <1>17 DEF q, A, B

LEMMA RecordsAreFinite ==
  ASSUME NEW S, IsFiniteSet(S)
  PROVE  IsFiniteSet({Incidents!Record(code) : code \in S})
  <1> DEFINE R == {Incidents!Record(code) : code \in S}
             f == [code \in S |-> Incidents!Record(code)]
  <1>1. f \in Surjection(S, R) BY DEF Surjection
  <1> HIDE DEF f, R
  <1>2. IsFiniteSet(R) BY <1>1, FS_Surjection
  <1> QED BY <1>2 DEF R

\* What one check makes of an incident it found before.
LEMMA SeenAgain ==
  ASSUME NEW i \in Incident, NEW codes, NEW at \in Int, time \in Int, at <= time,
         Incidents!Unresolved(i) => (i.state = "OPEN" <=> Counts(i, at))
  PROVE  /\ Incidents!Seen(i, codes) \in Incident
         /\ Incidents!Unresolved(Incidents!Seen(i, codes)) <=> Incidents!Unresolved(i) /\ i.code \in codes
         /\ Incidents!Seen(i, codes).code = i.code /\ Incidents!Seen(i, codes).first = i.first
         /\ Incidents!Unresolved(Incidents!Seen(i, codes)) =>
              /\ Incidents!Seen(i, codes).last = time
              /\ Incidents!Seen(i, codes).state = "OPEN" <=> Counts(i, time)
  <1> DEFINE s == Incidents!Seen(i, codes)
  <1>0. i = [code |-> i.code, first |-> i.first, last |-> i.last, state |-> i.state]
        /\ i.code \in Codes /\ i.first \in Int /\ i.last \in Int
        /\ i.state \in {"PENDING", "OPEN", "RESOLVED"}
    BY DEF Incident
  <1>1. CASE ~Incidents!Unresolved(i)
    <2>1. s = i BY <1>1 DEF Incidents!Seen
    <2> QED BY <1>1, <2>1
  <1>2. CASE Incidents!Unresolved(i) /\ i.code \notin codes
    <2>1. s = [i EXCEPT !.state = "RESOLVED"] BY <1>2 DEF Incidents!Seen
    <2>2. s \in Incident /\ s.code = i.code /\ s.first = i.first /\ s.state = "RESOLVED"
      BY <1>0, <2>1 DEF Incident
    <2> HIDE DEF s
    <2>3. ~Incidents!Unresolved(s) BY <2>2 DEF Incidents!Unresolved
    <2> QED BY <1>2, <2>2, <2>3 DEF s
  <1>3. CASE Incidents!Unresolved(i) /\ i.code \in codes
    <2> DEFINE new == IF Incidents!StateOf(i.code, i.first) = "OPEN" THEN "OPEN" ELSE i.state
    <2>1. s = [i EXCEPT !.last = time, !.state = new] BY <1>3 DEF Incidents!Seen
    <2>2. new \in {"PENDING", "OPEN", "RESOLVED"} /\ new # "RESOLVED"
      BY <1>0, <1>3 DEF Incidents!Unresolved
    <2>3. Incidents!StateOf(i.code, i.first) = "OPEN" <=> Counts(i, time)
      BY DEF Incidents!StateOf, Counts
    <2>4. i.state = "OPEN" => Counts(i, time)
      <3>1. Counts(i, at) => Counts(i, time) BY <1>0, IncidentConstants DEF Counts
      <3> QED BY <1>3, <3>1
    <2>5. new = "OPEN" <=> Counts(i, time) BY <2>3, <2>4
    <2> HIDE DEF new
    <2>6. s \in Incident /\ s.code = i.code /\ s.first = i.first /\ s.last = time /\ s.state = new
      BY <1>0, <2>1, <2>2 DEF Incident
    <2> HIDE DEF s
    <2>7. Incidents!Unresolved(s) BY <2>2, <2>6 DEF Incidents!Unresolved
    <2> QED BY <1>3, <2>5, <2>6, <2>7 DEF s
  <1> QED BY <1>1, <1>2, <1>3

LEMMA FoundNow ==
  ASSUME NEW code \in Codes, time \in Int
  PROVE  /\ Incidents!Record(code) \in Incident /\ Incidents!Unresolved(Incidents!Record(code))
         /\ Incidents!Record(code).code = code /\ Incidents!Record(code).first = time
         /\ Incidents!Record(code).last = time
         /\ Incidents!Record(code).state = "OPEN" <=> Counts(Incidents!Record(code), time)
  <1> DEFINE r == Incidents!Record(code)
  <1>1. r = [code |-> code, first |-> time, last |-> time, state |-> Incidents!StateOf(code, time)]
    BY DEF Incidents!Record
  <1>2. r.code = code /\ r.first = time /\ r.last = time /\ r.state = Incidents!StateOf(code, time)
    BY <1>1
  <1>3. Incidents!StateOf(code, time) \in {"PENDING", "OPEN"}
    BY DEF Incidents!StateOf
  <1>4. Incidents!StateOf(code, time) = "OPEN" <=> Counts(r, time)
    BY <1>2 DEF Incidents!StateOf, Counts
  <1>5. r \in Incident BY <1>1, <1>3 DEF Incident
  <1> HIDE DEF r
  <1>6. Incidents!Unresolved(r) BY <1>2, <1>3 DEF Incidents!Unresolved
  <1> QED BY <1>2, <1>4, <1>5, <1>6 DEF r

\* A check confirms what it finds and what was confirmed before.
LEMMA Advanced ==
  ASSUME NEW q \in Seq(Incident), NEW found, NEW at \in Int, time \in Int, at <= time,
         Confirmed(q, found, at), NEW codes \in SUBSET Codes, IsFiniteSet(codes)
  PROVE  /\ Incidents!Advance(q, codes) \in Seq(Incident)
         /\ Confirmed(Incidents!Advance(q, codes),
                      [code \in codes |-> Incidents!Get(found, code, time)], time)
  <1> DEFINE seen == [k \in DOMAIN q |-> Incidents!Seen(q[k], codes)]
             R == {Incidents!Record(code) : code \in Incidents!Appeared(q, codes)}
             new == Incidents!SetToSeq(R)
             all == seen \o new
             since2 == [code \in codes |-> Incidents!Get(found, code, time)]
             live == {k \in DOMAIN all : Incidents!Unresolved(all[k])}
             over == DOMAIN all \ live
             old == {k \in over : Incidents!Cardinality({j \in over : j > k}) < Kept}
  <1>1. DOMAIN q = 1..Len(q) /\ Len(q) \in Nat /\ \A k \in DOMAIN q : q[k] \in Incident OBVIOUS
  <1>2. \A code \in Incidents!Appeared(q, codes) :
          /\ code \in codes /\ code \in Codes
          /\ \A k \in Live(q) : q[k].code # code
    BY <1>1 DEF Incidents!Appeared, Incidents!ToSet, Live
  <1>3. \A code \in codes : (\A k \in Live(q) : q[k].code # code) => code \in Incidents!Appeared(q, codes)
    BY <1>1 DEF Incidents!Appeared, Incidents!ToSet, Live
  <1>4. R \subseteq Incident BY <1>2, FoundNow
  <1>5. IsFiniteSet(R)
    <2>1. IsFiniteSet(Incidents!Appeared(q, codes))
      <3>1. Incidents!Appeared(q, codes) \in SUBSET codes BY <1>2
      <3> QED BY <3>1, FS_Subset
    <2> QED BY <2>1, RecordsAreFinite
  <1>6. \A r \in R : /\ r.code \in Incidents!Appeared(q, codes) /\ Incidents!Unresolved(r)
                     /\ r = Incidents!Record(r.code) /\ r.first = time /\ r.last = time
                     /\ r.state = "OPEN" <=> Counts(r, time)
    BY <1>2, FoundNow
  <1>7. \A code \in Incidents!Appeared(q, codes) : \E r \in R : r.code = code BY <1>2, FoundNow
  <1> HIDE DEF R
  <1>8. /\ new \in Seq(R)
        /\ \A m, n \in DOMAIN new : new[m] = new[n] => m = n
        /\ \A r \in R : \E n \in DOMAIN new : new[n] = r
    BY <1>5, Listed
  <1> HIDE DEF new
  <1>9. new \in Seq(Incident) /\ \A n \in 1..Len(new) : new[n] \in R BY <1>4, <1>8
  <1>10. ASSUME NEW k \in DOMAIN q
         PROVE  /\ seen[k] \in Incident
                /\ Incidents!Unresolved(seen[k]) <=> k \in Live(q) /\ q[k].code \in codes
                /\ seen[k].code = q[k].code /\ seen[k].first = q[k].first
                /\ Incidents!Unresolved(seen[k]) =>
                     seen[k].last = time /\ (seen[k].state = "OPEN" <=> Counts(seen[k], time))
    <2>1. q[k] \in Incident BY <1>1
    <2>2. Incidents!Unresolved(q[k]) => (q[k].state = "OPEN" <=> Counts(q[k], at))
      BY DEF Confirmed, Live
    <2>3. seen[k] = Incidents!Seen(q[k], codes) OBVIOUS
    <2> HIDE DEF seen
    <2>4. Counts(seen[k], time) <=> Counts(q[k], time) BY <2>1, <2>2, <2>3, SeenAgain DEF Counts
    <2> QED BY <2>1, <2>2, <2>3, <2>4, SeenAgain DEF Live
  <1>11. seen \in Seq(Incident) /\ Len(seen) = Len(q)
    <2>1. seen \in [1..Len(q) -> Incident] BY <1>1, <1>10
    <2> HIDE DEF seen
    <2> QED BY <1>1, <2>1, FunctionIsSequence
  <1> HIDE DEF seen
  <1>12. /\ all \in Seq(Incident) /\ Len(q) \in Nat /\ Len(new) \in Nat /\ DOMAIN new = 1..Len(new)
         /\ \A k \in 1..Len(q) : k \in DOMAIN all /\ all[k] = seen[k]
         /\ \A n \in 1..Len(new) : Len(q) + n \in DOMAIN all /\ all[Len(q) + n] = new[n]
         /\ \A k \in DOMAIN all : k \in 1..Len(q) \/ \E n \in 1..Len(new) : k = Len(q) + n
    <2>1. /\ all \in Seq(Incident) /\ Len(seen) \in Nat /\ Len(new) \in Nat /\ DOMAIN new = 1..Len(new)
          /\ \A k \in 1..Len(seen) : k \in DOMAIN all /\ all[k] = seen[k]
          /\ \A n \in 1..Len(new) : Len(seen) + n \in DOMAIN all /\ all[Len(seen) + n] = new[n]
          /\ \A k \in DOMAIN all : k \in 1..Len(seen) \/ \E n \in 1..Len(new) : k = Len(seen) + n
      <3>1. seen \in Seq(Incident) /\ new \in Seq(Incident) BY <1>9, <1>11
      <3> HIDE DEF live, over, old
      <3> QED BY <3>1, Joined
    <2> HIDE DEF all
    <2> QED BY <1>11, <2>1
  <1> HIDE DEF all
  \* An incident that is not over was seen again, or is new.
  <1>13. ASSUME NEW k \in Live(all)
         PROVE  \/ /\ k \in Live(q) /\ k \in 1..Len(q) /\ all[k] = seen[k] /\ all[k].code = q[k].code
                   /\ q[k].code \in codes
                \/ \E n \in 1..Len(new) : k = Len(q) + n /\ all[k] = new[n] /\ new[n] \in R
    <2>1. k \in DOMAIN all /\ Incidents!Unresolved(all[k]) BY DEF Live
    <2>2. CASE k \in 1..Len(q) BY <1>1, <1>10, <1>12, <2>1, <2>2
    <2>3. CASE \E n \in 1..Len(new) : k = Len(q) + n BY <1>9, <1>12, <2>3
    <2> QED BY <1>12, <2>1, <2>2, <2>3
  <1>14. ASSUME NEW k \in Live(all), NEW l \in Live(all), all[k].code = all[l].code PROVE k = l
    <2>1. CASE k \in Live(q) /\ l \in Live(q) /\ all[k].code = q[k].code /\ all[l].code = q[l].code
      BY <1>14, <2>1 DEF Confirmed
    <2>2. ASSUME NEW m \in Live(q), NEW n \in 1..Len(new), new[n] \in R, new[n].code = q[m].code
          PROVE  FALSE
      BY <1>2, <1>6, <2>2
    <2>3. CASE \E m, n \in 1..Len(new) : /\ k = Len(q) + m /\ all[k] = new[m] /\ new[m] \in R
                                         /\ l = Len(q) + n /\ all[l] = new[n] /\ new[n] \in R
      <3>1. PICK m, n \in 1..Len(new) : /\ k = Len(q) + m /\ all[k] = new[m] /\ new[m] \in R
                                        /\ l = Len(q) + n /\ all[l] = new[n] /\ new[n] \in R
        BY <2>3
      <3>2. new[m].code = new[n].code BY <1>14, <3>1
      <3>3. new[m] = new[n] BY <1>6, <3>1, <3>2, Zenon
      <3>4. m = n BY <1>8, <1>12, <3>3
      <3> QED BY <3>1, <3>4
    <2> QED BY <1>13, <1>14, <2>1, <2>2, <2>3, Zenon
  <1>15. {all[k].code : k \in Live(all)} = codes
    <2>1. \A k \in Live(all) : all[k].code \in codes BY <1>2, <1>6, <1>13
    <2>2. ASSUME NEW code \in codes PROVE \E k \in Live(all) : all[k].code = code
      <3>1. CASE \E k \in Live(q) : q[k].code = code
        <4>1. PICK k \in Live(q) : q[k].code = code BY <3>1
        <4>2. k \in DOMAIN q /\ k \in 1..Len(q) BY <1>1, <4>1 DEF Live
        <4>3. k \in DOMAIN all /\ all[k] = seen[k] BY <1>12, <4>2
        <4>4. Incidents!Unresolved(all[k]) /\ all[k].code = code BY <1>10, <4>1, <4>2, <4>3
        <4> QED BY <4>3, <4>4 DEF Live
      <3>2. CASE ~\E k \in Live(q) : q[k].code = code
        <4>1. PICK r \in R : r.code = code BY <1>3, <1>7, <3>2
        <4>2. PICK n \in 1..Len(new) : new[n] = r BY <1>8, <1>12
        <4>3. Len(q) + n \in DOMAIN all /\ all[Len(q) + n] = r BY <1>12, <4>2
        <4>4. Incidents!Unresolved(r) BY <1>6
        <4> QED BY <4>1, <4>3, <4>4 DEF Live
      <3> QED BY <3>1, <3>2
    <2> QED BY <2>1, <2>2
  <1>16. ASSUME NEW k \in Live(all)
         PROVE  /\ all[k].first = since2[all[k].code] /\ all[k].last = time
                /\ all[k].state = "OPEN" <=> Counts(all[k], time)
    <2>1. CASE /\ k \in Live(q) /\ k \in 1..Len(q) /\ all[k] = seen[k] /\ all[k].code = q[k].code
               /\ q[k].code \in codes
      <3>1. q[k].code \in DOMAIN found /\ q[k].first = found[q[k].code] BY <2>1 DEF Confirmed
      <3>2. since2[all[k].code] = q[k].first BY <2>1, <3>1 DEF Incidents!Get
      <3>3. k \in DOMAIN q /\ Incidents!Unresolved(seen[k]) BY <1>1, <1>10, <2>1
      <3>4. /\ seen[k].first = q[k].first /\ seen[k].last = time
            /\ seen[k].state = "OPEN" <=> Counts(seen[k], time)
        BY <1>10, <3>3
      <3> QED BY <2>1, <3>2, <3>4
    <2>2. CASE \E n \in 1..Len(new) : k = Len(q) + n /\ all[k] = new[n] /\ new[n] \in R
      <3>1. all[k] \in R BY <2>2
      <3>2. /\ all[k].code \in Incidents!Appeared(q, codes) /\ all[k].first = time
            /\ all[k].last = time
            /\ all[k].state = "OPEN" <=> Counts(all[k], time)
        BY <1>6, <3>1
      <3>3. all[k].code \in codes /\ all[k].code \notin DOMAIN found BY <1>2, <3>2 DEF Confirmed
      <3>4. since2[all[k].code] = time BY <3>3 DEF Incidents!Get
      <3> QED BY <3>2, <3>4
    <2> QED BY <1>13, <2>1, <2>2, Zenon
  <1>17. Confirmed(all, since2, time)
    <2>1. DOMAIN since2 = codes OBVIOUS
    <2> HIDE DEF since2
    <2> QED BY <1>14, <1>15, <1>16, <2>1 DEF Confirmed
  <1>18. live = Live(all) BY DEF Live
  <1>19. old \in SUBSET (DOMAIN all \ Live(all)) BY <1>18
  <1>20. Incidents!Advance(q, codes) = Incidents!InOrder(all, old) \o Incidents!InOrder(all, Live(all))
    <2>1. Incidents!Advance(q, codes) = Incidents!InOrder(all, old) \o Incidents!InOrder(all, live)
      BY DEF Incidents!Advance, all, seen, new, R
    <2> QED BY <1>18, <2>1
  <1> HIDE DEF old, since2
  <1>21. /\ Incidents!InOrder(all, old) \o Incidents!InOrder(all, Live(all)) \in Seq(Incident)
         /\ Confirmed(Incidents!InOrder(all, old) \o Incidents!InOrder(all, Live(all)), since2, time)
    BY <1>12, <1>17, <1>19, Reordered
  <1> QED BY <1>20, <1>21 DEF since2

-----------------------------------------------------------------------------
(* The collector *)

FileInv ==
  /\ time \in 0..MaxWatch /\ trader \in Traders
  /\ file.incidents \in Seq(Incident) /\ file.at \in Int /\ file.at <= time
  /\ Confirmed(file.incidents, since, file.at)

LEMMA FileStart ==
  ASSUME Incidents!Init
  PROVE  FileInv
  <1>1. /\ time = 0 /\ trader \in Traders /\ file.incidents = <<>> /\ file.at = -1 /\ since = <<>>
    BY DEF Incidents!Init, Incidents!NoFile, Incidents!Never
  <1>2. <<>> \in Seq(Incident) /\ DOMAIN <<>> = {} OBVIOUS
  <1>3. Live(<<>>) = {} BY <1>2 DEF Live
  <1>4. Confirmed(<<>>, <<>>, -1) BY <1>2, <1>3 DEF Confirmed
  <1> QED BY <1>1, <1>2, <1>4, IncidentConstants DEF FileInv

LEMMA FileNext ==
  ASSUME FileInv, Incidents!Next \/ UNCHANGED watch
  PROVE  FileInv'
  <1>1. ASSUME UNCHANGED <<file, since>>, time' \in 0..MaxWatch, time <= time', trader' \in Traders
        PROVE  FileInv'
    <2>1. file'.at <= time' BY <1>1, IncidentConstants DEF FileInv
    <2> QED BY <1>1, <2>1 DEF FileInv
  <1>2. ASSUME Incidents!Replace, UNCHANGED <<time, trader>> PROVE FileInv'
    <2>1. /\ file' = [at |-> time, incidents |-> Incidents!Advance(file.incidents, Incidents!FaultCandidates)]
          /\ since' = [code \in Incidents!FaultCandidates |-> Incidents!Get(since, code, time)]
          /\ time' = time /\ trader' = trader
      BY <1>2 DEF Incidents!Replace
    <2>2. Incidents!FaultCandidates \in SUBSET Codes /\ IsFiniteSet(Incidents!FaultCandidates)
      <3>1. trader \in Traders /\ IsFiniteSet(trader.wrong) BY OperationsAssumption DEF FileInv
      <3>2. Incidents!FaultCandidates \in SUBSET trader.wrong BY DEF Incidents!FaultCandidates
      <3>3. trader.wrong \subseteq Codes BY <3>1 DEF Codes
      <3> QED BY <3>1, <3>2, <3>3, FS_Subset
    <2>3. file.incidents \in Seq(Incident) /\ file.at \in Int /\ time \in Int /\ file.at <= time
          /\ Confirmed(file.incidents, since, file.at)
      BY IncidentConstants DEF FileInv
    <2>4. /\ Incidents!Advance(file.incidents, Incidents!FaultCandidates) \in Seq(Incident)
          /\ Confirmed(Incidents!Advance(file.incidents, Incidents!FaultCandidates),
                       [code \in Incidents!FaultCandidates |-> Incidents!Get(since, code, time)], time)
      BY <2>2, <2>3, Advanced
    <2>5. file'.incidents = Incidents!Advance(file.incidents, Incidents!FaultCandidates)
          /\ file'.at = time
      BY <2>1
    <2>6. Confirmed(file'.incidents, since', file'.at) BY <2>1, <2>4, <2>5
    <2>7. file'.incidents \in Seq(Incident) BY <2>4, <2>5
    <2>8. file'.at \in Int /\ file'.at <= time' BY <2>1, <2>3, <2>5
    <2> QED BY <2>1, <2>6, <2>7, <2>8 DEF FileInv
  <1>3. CASE Incidents!Tick
    <2>1. /\ time' \in 0..MaxWatch /\ time <= time' /\ trader' \in Traders /\ UNCHANGED <<file, since>>
      BY <1>3, IncidentConstants DEF Incidents!Tick, FileInv
    <2> QED BY <1>1, <2>1
  <1>4. CASE Incidents!Check BY <1>2, <1>4 DEF Incidents!Check
  <1>5. CASE Incidents!CheckFails /\ Incidents!Replace BY <1>2, <1>5 DEF Incidents!CheckFails
  <1>6. CASE \/ Incidents!CheckFails /\ UNCHANGED <<file, since>>
             \/ Incidents!RunnerCheck \/ Incidents!MonitorDown
             \/ Incidents!StartAgent \/ Incidents!AgentEnds \/ Incidents!KillRunner
             \/ UNCHANGED watch
    <2>1. UNCHANGED <<file, since, time, trader>>
      BY <1>6 DEF Incidents!CheckFails, Incidents!RunnerCheck, Incidents!MonitorDown,
           Incidents!StartAgent, Incidents!AgentEnds, Incidents!KillRunner, watch
    <2>2. time' \in 0..MaxWatch /\ time <= time' /\ trader' \in Traders
      BY <2>1, IncidentConstants DEF FileInv
    <2> QED BY <1>1, <2>1, <2>2
  <1>7. Incidents!CheckFails => Incidents!Replace \/ UNCHANGED <<file, since>>
    BY DEF Incidents!CheckFails
  <1> QED BY <1>3, <1>4, <1>5, <1>6, <1>7 DEF Incidents!Next

LEMMA FileIsTrue == FileInv => Incidents!IncidentsAreConfirmed
  <1> SUFFICES ASSUME FileInv PROVE Incidents!IncidentsAreConfirmed OBVIOUS
  <1> DEFINE q == file.incidents
  <1>1. {k \in DOMAIN q : Incidents!Unresolved(q[k])} = Live(q) BY DEF Live
  <1>2. Confirmed(q, since, file.at) BY DEF FileInv
  <1>3. \A k \in Live(q) : q[k].last = file.at BY <1>2 DEF Confirmed
  <1> QED BY <1>1, <1>2, <1>3 DEF Incidents!IncidentsAreConfirmed, Confirmed, Counts

-----------------------------------------------------------------------------
(* The runner and its agents *)

Ids == (Codes \cup {"MONITOR_UNAVAILABLE"}) \X Int
Agent == [ids : SUBSET Ids, at : Int, ended : Int, day : Int]

Tries(s, d) == Incidents!Get(s.attempts, d, 0)
Begun(ags, d) == {k \in DOMAIN ags : ags[k].day = d}
Saved(r, d) == r.phase = "SAVED" /\ r.day = d
Had(ags, id) == \E j \in DOMAIN ags : id \in ags[j].ids
\* An agent for id ended, and its pause is over at t.
Paused(ags, id, t) ==
  \E j \in DOMAIN ags : id \in ags[j].ids /\ ags[j].ended # -1 /\ ags[j].ended + Pause <= t

RunnerTyped(s, r, ags) ==
  /\ s = [attempts |-> s.attempts, handled |-> s.handled, retry |-> s.retry, down |-> s.down]
  /\ s.down \in Int
  /\ \A d \in Int : Tries(s, d) \in 0..MaxDaily
  /\ \A id \in DOMAIN s.retry : s.retry[id] \in Int
  /\ r = [phase |-> r.phase, ids |-> r.ids, day |-> r.day]
  /\ r.phase \in {"IDLE", "SAVED", "RUNNING"} /\ r.ids \in SUBSET Ids /\ r.day \in Int
  /\ ags \in Seq(Agent)

\* The attempts of a day are counted before they are made, ...
Counted(s, r, ags) ==
  \A d \in Int : IF Saved(r, d) THEN Cardinality(Begun(ags, d)) + 1 <= Tries(s, d)
                 ELSE Cardinality(Begun(ags, d)) <= Tries(s, d)
\* ... what they are made for is handled, ...
Handled(s, r, ags) ==
  /\ \A j \in DOMAIN ags : ags[j].ids \subseteq s.handled
  /\ r.phase # "IDLE" => r.ids \subseteq s.handled
\* ... and is only made again for what an agent that ended left to be tried again.
Repeated(s, r, ags, t) ==
  /\ \A id \in DOMAIN s.retry : Paused(ags, id, s.retry[id])
  /\ r.phase = "SAVED" => \A id \in r.ids : Had(ags, id) => Paused(ags, id, t)
  /\ r.phase = "RUNNING" => Len(ags) > 0 /\ ags[Len(ags)].ids = r.ids /\ ags[Len(ags)].ended = -1
  /\ \A k \in DOMAIN ags : \A id \in ags[k].ids :
       (\E j \in 1..(k - 1) : id \in ags[j].ids) =>
         \E j \in 1..(k - 1) : id \in ags[j].ids /\ ags[j].ended # -1 /\ ags[j].ended + Pause <= ags[k].at

RunnerOk(s, r, ags, t) ==
  RunnerTyped(s, r, ags) /\ Counted(s, r, ags) /\ Handled(s, r, ags) /\ Repeated(s, r, ags, t)
RunnerInv == time \in 0..MaxWatch /\ RunnerOk(runner, run, agents, time)

LEMMA PausedStays ==
  ASSUME NEW ags \in Seq(Agent), NEW id, NEW t \in Int, NEW u \in Int, t <= u, Paused(ags, id, t)
  PROVE  Paused(ags, id, u)
  <1>1. PICK j \in DOMAIN ags : id \in ags[j].ids /\ ags[j].ended # -1 /\ ags[j].ended + Pause <= t
    BY DEF Paused
  <1>2. ags[j] \in Agent OBVIOUS
  <1>3. ags[j].ended \in Int BY <1>2 DEF Agent
  <1>4. ags[j].ended + Pause <= u BY <1>1, <1>3, IncidentConstants
  <1> QED BY <1>1, <1>4 DEF Paused

LEMMA BegunIsFinite ==
  ASSUME NEW ags \in Seq(Agent), NEW d
  PROVE  IsFiniteSet(Begun(ags, d)) /\ Cardinality(Begun(ags, d)) \in Nat
  <1>1. IsFiniteSet(DOMAIN ags)
    <2>1. DOMAIN ags = 1..Len(ags) /\ Len(ags) \in Nat OBVIOUS
    <2> QED BY <2>1, FS_Interval
  <1>2. Begun(ags, d) \in SUBSET DOMAIN ags BY DEF Begun
  <1> QED BY <1>1, <1>2, FS_Subset, FS_CardinalityType

LEMMA RunnerStart ==
  ASSUME Incidents!Init
  PROVE  RunnerInv
  <1>1. /\ runner = [attempts |-> <<>>, handled |-> {}, retry |-> <<>>, down |-> -1]
        /\ run = [phase |-> "IDLE", ids |-> {}, day |-> -1] /\ agents = <<>> /\ time = 0
    BY DEF Incidents!Init, Incidents!NewState, Incidents!Idle, Incidents!Never
  <1>2. DOMAIN runner.retry = {} /\ DOMAIN runner.attempts = {} /\ DOMAIN agents = {}
        /\ runner.down = -1 /\ run.phase = "IDLE" /\ run.ids = {} /\ run.day = -1
        /\ agents \in Seq(Agent)
    BY <1>1
  <1>3. \A d \in Int : Tries(runner, d) = 0 BY <1>2 DEF Tries, Incidents!Get
  <1>4. runner = [attempts |-> runner.attempts, handled |-> runner.handled,
                  retry |-> runner.retry, down |-> runner.down]
        /\ run = [phase |-> run.phase, ids |-> run.ids, day |-> run.day]
    BY <1>1
  <1>5. RunnerTyped(runner, run, agents) BY <1>2, <1>3, <1>4, IncidentConstants DEF RunnerTyped
  <1>6. \A d \in Int : Begun(agents, d) = {} BY <1>2 DEF Begun
  <1>7. Counted(runner, run, agents)
    <2>1. \A d \in Int : ~Saved(run, d) BY <1>2 DEF Saved
    <2>2. Cardinality({}) = 0 BY FS_EmptySet
    <2> QED BY <1>3, <1>6, <2>1, <2>2 DEF Counted
  <1>8. Handled(runner, run, agents) BY <1>2 DEF Handled
  <1>9. Repeated(runner, run, agents, time) BY <1>2 DEF Repeated
  <1> QED BY <1>1, <1>5, <1>7, <1>8, <1>9, IncidentConstants DEF RunnerInv, RunnerOk

\* Time passes, and the runner may note since when the monitor is down.
LEMMA RunnerWaits ==
  ASSUME NEW s, NEW r, NEW ags, NEW t \in Int, NEW u \in Int, t <= u, RunnerOk(s, r, ags, t),
         NEW down \in Int, NEW w, w = s \/ w = [s EXCEPT !.down = down]
  PROVE  RunnerOk(w, r, ags, u)
  <1>1. /\ w.attempts = s.attempts /\ w.handled = s.handled /\ w.retry = s.retry /\ w.down \in Int
        /\ w = [attempts |-> w.attempts, handled |-> w.handled, retry |-> w.retry, down |-> w.down]
    BY DEF RunnerOk, RunnerTyped
  <1>2. \A d \in Int : Tries(w, d) = Tries(s, d) BY <1>1 DEF Tries
  <1>3. RunnerTyped(w, r, ags) BY <1>1, <1>2 DEF RunnerOk, RunnerTyped
  <1>4. Counted(w, r, ags) BY <1>2 DEF RunnerOk, Counted
  <1>5. Handled(w, r, ags) BY <1>1 DEF RunnerOk, Handled
  <1>6. ags \in Seq(Agent) BY <1>3 DEF RunnerTyped
  <1>7. \A id : Paused(ags, id, t) => Paused(ags, id, u) BY <1>6, PausedStays
  <1>8. Repeated(w, r, ags, u) BY <1>1, <1>7 DEF RunnerOk, Repeated
  <1> QED BY <1>3, <1>4, <1>5, <1>8 DEF RunnerOk

\* The runner is killed, which forgets the agent it was to start.
LEMMA RunnerForgets ==
  ASSUME NEW s, NEW r, NEW ags, NEW t \in Int, RunnerOk(s, r, ags, t)
  PROVE  RunnerOk(s, Incidents!Idle, ags, t)
  <1> DEFINE e == Incidents!Idle
  <1>1. /\ e = [phase |-> e.phase, ids |-> e.ids, day |-> e.day] /\ e.phase = "IDLE"
        /\ e.ids = {} /\ e.day = -1
    BY DEF Incidents!Idle, Incidents!Never
  <1> HIDE DEF e
  <1>2. RunnerTyped(s, e, ags) BY <1>1 DEF RunnerOk, RunnerTyped
  <1>3. Counted(s, e, ags)
    <2> SUFFICES ASSUME NEW d \in Int PROVE Cardinality(Begun(ags, d)) <= Tries(s, d)
      BY <1>1 DEF Counted, Saved
    <2>1. ags \in Seq(Agent) /\ Tries(s, d) \in Int
      BY IncidentConstants DEF RunnerOk, RunnerTyped
    <2>2. Cardinality(Begun(ags, d)) \in Nat BY <2>1, BegunIsFinite
    <2>3. Cardinality(Begun(ags, d)) + 1 <= Tries(s, d) \/ Cardinality(Begun(ags, d)) <= Tries(s, d)
      BY DEF RunnerOk, Counted
    <2> QED BY <2>1, <2>2, <2>3
  <1>4. Handled(s, e, ags) BY <1>1 DEF RunnerOk, Handled
  <1>5. Repeated(s, e, ags, t) BY <1>1 DEF RunnerOk, Repeated
  <1> QED BY <1>2, <1>3, <1>4, <1>5 DEF RunnerOk, e

\* The attempt is counted, and the incidents are handled, before the agent is started.
LEMMA RunnerConsumes ==
  ASSUME NEW s, NEW r, NEW ags, NEW t \in Int, RunnerOk(s, r, ags, t), r.phase = "IDLE",
         NEW ids \in SUBSET Ids, NEW d \in Int, Tries(s, d) < MaxDaily, NEW down \in Int,
         \A id \in ids : id \notin s.handled \/ (id \in DOMAIN s.retry /\ s.retry[id] <= t),
         NEW w, w = [s EXCEPT !.attempts = Incidents!Put(@, d, Tries(s, d) + 1),
                              !.handled = @ \cup ids, !.down = down],
         NEW x, x = [phase |-> "SAVED", ids |-> ids, day |-> d]
  PROVE  RunnerOk(w, x, ags, t)
  <1> USE DEF RunnerOk
  <1>1. /\ w.attempts = Incidents!Put(s.attempts, d, Tries(s, d) + 1)
        /\ w.handled = s.handled \cup ids /\ w.retry = s.retry /\ w.down = down
        /\ w = [attempts |-> w.attempts, handled |-> w.handled, retry |-> w.retry, down |-> w.down]
    BY DEF RunnerTyped
  <1>2. /\ x.phase = "SAVED" /\ x.ids = ids /\ x.day = d
        /\ x = [phase |-> x.phase, ids |-> x.ids, day |-> x.day]
    OBVIOUS
  <1>3. Tries(w, d) = Tries(s, d) + 1
    BY <1>1 DEF Tries, Incidents!Get, Incidents!Put
  <1>4. \A e : e # d => Tries(w, e) = Tries(s, e)
    BY <1>1 DEF Tries, Incidents!Get, Incidents!Put
  <1>5. \A e \in Int : Tries(s, e) \in 0..MaxDaily BY DEF RunnerTyped
  <1>6. ASSUME NEW e \in Int PROVE Tries(w, e) \in 0..MaxDaily
    <2>1. CASE e = d
      <3>1. Tries(s, d) + 1 \in 0..MaxDaily BY <1>5, IncidentConstants
      <3> QED BY <1>3, <2>1, <3>1
    <2>2. CASE e # d BY <1>4, <1>5, <2>2
    <2> QED BY <2>1, <2>2
  <1>7. RunnerTyped(w, x, ags) BY <1>1, <1>2, <1>6 DEF RunnerTyped
  <1>8. ags \in Seq(Agent) BY DEF RunnerTyped
  <1>9. Counted(w, x, ags)
    <2> SUFFICES ASSUME NEW e \in Int
                 PROVE  IF Saved(x, e) THEN Cardinality(Begun(ags, e)) + 1 <= Tries(w, e)
                        ELSE Cardinality(Begun(ags, e)) <= Tries(w, e)
      BY DEF Counted
    <2>1. Cardinality(Begun(ags, e)) <= Tries(s, e) BY DEF Counted, Saved
    <2>2. CASE e = d
      <3>1. Saved(x, e) BY <1>2, <2>2 DEF Saved
      <3>2. Cardinality(Begun(ags, e)) \in Nat /\ Tries(s, e) \in Int
        BY <1>5, <1>8, BegunIsFinite, IncidentConstants
      <3>3. Cardinality(Begun(ags, e)) + 1 <= Tries(s, e) + 1 BY <2>1, <3>2
      <3> QED BY <1>3, <2>2, <3>1, <3>3
    <2>3. CASE e # d
      <3>1. ~Saved(x, e) BY <1>2, <2>3 DEF Saved
      <3> QED BY <1>4, <2>1, <2>3, <3>1
    <2> QED BY <2>2, <2>3
  <1>10. Handled(w, x, ags) BY <1>1, <1>2 DEF Handled
  <1>11. Repeated(w, x, ags, t)
    <2>1. ASSUME NEW id \in ids, Had(ags, id) PROVE Paused(ags, id, t)
      <3>1. id \in s.handled BY <2>1 DEF Had, Handled
      <3>2. id \in DOMAIN s.retry /\ s.retry[id] <= t BY <3>1
      <3>3. Paused(ags, id, s.retry[id]) /\ s.retry[id] \in Int BY <3>2 DEF Repeated, RunnerTyped
      <3> QED BY <1>8, <3>2, <3>3, PausedStays
    <2> QED BY <1>1, <1>2, <2>1 DEF Repeated
  <1> QED BY <1>7, <1>9, <1>10, <1>11

LEMMA Appended ==
  ASSUME NEW S, NEW q \in Seq(S), NEW x \in S
  PROVE  /\ Append(q, x) \in Seq(S) /\ Len(Append(q, x)) = Len(q) + 1 /\ Len(q) \in Nat
         /\ DOMAIN q = 1..Len(q) /\ DOMAIN Append(q, x) = 1..(Len(q) + 1)
         /\ DOMAIN Append(q, x) = DOMAIN q \cup {Len(q) + 1} /\ Len(q) + 1 \notin DOMAIN q
         /\ \A k \in DOMAIN q : Append(q, x)[k] = q[k]
         /\ Append(q, x)[Len(q) + 1] = x
  OBVIOUS

LEMMA RunnerStarts ==
  ASSUME NEW s, NEW r, NEW ags, NEW t \in Int, RunnerOk(s, r, ags, t), r.phase = "SAVED",
         NEW a, a = [ids |-> r.ids, at |-> t, ended |-> -1, day |-> r.day],
         NEW x, x = [r EXCEPT !.phase = "RUNNING"]
  PROVE  RunnerOk(s, x, Append(ags, a), t)
  <1> USE DEF RunnerOk
  <1> DEFINE b == Append(ags, a)
             n == Len(ags) + 1
  <1>1. /\ x.phase = "RUNNING" /\ x.ids = r.ids /\ x.day = r.day
        /\ x = [phase |-> x.phase, ids |-> x.ids, day |-> x.day]
    BY DEF RunnerTyped
  <1>2. a \in Agent /\ a.ids = r.ids /\ a.at = t /\ a.ended = -1 /\ a.day = r.day
    BY DEF RunnerTyped, Agent
  <1>3. ags \in Seq(Agent) BY DEF RunnerTyped
  <1>4. /\ b \in Seq(Agent) /\ Len(b) = n /\ Len(ags) \in Nat /\ DOMAIN ags = 1..Len(ags)
        /\ DOMAIN b = 1..n /\ DOMAIN b = DOMAIN ags \cup {n} /\ n \notin DOMAIN ags
        /\ \A k \in DOMAIN ags : b[k] = ags[k]
        /\ b[n] = a
    BY <1>2, <1>3, Appended
  <1>n. n \in Nat /\ n > 0 BY <1>4
  <1> HIDE DEF b, n
  <1>5. RunnerTyped(s, x, b) BY <1>1, <1>4 DEF RunnerTyped
  <1>6. Counted(s, x, b)
    <2> SUFFICES ASSUME NEW e \in Int PROVE Cardinality(Begun(b, e)) <= Tries(s, e)
      BY <1>1 DEF Counted, Saved
    <2>1. IsFiniteSet(Begun(ags, e)) /\ Cardinality(Begun(ags, e)) \in Nat BY <1>3, BegunIsFinite
    <2>2. CASE e = r.day
      <3>1. Begun(b, e) = Begun(ags, e) \cup {n} BY <1>2, <1>4, <2>2 DEF Begun
      <3>2. n \notin Begun(ags, e) BY <1>4 DEF Begun
      <3>3. Cardinality(Begun(b, e)) = Cardinality(Begun(ags, e)) + 1
        BY <2>1, <3>1, <3>2, FS_AddElement
      <3>4. Saved(r, e) BY <2>2 DEF Saved
      <3> QED BY <3>3, <3>4 DEF Counted
    <2>3. CASE e # r.day
      <3>1. Begun(b, e) = Begun(ags, e) BY <1>2, <1>4, <2>3 DEF Begun
      <3>2. ~Saved(r, e) BY <2>3 DEF Saved
      <3> QED BY <3>1, <3>2 DEF Counted
    <2> QED BY <2>2, <2>3
  <1>7. Handled(s, x, b)
    <2>1. r.ids \subseteq s.handled BY DEF Handled
    <2>2. \A j \in DOMAIN ags : ags[j].ids \subseteq s.handled BY DEF Handled
    <2>3. \A j \in DOMAIN b : b[j].ids \subseteq s.handled BY <1>2, <1>4, <2>1, <2>2, Zenon
    <2>4. x.ids \subseteq s.handled BY <1>1, <2>1
    <2> QED BY <2>3, <2>4 DEF Handled
  <1>8. \A id, u : Paused(ags, id, u) => Paused(b, id, u) BY <1>4 DEF Paused
  <1>9. ASSUME NEW k \in DOMAIN b, NEW id \in b[k].ids, NEW i \in 1..(k - 1), id \in b[i].ids
        PROVE  \E j \in 1..(k - 1) : id \in b[j].ids /\ b[j].ended # -1 /\ b[j].ended + Pause <= b[k].at
    <2>0. k \in Int /\ k <= n /\ i \in DOMAIN ags /\ b[i] = ags[i]
      <3>1. k \in Nat /\ k <= n BY <1>4, <1>n
      <3>2. i \in 1..Len(ags) BY <1>4, <3>1 DEF n
      <3> QED BY <1>4, <3>1, <3>2
    <2>1. CASE k = n
      <3>1. id \in r.ids /\ b[k].at = t BY <1>2, <1>4, <1>9, <2>1
      <3>2. Had(ags, id) BY <1>9, <2>0 DEF Had
      <3>3. Paused(ags, id, t) BY <3>1, <3>2 DEF Repeated
      <3>4. PICK j \in DOMAIN ags : id \in ags[j].ids /\ ags[j].ended # -1 /\ ags[j].ended + Pause <= t
        BY <3>3 DEF Paused
      <3>5. j \in 1..(k - 1) BY <1>4, <2>1, <3>4 DEF n
      <3> QED BY <1>4, <3>1, <3>4, <3>5
    <2>2. CASE k # n
      <3>1. k \in DOMAIN ags /\ b[k] = ags[k] BY <1>4, <2>2
      <3>2. PICK j \in 1..(k - 1) : id \in ags[j].ids /\ ags[j].ended # -1 /\ ags[j].ended + Pause <= ags[k].at
        BY <1>9, <2>0, <3>1 DEF Repeated
      <3>3. j \in DOMAIN ags
        <4>1. k \in 1..Len(ags) BY <1>4, <3>1
        <4> QED BY <1>4, <3>2, <4>1
      <3> QED BY <1>4, <3>1, <3>2, <3>3
    <2> QED BY <2>1, <2>2
  <1>10. Repeated(s, x, b, t)
    <2>1. \A id \in DOMAIN s.retry : Paused(b, id, s.retry[id]) BY <1>8 DEF Repeated
    <2>2. Len(b) > 0 /\ b[Len(b)].ids = x.ids /\ b[Len(b)].ended = -1
      BY <1>1, <1>2, <1>4, <1>n
    <2> QED BY <1>1, <1>9, <2>1, <2>2 DEF Repeated
  <1> QED BY <1>5, <1>6, <1>7, <1>10 DEF b

LEMMA LastReplaced ==
  ASSUME NEW S, NEW q \in Seq(S), Len(q) > 0, NEW y \in S, NEW p, p = [q EXCEPT ![Len(q)] = y]
  PROVE  /\ p \in Seq(S) /\ Len(p) = Len(q) /\ DOMAIN p = DOMAIN q /\ Len(q) \in DOMAIN q
         /\ p[Len(q)] = y /\ \A k \in DOMAIN q : k # Len(q) => p[k] = q[k]
  OBVIOUS

Later(s, r, t) ==
  [id \in DOMAIN s.retry \cup r.ids |-> IF id \in r.ids THEN t + Pause ELSE s.retry[id]]

\* What the agent left open is tried again after the pause, counted from its end.
LEMMA RunnerReturns ==
  ASSUME NEW s, NEW r, NEW ags, NEW t \in Nat, RunnerOk(s, r, ags, t), r.phase = "RUNNING",
         NEW b, b = [ags EXCEPT ![Len(ags)].ended = t],
         NEW w, w = s \/ w = [s EXCEPT !.retry = Later(s, r, t)]
  PROVE  RunnerOk(w, Incidents!Idle, b, t)
  <1> USE DEF RunnerOk
  <1> DEFINE n == Len(ags)
             x == Incidents!Idle
  <1>0. /\ x = [phase |-> x.phase, ids |-> x.ids, day |-> x.day] /\ x.phase = "IDLE"
        /\ x.ids = {} /\ x.day = -1
    BY DEF Incidents!Idle, Incidents!Never
  <1> HIDE DEF x
  <1>1. ags \in Seq(Agent) /\ n > 0 /\ ags[n].ids = r.ids /\ ags[n].ended = -1
    BY DEF RunnerTyped, Repeated
  <1>2. n \in DOMAIN ags /\ ags[n] \in Agent BY <1>1
  <1> DEFINE y == [ids |-> ags[n].ids, at |-> ags[n].at, ended |-> t, day |-> ags[n].day]
  <1>3. y \in Agent /\ y.ids = ags[n].ids /\ y.at = ags[n].at /\ y.ended = t /\ y.day = ags[n].day
    BY <1>2 DEF Agent
  <1>4. b = [ags EXCEPT ![n] = y]
    <2>1. [ags[n] EXCEPT !.ended = t] = y BY <1>2 DEF Agent
    <2>2. b = [ags EXCEPT ![n] = [ags[n] EXCEPT !.ended = t]] BY <1>2
    <2> QED BY <2>1, <2>2, Zenon
  <1> HIDE DEF y
  <1>5. /\ b \in Seq(Agent) /\ Len(b) = n /\ DOMAIN b = DOMAIN ags /\ b[n] = y
        /\ \A k \in DOMAIN ags : k # n => b[k] = ags[k]
    BY <1>1, <1>3, <1>4, LastReplaced
  <1> HIDE DEF n
  <1>6. \A k \in DOMAIN ags : b[k].ids = ags[k].ids /\ b[k].at = ags[k].at /\ b[k].day = ags[k].day
    BY <1>3, <1>5
  <1>7. \A k \in DOMAIN ags : ags[k].ended # -1 => b[k] = ags[k] BY <1>1, <1>5
  <1>8. \A id, u : Paused(ags, id, u) => Paused(b, id, u) BY <1>5, <1>7, Zenon DEF Paused
  <1>9. \A id \in r.ids : Paused(b, id, t + Pause)
    <2>1. t # -1 /\ t + Pause <= t + Pause BY IncidentConstants
    <2>2. n \in DOMAIN b /\ b[n].ids = r.ids /\ b[n].ended = t BY <1>1, <1>2, <1>3, <1>5
    <2> QED BY <2>1, <2>2 DEF Paused
  <1>10. /\ w.attempts = s.attempts /\ w.handled = s.handled /\ w.down = s.down
         /\ w = [attempts |-> w.attempts, handled |-> w.handled, retry |-> w.retry, down |-> w.down]
    BY DEF RunnerTyped
  <1>11. ASSUME NEW id \in DOMAIN w.retry
         PROVE  w.retry[id] \in Int /\ Paused(b, id, w.retry[id])
    <2>1. CASE w = s BY <1>8, <2>1 DEF RunnerTyped, Repeated
    <2>2. CASE w = [s EXCEPT !.retry = Later(s, r, t)]
      <3>1. w.retry = [i \in DOMAIN s.retry \cup r.ids |->
                         IF i \in r.ids THEN t + Pause ELSE s.retry[i]]
        BY <2>2 DEF RunnerTyped, Later
      <3>2. CASE id \in r.ids
        <4>1. w.retry[id] = t + Pause BY <3>1, <3>2
        <4>2. t + Pause \in Int BY IncidentConstants
        <4>3. Paused(b, id, t + Pause) BY <1>9, <3>2
        <4> QED BY <4>1, <4>2, <4>3, Zenon
      <3>3. CASE id \notin r.ids
        <4>1. id \in DOMAIN s.retry /\ w.retry[id] = s.retry[id] BY <3>1, <3>3
        <4> QED BY <1>8, <4>1 DEF RunnerTyped, Repeated
      <3> QED BY <3>2, <3>3
    <2> QED BY <2>1, <2>2
  <1>12. \A d : Tries(w, d) = Tries(s, d) BY <1>10 DEF Tries
  <1>13. RunnerTyped(w, x, b)
    <2>1. -1 \in Int /\ {} \in SUBSET Ids OBVIOUS
    <2>2. \A id \in DOMAIN w.retry : w.retry[id] \in Int BY <1>11
    <2> QED BY <1>0, <1>5, <1>10, <1>12, <2>1, <2>2 DEF RunnerTyped
  <1>14. Counted(w, x, b)
    <2> SUFFICES ASSUME NEW e \in Int PROVE Cardinality(Begun(b, e)) <= Tries(w, e)
      BY <1>0 DEF Counted, Saved
    <2>1. Begun(b, e) = Begun(ags, e) BY <1>5, <1>6 DEF Begun
    <2>2. ~Saved(r, e) BY DEF Saved
    <2>3. Cardinality(Begun(ags, e)) <= Tries(s, e) BY <2>2 DEF Counted
    <2> QED BY <1>12, <2>1, <2>3
  <1>15. Handled(w, x, b)
    <2>1. \A j \in DOMAIN b : b[j].ids \subseteq w.handled BY <1>5, <1>6, <1>10 DEF Handled
    <2> QED BY <1>0, <2>1 DEF Handled
  <1>16. ASSUME NEW k \in DOMAIN b, NEW id \in b[k].ids, NEW i \in 1..(k - 1), id \in b[i].ids
         PROVE  \E j \in 1..(k - 1) : id \in b[j].ids /\ b[j].ended # -1 /\ b[j].ended + Pause <= b[k].at
    <2>0. DOMAIN ags = 1..Len(ags) /\ Len(ags) \in Nat BY <1>1
    <2>1. k \in DOMAIN ags /\ id \in ags[k].ids BY <1>5, <1>6, <1>16
    <2>2. \A j \in 1..(k - 1) : j \in DOMAIN ags BY <2>0, <2>1
    <2>3. id \in ags[i].ids BY <1>6, <1>16, <2>2
    <2>4. PICK j \in 1..(k - 1) : id \in ags[j].ids /\ ags[j].ended # -1 /\ ags[j].ended + Pause <= ags[k].at
      BY <1>16, <2>1, <2>3 DEF Repeated
    <2>5. b[j] = ags[j] /\ b[k].at = ags[k].at BY <1>6, <1>7, <2>1, <2>2, <2>4
    <2> QED BY <2>4, <2>5
  <1>17. Repeated(w, x, b, t)
    <2>1. \A id \in DOMAIN w.retry : Paused(b, id, w.retry[id]) BY <1>11
    <2> QED BY <1>0, <1>16, <2>1 DEF Repeated
  <1> QED BY <1>13, <1>14, <1>15, <1>17 DEF x

LEMMA ChosenAreDue ==
  ASSUME NEW ids, Incidents!Choose(ids) # {}, time \in 0..MaxWatch
  PROVE  /\ Incidents!Choose(ids) \subseteq ids
         /\ Tries(runner, Incidents!Day(time)) < MaxDaily \/ Tries(runner, Incidents!Day(time)) \notin Int
         /\ \A id \in Incidents!Choose(ids) :
              id \notin runner.handled \/ (id \in DOMAIN runner.retry /\ runner.retry[id] <= time)
  <1>1. /\ ~(Tries(runner, Incidents!Day(time)) >= MaxDaily)
        /\ Incidents!Choose(ids) = {id \in ids : Incidents!Due(id)}
    BY DEF Incidents!Choose, Incidents!Attempts, Tries
  <1>2. ASSUME NEW id, Incidents!Due(id)
        PROVE  id \notin runner.handled \/ (id \in DOMAIN runner.retry /\ runner.retry[id] <= time)
    <2>1. ~(MaxWatch + 1 <= time) BY IncidentConstants
    <2> QED BY <1>2, <2>1 DEF Incidents!Due, Incidents!Get
  <1>3. Tries(runner, Incidents!Day(time)) < MaxDaily \/ Tries(runner, Incidents!Day(time)) \notin Int
    BY <1>1, IncidentConstants
  <1> QED BY <1>1, <1>2, <1>3

LEMMA OpenOnes == FileInv => Incidents!OpenIds \subseteq Ids
  <1> SUFFICES ASSUME FileInv PROVE Incidents!OpenIds \subseteq Ids OBVIOUS
  <1>1. file.incidents \in Seq(Incident) BY DEF FileInv
  <1>2. \A i \in Incidents!ToSet(file.incidents) : i \in Incident BY <1>1 DEF Incidents!ToSet
  <1>3. \A i \in Incident : Incidents!Id(i) \in Ids BY DEF Incident, Ids, Incidents!Id
  <1> QED BY <1>2, <1>3 DEF Incidents!OpenIds

LEMMA RunnerNext ==
  ASSUME RunnerInv, FileInv, Incidents!Next \/ UNCHANGED watch
  PROVE  RunnerInv'
  <1>0. /\ RunnerOk(runner, run, agents, time) /\ time \in 0..MaxWatch /\ time \in Nat
        /\ MaxWatch \in Nat
    BY IncidentConstants DEF RunnerInv
  <1>d. runner.down \in Int /\ \A d \in Int : Tries(runner, d) \in Int
    BY <1>0, IncidentConstants DEF RunnerOk, RunnerTyped
  <1>1. ASSUME RunnerOk(runner', run', agents', time'), time' \in 0..MaxWatch PROVE RunnerInv'
    BY <1>1 DEF RunnerInv, RunnerOk, RunnerTyped, Counted, Handled, Repeated, Paused, Had, Saved,
                Begun, Tries, Cardinality, Incidents!Get
  <1>2. ASSUME UNCHANGED <<runner, run, agents>>, time' \in 0..MaxWatch, time <= time'
        PROVE  RunnerInv'
    <2>1. RunnerOk(runner, run, agents, time') BY <1>0, <1>2, <1>d, RunnerWaits
    <2> QED BY <1>1, <1>2, <2>1
  <1>3. ASSUME NEW ids \in SUBSET Ids, NEW down \in Int, UNCHANGED <<time, agents>>,
               run = Incidents!Idle,
               \/ Incidents!Choose(ids) # {} /\ Incidents!Consume(Incidents!Choose(ids), down)
               \/ runner' = [runner EXCEPT !.down = down] /\ run' = run
        PROVE  RunnerInv'
    <2>1. CASE Incidents!Choose(ids) # {} /\ Incidents!Consume(Incidents!Choose(ids), down)
      <3> DEFINE d == Incidents!Day(time)
      <3>1. d \in Int BY <1>0, IncidentConstants DEF Incidents!Day
      <3>2. /\ runner' = [runner EXCEPT !.attempts = Incidents!Put(@, d, Tries(runner, d) + 1),
                            !.handled = @ \cup Incidents!Choose(ids), !.down = down]
            /\ run' = [phase |-> "SAVED", ids |-> Incidents!Choose(ids), day |-> d]
        BY <2>1 DEF Incidents!Consume, Incidents!Attempts, Tries
      <3> HIDE DEF d
      <3>3. /\ Incidents!Choose(ids) \in SUBSET Ids
            /\ \A id \in Incidents!Choose(ids) :
                 id \notin runner.handled \/ (id \in DOMAIN runner.retry /\ runner.retry[id] <= time)
            /\ Tries(runner, d) < MaxDaily
        BY <1>0, <1>d, <2>1, <3>1, ChosenAreDue DEF d
      <3>4. run.phase = "IDLE" BY <1>3 DEF Incidents!Idle
      <3>6. time \in Int BY <1>0
      <3>5. RunnerOk(runner', run', agents, time)
        BY <1>0, <3>1, <3>2, <3>3, <3>4, <3>6, RunnerConsumes, Zenon
      <3> QED BY <1>0, <1>1, <1>3, <3>5
    <2>2. CASE runner' = [runner EXCEPT !.down = down] /\ run' = run
      <3>1. RunnerOk(runner', run, agents, time) BY <1>0, <2>2, RunnerWaits
      <3> QED BY <1>0, <1>1, <1>3, <2>2, <3>1
    <2> QED BY <1>3, <2>1, <2>2
  <1>4. CASE Incidents!RunnerCheck
    <2>1. Incidents!OpenIds \in SUBSET Ids BY OpenOnes
    <2>2. -1 \in Int /\ Incidents!Never = -1 BY DEF Incidents!Never
    <2>3. /\ UNCHANGED <<time, agents>> /\ run = Incidents!Idle
          /\ \/ Incidents!Choose(Incidents!OpenIds) # {}
                /\ Incidents!Consume(Incidents!Choose(Incidents!OpenIds), -1)
             \/ runner' = [runner EXCEPT !.down = -1] /\ run' = run
      BY <1>4, <2>2 DEF Incidents!RunnerCheck
    <2> QED BY <1>3, <2>1, <2>2, <2>3
  <1>5. CASE Incidents!MonitorDown
    <2> DEFINE down == IF runner.down = Incidents!Never THEN time ELSE runner.down
               ids == {<<"MONITOR_UNAVAILABLE", down>>}
    <2>1. down \in Int BY <1>0, <1>d
    <2>2. /\ UNCHANGED <<time, agents>> /\ run = Incidents!Idle
          /\ \/ Incidents!Choose(ids) # {} /\ Incidents!Consume(Incidents!Choose(ids), down)
             \/ runner' = [runner EXCEPT !.down = down] /\ run' = run
      BY <1>5 DEF Incidents!MonitorDown
    <2> HIDE DEF down
    <2>3. ids \in SUBSET Ids BY <2>1 DEF Ids
    <2> QED BY <1>3, <2>1, <2>2, <2>3
  <1>6. CASE Incidents!StartAgent
    <2>1. /\ run.phase = "SAVED" /\ run' = [run EXCEPT !.phase = "RUNNING"]
          /\ agents' = Append(agents, [ids |-> run.ids, at |-> time, ended |-> -1, day |-> run.day])
          /\ UNCHANGED <<time, runner>>
      BY <1>6 DEF Incidents!StartAgent, Incidents!Never
    <2>2. RunnerOk(runner, run', agents', time) BY <1>0, <2>1, RunnerStarts
    <2> QED BY <1>0, <1>1, <2>1, <2>2
  <1>7. CASE Incidents!AgentEnds
    <2>1. /\ run.phase = "RUNNING" /\ run' = Incidents!Idle /\ time' = time
          /\ agents' = [agents EXCEPT ![Len(agents)].ended = time]
          /\ runner' = runner \/ runner' = [runner EXCEPT !.retry = Later(runner, run, time)]
      BY <1>7 DEF Incidents!AgentEnds, Later
    <2>2. RunnerOk(runner', Incidents!Idle, agents', time) BY <1>0, <2>1, RunnerReturns, Zenon
    <2> QED BY <1>0, <1>1, <2>1, <2>2
  <1>8. CASE Incidents!KillRunner
    <2>1. run' = Incidents!Idle /\ UNCHANGED <<time, runner, agents>>
      BY <1>8 DEF Incidents!KillRunner
    <2>2. RunnerOk(runner, Incidents!Idle, agents, time) BY <1>0, RunnerForgets
    <2> QED BY <1>0, <1>1, <2>1, <2>2
  <1>9. CASE Incidents!Tick \/ Incidents!Check \/ Incidents!CheckFails \/ UNCHANGED watch
    <2>1. UNCHANGED <<runner, run, agents>> /\ (time' = time \/ (time < MaxWatch /\ time' = time + 1))
      BY <1>9 DEF Incidents!Tick, Incidents!Check, Incidents!CheckFails, watch
    <2>2. time' \in 0..MaxWatch /\ time <= time' BY <1>0, <2>1
    <2>3. UNCHANGED <<runner, run, agents>> BY <2>1, Zenon
    <2> QED BY <1>2, <2>2, <2>3, Zenon
  <1> QED BY <1>4, <1>5, <1>6, <1>7, <1>8, <1>9 DEF Incidents!Next

LEMMA RunnerIsWithinBudget ==
  RunnerInv => Incidents!AgentsWithinBudget /\ Incidents!RepeatsAreDue
  <1> SUFFICES ASSUME RunnerInv PROVE Incidents!AgentsWithinBudget /\ Incidents!RepeatsAreDue
    OBVIOUS
  <1> USE DEF RunnerInv, RunnerOk
  <1>1. ASSUME NEW d \in 0..Incidents!Day(MaxWatch)
        PROVE  Incidents!Cardinality(Incidents!Started(d)) <= MaxDaily
    <2>1. d \in Int /\ agents \in Seq(Agent) BY DEF RunnerTyped
    <2>2. Cardinality(Begun(agents, d)) \in Nat BY <2>1, BegunIsFinite
    <2>3. Tries(runner, d) \in 0..MaxDaily BY <2>1 DEF RunnerTyped
    <2>4. Cardinality(Begun(agents, d)) + 1 <= Tries(runner, d) \/ Cardinality(Begun(agents, d)) <= Tries(runner, d)
      BY <2>1 DEF Counted
    <2>5. Cardinality(Begun(agents, d)) <= MaxDaily BY <2>2, <2>3, <2>4, IncidentConstants
    <2> QED BY <2>5 DEF Begun, Incidents!Started, Incidents!Cardinality, Cardinality
  <1>2. Incidents!AgentsWithinBudget BY <1>1 DEF Incidents!AgentsWithinBudget
  <1>3. Incidents!RepeatsAreDue BY DEF Repeated, Incidents!RepeatsAreDue, Incidents!Never
  <1> QED BY <1>2, <1>3

LEMMA WatchStep == [Step]_everything => Incidents!Next \/ UNCHANGED watch
  BY DEF Step, everything

\* Of what is not over, the file says what every check since found, and that it is open as
\* soon as it lasted (operations.py 136-158); a day starts no more agents than it may,
\* whatever is killed, and none again for an incident before the pause of an earlier one is
\* over (incident-repair.py 15-25, 77-116).
THEOREM IncidentsAreHandledHolds == Operations => []IncidentsAreHandled
  <1>1. Start => FileInv /\ RunnerInv BY FileStart, RunnerStart DEF Start
  <1>2. FileInv /\ RunnerInv /\ [Step]_everything => FileInv' /\ RunnerInv'
    BY WatchStep, FileNext, RunnerNext
  <1>3. FileInv /\ RunnerInv => IncidentsAreHandled
    BY FileIsTrue, RunnerIsWithinBudget DEF IncidentsAreHandled, Incidents!IncidentsAreHandled
  <1> QED BY <1>1, <1>2, <1>3, PTL DEF Operations

-----------------------------------------------------------------------------
(* Division, rounding up, and bisection *)

LEMMA Quotient ==
  ASSUME NEW a \in Int, NEW c \in Nat \ {0}
  PROVE  /\ a \div c \in Int /\ c * (a \div c) <= a /\ a < c * (a \div c) + c
         /\ a \in Nat => a \div c \in Nat
  OBVIOUS

\* What is below a multiple has a quotient below it.
LEMMA QuotientBelow ==
  ASSUME NEW a \in Int, NEW c \in Nat \ {0}, NEW n \in Int
  PROVE  /\ c * n <= a <=> n <= a \div c
         /\ a < c * n <=> a \div c < n
  <1> DEFINE q == a \div c
  <1>1. q \in Int /\ c * q <= a /\ a < c * q + c BY Quotient
  <1> HIDE DEF q
  <1>2. ASSUME n <= q PROVE c * n <= c * q
    <2>1. q - n \in Nat BY <1>1, <1>2
    <2>2. c * (q - n) \in Nat BY <2>1
    <2>3. c * (q - n) = c * q - c * n BY <1>1
    <2> QED BY <1>1, <2>2, <2>3
  <1>3. ASSUME q < n PROVE c * q + c <= c * n
    <2>1. n - q - 1 \in Nat BY <1>1, <1>3
    <2>2. c * (n - q - 1) \in Nat BY <2>1
    <2>3. c * (n - q - 1) = c * n - c * q - c BY <1>1
    <2> QED BY <1>1, <2>2, <2>3
  <1>4. c * n \in Int /\ c * q \in Int BY <1>1
  <1>5. c * n <= a <=> n <= q BY <1>1, <1>2, <1>3, <1>4
  <1>6. a < c * n <=> q < n BY <1>1, <1>2, <1>3, <1>4
  <1> QED BY <1>5, <1>6 DEF q

LEMMA QuotientMonotonic ==
  ASSUME NEW a \in Int, NEW b \in Int, a <= b, NEW c \in Nat \ {0}
  PROVE  a \div c <= b \div c
  <1> DEFINE x == a \div c
             y == b \div c
  <1>1. x \in Int /\ y \in Int /\ c * x <= a BY Quotient
  <1> HIDE DEF x
  <1>2. c * x \in Int BY <1>1
  <1>3. c * x <= b BY <1>1, <1>2
  <1>4. x <= y BY <1>1, <1>3, QuotientBelow
  <1> QED BY <1>4 DEF x

LEMMA ProductMonotonic ==
  ASSUME NEW a \in Nat, NEW b \in Nat, NEW x \in Nat, NEW y \in Nat, a <= b, x <= y
  PROVE  a * x \in Nat /\ b * y \in Nat /\ a * x <= b * y
  <1>1. (b - a) * y \in Nat /\ a * (y - x) \in Nat BY SMT
  <1>2. (b - a) * y = b * y - a * y /\ a * (y - x) = a * y - a * x BY SMT
  <1>3. a * x \in Nat /\ b * y \in Nat /\ a * y \in Nat BY SMT
  <1> QED BY <1>1, <1>2, <1>3

\* A multiple leaves nothing, and what leaves nothing is one.
LEMMA Multiple ==
  ASSUME NEW n \in Nat, NEW c \in Nat \ {0}
  PROVE  (n * c) % c = 0 /\ (n * c) \div c = n /\ (c * n) % c = 0
  <1>1. c * n \in Nat /\ n * c = c * n BY SMT
  <1>2. c * n < c * (n + 1)
    <2>1. c * (n + 1) = c * n + c BY SMT
    <2> QED BY <1>1, <2>1
  <1>3. n <= (c * n) \div c /\ (c * n) \div c < n + 1 BY <1>1, <1>2, QuotientBelow
  <1>4. (c * n) \div c \in Int BY <1>1, Quotient
  <1>5. (c * n) \div c = n BY <1>3, <1>4
  <1>6. (c * n) % c = (c * n) - c * ((c * n) \div c) BY <1>1
  <1> QED BY <1>1, <1>5, <1>6

LEMMA WholeMultiple ==
  ASSUME NEW n \in Nat, NEW c \in Nat \ {0}, n % c = 0
  PROVE  n \div c \in Nat /\ n = c * (n \div c)
  <1>1. n % c = n - c * (n \div c) BY SMT
  <1>2. n \div c \in Nat BY Quotient
  <1>3. c * (n \div c) \in Nat BY <1>2
  <1> QED BY <1>1, <1>2, <1>3

LEMMA RoundedUp ==
  ASSUME NEW a \in Nat, NEW c \in Nat \ {0}
  PROVE  /\ (a + c - 1) \div c \in Nat
         /\ a <= c * ((a + c - 1) \div c) /\ c * ((a + c - 1) \div c) < a + c
         /\ a > 0 => (a + c - 1) \div c > 0
         /\ \A b \in Nat : a <= b => (a + c - 1) \div c <= (b + c - 1) \div c
  <1>1. a + c - 1 \in Nat BY SMT
  <1> DEFINE q == (a + c - 1) \div c
  <1>2. q \in Nat /\ c * q <= a + c - 1 /\ a + c - 1 < c * q + c BY <1>1, Quotient
  <1>3. ASSUME NEW b \in Nat, a <= b PROVE q <= (b + c - 1) \div c
    <2>1. b + c - 1 \in Int /\ a + c - 1 <= b + c - 1 BY <1>3
    <2> QED BY <1>1, <2>1, QuotientMonotonic
  <1> HIDE DEF q
  <1>4. c * q \in Nat BY <1>2
  <1>5. a <= c * q /\ c * q < a + c BY <1>2, <1>4
  <1>6. a > 0 => q > 0
    <2>1. q = 0 => c * q = 0 OBVIOUS
    <2> QED BY <1>2, <1>4, <1>5, <2>1
  <1> QED BY <1>2, <1>3, <1>5, <1>6 DEF q

\* The loop of a bisection: that it can be unrolled, and what it ends with.
Unrolls(g, ok, most) ==
  g = [n \in 0..most |->
         IF n = 0 THEN [low |-> 0, high |-> most] ELSE Sizing!Halve(ok, g[n - 1])]

LEMMA LoopUnrolls ==
  ASSUME NEW most \in Nat, NEW ok
  PROVE  \E g : Unrolls(g, ok, most)
  <1> DEFINE Upto(k, g) ==
               \A n \in 0..k :
                 g[n] = IF n = 0 THEN [low |-> 0, high |-> most] ELSE Sizing!Halve(ok, g[n - 1])
             Bad == {k \in Nat : ~ \E g : Upto(k, g)}
  <1>1. Bad = {}
    <2>1. SUFFICES ASSUME Bad # {} PROVE FALSE OBVIOUS
    <2>2. PICK k \in Bad : \A m \in Bad : k <= m
      <3>1. Bad \in SUBSET Nat OBVIOUS
      <3> HIDE DEF Bad
      <3> QED BY <2>1, <3>1, LeastNatural
    <2>3. CASE k = 0
      <3>1. Upto(0, [n \in {0} |-> [low |-> 0, high |-> most]]) OBVIOUS
      <3> QED BY <2>2, <2>3, <3>1
    <2>4. CASE k # 0
      <3>1. k \in Nat BY <2>2
      <3>2. k - 1 \in Nat /\ k - 1 \notin Bad
        <4> HIDE DEF Bad
        <4> QED BY <2>2, <2>4, <3>1
      <3>3. PICK g : Upto(k - 1, g) BY <3>2
      <3> DEFINE last == Sizing!Halve(ok, g[k - 1])
                 h == [n \in 0..k |-> IF n = k THEN last ELSE g[n]]
      <3>4. \A n \in 0..(k - 1) : h[n] = g[n] BY <3>1
      <3>5. h[k] = last /\ h[k - 1] = g[k - 1] BY <2>4, <3>1
      <3> HIDE DEF h, last
      <3>6. ASSUME NEW n \in 0..k
            PROVE  h[n] = IF n = 0 THEN [low |-> 0, high |-> most] ELSE Sizing!Halve(ok, h[n - 1])
        <4>1. CASE n = k
          <5>1. h[k] = Sizing!Halve(ok, h[k - 1]) BY <3>5 DEF last
          <5> QED BY <2>4, <4>1, <5>1
        <4>2. CASE n # k /\ n = 0
          <5>1. n \in 0..(k - 1) BY <2>4, <3>1, <4>2
          <5> QED BY <3>3, <3>4, <4>2, <5>1
        <4>3. CASE n # k /\ n # 0
          <5>1. n \in 0..(k - 1) /\ n - 1 \in 0..(k - 1) BY <3>1, <4>3
          <5>2. h[n] = g[n] /\ h[n - 1] = g[n - 1] BY <3>4, <5>1
          <5>3. g[n] = Sizing!Halve(ok, g[n - 1]) BY <3>3, <4>3, <5>1
          <5>4. h[n] = Sizing!Halve(ok, h[n - 1]) BY <5>2, <5>3, Zenon
          <5> QED BY <4>3, <5>4
        <4> QED BY <4>1, <4>2, <4>3
      <3>7. Upto(k, h) BY <3>6
      <3> QED BY <2>2, <3>7
    <2> QED BY <2>3, <2>4
  <1>2. PICK g : Upto(most, g)
    <2>1. most \notin Bad BY <1>1
    <2> QED BY <2>1
  <1> DEFINE h == [n \in 0..most |-> g[n]]
  <1>3. \A n \in 0..most : n # 0 => n - 1 \in 0..most OBVIOUS
  <1>4. \A n \in 0..most : h[n] = g[n] OBVIOUS
  <1>5. h = [n \in 0..most |-> h[n]] OBVIOUS
  <1> HIDE DEF h
  <1>6. \A n \in 0..most :
          h[n] = IF n = 0 THEN [low |-> 0, high |-> most] ELSE Sizing!Halve(ok, h[n - 1])
    <2> TAKE n \in 0..most
    <2>1. CASE n = 0 BY <1>2, <1>4, <2>1
    <2>2. CASE n # 0
      <3>1. g[n] = Sizing!Halve(ok, g[n - 1]) BY <1>2, <2>2
      <3>2. h[n - 1] = g[n - 1] BY <1>3, <1>4, <2>2
      <3>3. h[n] = Sizing!Halve(ok, h[n - 1]) BY <1>4, <3>1, <3>2, Zenon
      <3> QED BY <2>2, <3>3
    <2> QED BY <2>1, <2>2
  <1>7. Unrolls(h, ok, most) BY <1>5, <1>6 DEF Unrolls
  <1> QED BY <1>7

\* What is known of the interval: it was true at its lower end and false above it.
Between(i, ok, most) ==
  /\ i \in [low : 0..most, high : 0..most] /\ i.low <= i.high
  /\ i.low > 0 => ok[i.low]
  /\ i.high < most => ~ok[i.high + 1]

LEMMA HalfIsBetween ==
  ASSUME NEW most \in Nat, NEW ok \in [0..most -> BOOLEAN], NEW i, Between(i, ok, most)
  PROVE  /\ Between(Sizing!Halve(ok, i), ok, most)
         /\ i.low = i.high => Sizing!Halve(ok, i) = i
         /\ i.low < i.high =>
              Sizing!Halve(ok, i).high - Sizing!Halve(ok, i).low < i.high - i.low
  <1> DEFINE l == i.low
             m == i.high
             middle == (l + m + 1) \div 2
             h == Sizing!Halve(ok, i)
  <1>1. /\ l \in 0..most /\ m \in 0..most /\ l <= m /\ i = [low |-> l, high |-> m]
        /\ l > 0 => ok[l]
        /\ m < most => ~ok[m + 1]
    BY DEF Between
  <1>2. CASE l = m
    <2>1. h = i BY <1>1, <1>2 DEF Sizing!Halve
    <2>2. ~(l < m) BY <1>1, <1>2
    <2>3. Between(h, ok, most) BY <2>1
    <2> QED BY <2>1, <2>2, <2>3
  <1>3. CASE l < m
    <2>1. middle \in Int /\ 2 * middle <= l + m + 1 /\ l + m + 1 < 2 * middle + 2
      <3>1. l + m + 1 \in Int BY <1>1
      <3> QED BY <3>1, Quotient
    <2> HIDE DEF middle
    <2>2. middle \in 1..most /\ l < middle /\ middle <= m BY <1>1, <1>3, <2>1
    <2>3. CASE ok[middle]
      <3>1. h = [low |-> middle, high |-> m] BY <1>1, <1>3, <2>3 DEF Sizing!Halve, middle
      <3>2. Between([low |-> middle, high |-> m], ok, most)
        BY <1>1, <2>2, <2>3 DEF Between
      <3> QED BY <1>1, <1>3, <2>2, <3>1, <3>2
    <2>4. CASE ~ok[middle]
      <3>1. h = [low |-> l, high |-> middle - 1] BY <1>1, <1>3, <2>4 DEF Sizing!Halve, middle
      <3>2. (middle - 1) + 1 = middle /\ middle - 1 \in 0..most /\ l <= middle - 1 BY <1>1, <2>2
      <3>3. ~ok[(middle - 1) + 1] BY <2>4, <3>2
      <3>4. Between([low |-> l, high |-> middle - 1], ok, most)
        BY <1>1, <3>2, <3>3 DEF Between
      <3> QED BY <1>1, <1>3, <2>2, <3>1, <3>4
    <2> QED BY <2>3, <2>4
  <1> QED BY <1>1, <1>2, <1>3

\* If what is asked holds up to some n, the loop ends with the largest.
LEMMA BisectFinds ==
  ASSUME NEW most \in Nat, NEW ok \in [0..most -> BOOLEAN],
         \A n \in 1..most : ok[n] => \A m \in 1..n : ok[m]
  PROVE  /\ Sizing!Bisect(ok, most) \in 0..most
         /\ \A n \in 1..most : ok[n] <=> n <= Sizing!Bisect(ok, most)
  <1> DEFINE g == CHOOSE f : Unrolls(f, ok, most)
             r == g[most].low
  <1>1. Sizing!Bisect(ok, most) = r
    BY DEF Sizing!Bisect, Unrolls
  <1>2. Unrolls(g, ok, most) BY LoopUnrolls
  <1> HIDE DEF g
  <1>3. /\ g[0] = [low |-> 0, high |-> most]
        /\ \A n \in 1..most : g[n] = Sizing!Halve(ok, g[n - 1])
    <2>1. \A n \in 0..most :
            g[n] = IF n = 0 THEN [low |-> 0, high |-> most] ELSE Sizing!Halve(ok, g[n - 1])
      BY <1>2 DEF Unrolls
    <2> QED BY <2>1
  <1> DEFINE Good(n) == Between(g[n], ok, most) /\ g[n].high - g[n].low <= most - n
             Bad == {n \in 0..most : ~Good(n)}
  <1>4. Bad = {}
    <2>1. SUFFICES ASSUME Bad # {} PROVE FALSE OBVIOUS
    <2>2. PICK n \in Bad : \A m \in Bad : n <= m
      <3>1. Bad \in SUBSET Nat OBVIOUS
      <3> HIDE DEF Bad
      <3> QED BY <2>1, <3>1, LeastNatural
    <2>3. n \in 0..most /\ ~Good(n) BY <2>2
    <2>4. n # 0
      <3>1. Between(g[0], ok, most) BY <1>3 DEF Between
      <3>2. g[0].high - g[0].low <= most - 0 BY <1>3
      <3> QED BY <2>3, <3>1, <3>2
    <2>5. n - 1 \in 0..most /\ n - 1 \notin Bad
      <3>1. n - 1 \in 0..most /\ ~(n <= n - 1) BY <2>3, <2>4
      <3> HIDE DEF Bad
      <3> QED BY <2>2, <3>1
    <2> DEFINE i == g[n - 1]
               h == Sizing!Halve(ok, i)
    <2>6. Between(i, ok, most) /\ i.high - i.low <= most - (n - 1) BY <2>5
    <2>7. g[n] = h BY <1>3, <2>3, <2>4
    <2> HIDE DEF i
    <2>8. /\ Between(h, ok, most)
          /\ i.low = i.high => h = i
          /\ i.low < i.high => h.high - h.low < i.high - i.low
      BY <2>6, HalfIsBetween
    <2> HIDE DEF h
    <2>9. h.high - h.low <= most - n
      <3>1. i.low \in Nat /\ i.high \in Nat /\ i.low <= i.high BY <2>6 DEF Between
      <3>2. h.low \in Nat /\ h.high \in Nat BY <2>8 DEF Between
      <3>3. CASE i.low = i.high BY <2>3, <2>8, <3>1, <3>3
      <3>4. CASE i.low < i.high BY <2>3, <2>6, <2>8, <3>1, <3>2, <3>4
      <3> QED BY <3>1, <3>3, <3>4
    <2> QED BY <2>3, <2>7, <2>8, <2>9
  <1>5. Good(most) BY <1>4
  <1> HIDE DEF Good
  <1>6. /\ r \in 0..most /\ (r > 0 => ok[r]) /\ (r < most => ~ok[r + 1])
    <2>1. Between(g[most], ok, most) /\ g[most].high - g[most].low <= most - most
      BY <1>5 DEF Good
    <2>2. g[most].high = r /\ r \in 0..most BY <2>1 DEF Between
    <2> QED BY <2>1, <2>2 DEF Between
  <1> HIDE DEF r
  <1>7. ASSUME NEW n \in 1..most PROVE ok[n] <=> n <= r
    <2>1. ASSUME n <= r PROVE ok[n]
      <3>1. r \in 1..most /\ n \in 1..r /\ ok[r] BY <1>6, <2>1
      <3> QED BY <3>1
    <2>2. ASSUME r < n PROVE ~ok[n]
      <3>1. r + 1 \in 1..n /\ ~ok[r + 1] BY <1>6, <2>2
      <3> QED BY <3>1
    <2> QED BY <1>6, <2>1, <2>2
  <1> QED BY <1>1, <1>6, <1>7

-----------------------------------------------------------------------------
(* Fees *)

LEMMA SizingConstants ==
  /\ Lot \in Nat \ {0} /\ Freeze \in Nat /\ Lot <= Freeze
  /\ IsFiniteSet(Asks) /\ Asks \subseteq Nat \ {0} /\ Quantities \subseteq Nat /\ Targets \subseteq Nat
  /\ Cash \subseteq Nat /\ Caps \subseteq Nat /\ Bids \subseteq Nat /\ Bands \subseteq Nat
  /\ IsFiniteSet(Rates) /\ Rates \subseteq FeeRates
  /\ Gst \in FeeRates /\ Stamp \in FeeRates /\ Stt \in FeeRates
  /\ Brokerage \in Nat /\ MinimumEdge \in Nat /\ Rupee \in Nat \ {0}
  BY OperationsAssumption

LEMMA FullChildIsWhole ==
  /\ Freeze \div Lot \in Nat \ {0} /\ Sizing!FullChild = (Freeze \div Lot) * Lot
  /\ Sizing!FullChild \in Nat \ {0}
  <1> USE SizingConstants
  <1> DEFINE n == Freeze \div Lot
  <1>1. n \in Nat BY Quotient
  <1>2. Lot * 1 <= Freeze BY SMT
  <1>3. 1 <= n BY <1>2, QuotientBelow
  <1> HIDE DEF n
  <1>4. n * Lot \in Nat /\ 1 * 1 <= n * Lot BY <1>1, <1>3, ProductMonotonic
  <1> QED BY <1>1, <1>3, <1>4 DEF n, Sizing!FullChild

LEMMA PartRises ==
  ASSUME NEW v \in Nat, NEW w \in Nat, v <= w, NEW rate \in FeeRates, NEW quantum \in Nat \ {0},
         NEW j \in Nat \ {0}, NEW k \in Nat \ {0}, j <= k
  PROVE  /\ Sizing!Part(v, rate, quantum, j) \in Nat
         /\ Sizing!Part(w, rate, quantum, k) \in Nat
         /\ Sizing!Part(v, rate, quantum, j) <= Sizing!Part(w, rate, quantum, k)
         /\ (j - 1) * quantum <= Sizing!Part(v, rate, quantum, j)
  <1>1. rate.num \in Nat /\ rate.den \in Nat \ {0} BY DEF FeeRates
  <1> DEFINE d == rate.den * quantum
             x == (v * rate.num + d - 1) \div d
             y == (w * rate.num + d - 1) \div d
  <1>2. d \in Nat \ {0}
    <2>1. 1 * 1 <= rate.den * quantum /\ rate.den * quantum \in Nat BY <1>1, ProductMonotonic
    <2> QED BY <2>1
  <1> HIDE DEF d
  <1>3. v * rate.num \in Nat /\ w * rate.num \in Nat /\ v * rate.num <= w * rate.num
    BY <1>1, ProductMonotonic
  <1>4. x \in Nat /\ y \in Nat /\ x <= y BY <1>2, <1>3, RoundedUp
  <1> HIDE DEF x, y
  <1>5. x * quantum \in Nat /\ y * quantum \in Nat /\ x * quantum <= y * quantum
    BY <1>4, ProductMonotonic
  <1>6. /\ (j - 1) * quantum \in Nat /\ (k - 1) * quantum \in Nat
        /\ (j - 1) * quantum <= (k - 1) * quantum
    <2>1. j - 1 \in Nat /\ k - 1 \in Nat /\ j - 1 <= k - 1 OBVIOUS
    <2> QED BY <2>1, ProductMonotonic
  <1>7. /\ Sizing!Part(v, rate, quantum, j) = x * quantum + (j - 1) * quantum
        /\ Sizing!Part(w, rate, quantum, k) = y * quantum + (k - 1) * quantum
    BY Zenon DEF x, y, d, Sizing!Part, Sizing!CeilDiv
  <1> QED BY <1>5, <1>6, <1>7

\* The sum over the rates is the library's.
LEMMA SizingSum == \A f, S : Sizing!SumFunctionOnSet(f, S) = SumFunctionOnSet(f, S)
  BY DEF Sizing!SumFunctionOnSet, Sizing!FoldFunctionOnSet, Sizing!MapThenFoldSet,
         SumFunctionOnSet, FoldFunctionOnSet, MapThenFoldSet

LEMMA CommonRises ==
  ASSUME NEW v \in Nat, NEW w \in Nat, v <= w, NEW j \in Nat \ {0}, NEW k \in Nat \ {0}, j <= k
  PROVE  /\ Sizing!Common(v, j) \in Nat /\ Sizing!Common(w, k) \in Nat
         /\ Sizing!Common(v, j) <= Sizing!Common(w, k)
  <1> USE SizingConstants
  <1> DEFINE F == [r \in Rates |-> Sizing!Part(v, r, 1, j)]
             G == [r \in Rates |-> Sizing!Part(w, r, 1, k)]
             f == SumFunctionOnSet(F, Rates)
             g == SumFunctionOnSet(G, Rates)
             a == Brokerage * j + f
             b == Brokerage * k + g
  <1>1. \A r \in Rates : F[r] \in Nat /\ G[r] \in Nat /\ F[r] <= G[r]
    <2> TAKE r \in Rates
    <2>1. /\ Sizing!Part(v, r, 1, j) \in Nat /\ Sizing!Part(w, r, 1, k) \in Nat
          /\ Sizing!Part(v, r, 1, j) <= Sizing!Part(w, r, 1, k)
      BY PartRises
    <2> QED BY <2>1
  <1> HIDE DEF F, G
  <1>2. f \in Nat /\ g \in Nat BY <1>1, SumNat
  <1>3. f <= g
    <2>1. IntOn(F, Rates) /\ IntOn(G, Rates) BY <1>1 DEF IntOn
    <2> QED BY <1>1, <2>1, SumMonotonic
  <1> HIDE DEF f, g
  <1>4. /\ Brokerage * j \in Nat /\ Brokerage * k \in Nat /\ Brokerage * j <= Brokerage * k
    BY ProductMonotonic
  <1>5. a \in Nat /\ b \in Nat /\ a <= b BY <1>2, <1>3, <1>4
  <1> HIDE DEF a, b
  <1>6. /\ Sizing!Part(a, Gst, 1, j) \in Nat /\ Sizing!Part(b, Gst, 1, k) \in Nat
        /\ Sizing!Part(a, Gst, 1, j) <= Sizing!Part(b, Gst, 1, k)
    BY <1>5, PartRises
  <1>7. /\ Sizing!Common(v, j) = a + Sizing!Part(a, Gst, 1, j)
        /\ Sizing!Common(w, k) = b + Sizing!Part(b, Gst, 1, k)
    BY SizingSum, Zenon DEF Sizing!Common, a, b, f, g, F, G
  <1> QED BY <1>5, <1>6, <1>7

\* Fees rise with the turnover and with the number of orders; those of a sale in three
\* orders are something.
LEMMA FeesRise ==
  ASSUME NEW v \in Nat, NEW w \in Nat, v <= w, NEW j \in Nat \ {0}, NEW k \in Nat \ {0}, j <= k
  PROVE  /\ Sizing!BuyFees(v, j) \in Nat /\ Sizing!BuyFees(w, k) \in Nat
         /\ Sizing!BuyFees(v, j) <= Sizing!BuyFees(w, k)
         /\ Sizing!SellFees(v, j) \in Nat /\ Sizing!SellFees(w, k) \in Nat
         /\ Sizing!SellFees(v, j) <= Sizing!SellFees(w, k)
         /\ j = 3 => Sizing!SellFees(v, j) > 0
  <1> USE SizingConstants
  <1>1. /\ Sizing!Common(v, j) \in Nat /\ Sizing!Common(w, k) \in Nat
        /\ Sizing!Common(v, j) <= Sizing!Common(w, k)
    BY CommonRises
  <1>2. /\ Sizing!Part(v, Stamp, Rupee, j) \in Nat /\ Sizing!Part(w, Stamp, Rupee, k) \in Nat
        /\ Sizing!Part(v, Stamp, Rupee, j) <= Sizing!Part(w, Stamp, Rupee, k)
    BY PartRises
  <1>3. /\ Sizing!Part(v, Stt, Rupee, j) \in Nat /\ Sizing!Part(w, Stt, Rupee, k) \in Nat
        /\ Sizing!Part(v, Stt, Rupee, j) <= Sizing!Part(w, Stt, Rupee, k)
        /\ (j - 1) * Rupee <= Sizing!Part(v, Stt, Rupee, j)
    BY PartRises
  <1>4. j = 3 => (j - 1) * Rupee > 0 BY SMT
  <1>5. (j - 1) * Rupee \in Int BY SMT
  <1> QED BY <1>1, <1>2, <1>3, <1>4, <1>5 DEF Sizing!BuyFees, Sizing!SellFees

\* What a purchase costs rises with its size, its limit and the number of its orders.
LEMMA CostRises ==
  ASSUME NEW p \in Nat, NEW q \in Nat, p <= q, NEW l \in Nat, NEW m \in Nat, l <= m,
         NEW j \in Nat \ {0}, NEW k \in Nat \ {0}, j <= k
  PROVE  /\ Sizing!EntryCash(p, l, j) \in Nat /\ Sizing!EntryCash(q, m, k) \in Nat
         /\ Sizing!EntryCash(p, l, j) <= Sizing!EntryCash(q, m, k)
         /\ p * l <= Sizing!EntryCash(p, l, j) /\ p * l \in Nat
  <1>1. p * l \in Nat /\ q * m \in Nat /\ p * l <= q * m BY ProductMonotonic
  <1>2. /\ Sizing!BuyFees(p * l, j) \in Nat /\ Sizing!BuyFees(q * m, k) \in Nat
        /\ Sizing!BuyFees(p * l, j) <= Sizing!BuyFees(q * m, k)
    BY <1>1, FeesRise
  <1> QED BY <1>1, <1>2 DEF Sizing!EntryCash

\* In more orders a sale brings no more.
LEMMA ProceedsFall ==
  ASSUME NEW q \in Nat, NEW t \in Nat, NEW k \in Nat \ {0}
  PROVE  /\ Sizing!SaleCash(q, t, k) \in Int /\ Sizing!SaleCash(q, t, 1) \in Int
         /\ Sizing!SaleCash(q, t, k) <= Sizing!SaleCash(q, t, 1)
  <1>1. q * t \in Nat BY SMT
  <1>2. /\ Sizing!SellFees(q * t, 1) \in Nat /\ Sizing!SellFees(q * t, k) \in Nat
        /\ Sizing!SellFees(q * t, 1) <= Sizing!SellFees(q * t, k)
    <2>1. 1 \in Nat \ {0} /\ 1 <= k OBVIOUS
    <2> QED BY <1>1, <2>1, FeesRise
  <1> QED BY <1>1, <1>2 DEF Sizing!SaleCash

-----------------------------------------------------------------------------
(* Sizing: the largest size that can be paid for *)

SizingTyped ==
  /\ kind \in Sizing!Kinds /\ asks \in [Asks -> Nat] /\ target \in Nat
  /\ remaining \in Nat /\ spendable \in Nat /\ cap \in Nat /\ bid \in Nat /\ upper \in Nat

LEMMA InLotsIsWhole ==
  ASSUME NEW n \in Nat
  PROVE  /\ Sizing!InLots(n) \in Nat /\ Sizing!InLots(n) <= n /\ Sizing!InLots(n) % Lot = 0
         /\ \A m \in Nat : m * Lot <= n => m * Lot <= Sizing!InLots(n)
  <1> USE SizingConstants
  <1> DEFINE k == n \div Lot
  <1>1. k \in Nat /\ Lot * k <= n BY Quotient
  <1>2. ASSUME NEW m \in Nat, m * Lot <= n PROVE m * Lot <= k * Lot
    <2>1. Lot * m <= n BY <1>2, SMT
    <2>2. m <= k BY <2>1, QuotientBelow
    <2> HIDE DEF k
    <2> QED BY <1>1, <2>2, ProductMonotonic
  <1> HIDE DEF k
  <1>3. (k * Lot) % Lot = 0 BY <1>1, Multiple
  <1>4. k * Lot \in Nat /\ k * Lot = Lot * k BY <1>1, SMT
  <1>5. Sizing!InLots(n) = k * Lot BY DEF Sizing!InLots, k
  <1> QED BY <1>1, <1>2, <1>3, <1>4, <1>5

LEMMA PermitsLess ==
  ASSUME SizingTyped, NEW x \in Nat, NEW y \in Nat, x > 0, x <= y, Sizing!Permits(y)
  PROVE  Sizing!Permits(x)
  BY DEF SizingTyped, Sizing!Permits

\* How many orders a size takes.
LEMMA ChildrenRise ==
  ASSUME NEW p \in Nat \ {0}, NEW q \in Nat, p <= q
  PROVE  /\ Sizing!Children(p) \in Nat \ {0} /\ Sizing!Children(q) \in Nat \ {0}
         /\ Sizing!Children(p) <= Sizing!Children(q)
         /\ Sizing!Children(p) = Sizing!CeilDiv(p, Sizing!FullChild)
  <1> DEFINE F == Sizing!FullChild
             a == (p + F - 1) \div F
             b == (q + F - 1) \div F
  <1>1. F \in Nat \ {0} BY FullChildIsWhole
  <1> HIDE DEF F
  <1>2. a \in Nat /\ b \in Nat /\ a > 0 /\ a <= b BY <1>1, RoundedUp
  <1>3. Sizing!Children(p) = a /\ Sizing!Children(q) = b
    BY DEF Sizing!Children, Sizing!CeilDiv, F
  <1>4. Sizing!CeilDiv(p, Sizing!FullChild) = a BY DEF Sizing!CeilDiv, F
  <1> HIDE DEF a, b
  <1> QED BY <1>2, <1>3, <1>4

LEMMA EntryRises ==
  ASSUME NEW p \in Nat \ {0}, NEW q \in Nat, p <= q, NEW l \in Nat \ {0}
  PROVE  /\ Sizing!Entry(p, l) \in Nat /\ Sizing!Entry(q, l) \in Nat
         /\ 0 < Sizing!Entry(p, l) /\ Sizing!Entry(p, l) <= Sizing!Entry(q, l)
         /\ p * l <= Sizing!Entry(p, l)
  <1> DEFINE j == Sizing!Children(p)
             k == Sizing!Children(q)
  <1>1. j \in Nat \ {0} /\ k \in Nat \ {0} /\ j <= k BY ChildrenRise
  <1> HIDE DEF j, k
  <1>2. /\ Sizing!EntryCash(p, l, j) \in Nat /\ Sizing!EntryCash(q, l, k) \in Nat
        /\ Sizing!EntryCash(p, l, j) <= Sizing!EntryCash(q, l, k)
        /\ p * l <= Sizing!EntryCash(p, l, j)
    <2>1. p \in Nat /\ l \in Nat /\ l <= l OBVIOUS
    <2> QED BY <1>1, <2>1, CostRises
  <1>3. 1 * 1 <= p * l /\ p * l \in Nat BY ProductMonotonic
  <1>4. Sizing!Entry(p, l) = Sizing!EntryCash(p, l, j) /\ Sizing!Entry(q, l) = Sizing!EntryCash(q, l, k)
    BY DEF Sizing!Entry, j, k
  <1> QED BY <1>2, <1>3, <1>4

LEMMA DepthIsNatural ==
  ASSUME SizingTyped, NEW l \in Nat
  PROVE  Sizing!DepthUpTo(l) \in Nat
  <1> DEFINE f == [p \in Asks |-> IF p <= l THEN asks[p] ELSE 0]
  <1>1. \A p \in Asks : f[p] \in Nat BY DEF SizingTyped
  <1> HIDE DEF f
  <1>2. SumFunctionOnSet(f, Asks) \in Nat BY <1>1, SizingConstants, SumNat
  <1>3. Sizing!InLots(SumFunctionOnSet(f, Asks)) \in Nat BY <1>2, InLotsIsWhole
  <1>4. Sizing!DepthUpTo(l) = Sizing!InLots(SumFunctionOnSet(f, Asks))
    BY SizingSum, Zenon DEF Sizing!DepthUpTo, f
  <1> QED BY <1>3, <1>4

\* Of the sizes that the depth and the cash without fees allow, the bisection finds the
\* largest that is permitted with them.
LEMMA MaximumIsFound ==
  ASSUME SizingTyped, NEW l \in Nat \ {0}
  PROVE  /\ Sizing!Maximum(l) \in Nat /\ Sizing!Maximum(l) % Lot = 0
         /\ Sizing!Maximum(l) <= Sizing!DepthUpTo(l)
         /\ Sizing!Maximum(l) > 0 => Sizing!Permits(Sizing!Entry(Sizing!Maximum(l), l))
         /\ \A q \in Nat \ {0} : q % Lot = 0 /\ Sizing!Payable(q, l) => q <= Sizing!Maximum(l)
  <1> USE SizingConstants
  <1> DEFINE least == Sizing!Least(remaining, spendable)
             depth == Sizing!DepthUpTo(l)
             bare == Sizing!InLots(least \div l)
             all == Sizing!Available(l)
             most == all \div Lot
             ok == [n \in 0..most |-> Sizing!Permits(Sizing!Entry(n * Lot, l))]
             r == Sizing!Bisect(ok, most)
  <1>1. /\ remaining \in Nat /\ spendable \in Nat BY DEF SizingTyped
  <1>2. least \in Nat /\ least <= remaining /\ least <= spendable
        /\ (least = remaining \/ least = spendable)
    BY <1>1 DEF Sizing!Least
  <1>3. depth \in Nat BY DepthIsNatural
  <1>4. least \div l \in Nat /\ bare \in Nat
        /\ \A m \in Nat : m * Lot <= least \div l => m * Lot <= bare
    <2>1. least \div l \in Nat BY <1>2, Quotient
    <2> QED BY <2>1, InLotsIsWhole
  <1>5. all \in Nat /\ all <= depth /\ (all = depth \/ all = bare)
    <2> HIDE DEF depth, bare, all, least
    <2>1. all = IF depth < bare THEN depth ELSE bare
      BY DEF all, Sizing!Available, Sizing!Least, depth, bare, least
    <2> QED BY <1>3, <1>4, <2>1
  <1> HIDE DEF all, depth, bare, least
  <1>6. most \in Nat /\ Lot * most <= all /\ all < Lot * most + Lot BY <1>5, Quotient
  <1> HIDE DEF most
  <1>7. ok \in [0..most -> BOOLEAN]
    <2>1. \A n \in 0..most : Sizing!Permits(Sizing!Entry(n * Lot, l)) \in BOOLEAN
      BY DEF Sizing!Permits
    <2> QED BY <2>1
  <1>8. ASSUME NEW n \in 1..most, ok[n], NEW m \in 1..n PROVE ok[m]
    <2>1. n \in Nat /\ m \in Nat /\ m <= n /\ 1 <= m /\ n \in 0..most /\ m \in 0..most BY <1>6
    <2>2. m * Lot \in Nat /\ n * Lot \in Nat /\ m * Lot <= n * Lot BY <2>1, ProductMonotonic
    <2>3. 1 * 1 <= m * Lot BY <2>1, ProductMonotonic
    <2>4. m * Lot \in Nat \ {0} BY <2>2, <2>3
    <2> DEFINE x == Sizing!Entry(m * Lot, l)
               y == Sizing!Entry(n * Lot, l)
    <2>5. x \in Nat /\ y \in Nat /\ 0 < x /\ x <= y BY <2>2, <2>4, EntryRises
    <2>6. Sizing!Permits(y) BY <1>8, <2>1
    <2> HIDE DEF x, y
    <2>7. Sizing!Permits(x) BY <2>5, <2>6, PermitsLess
    <2> QED BY <2>1, <2>7 DEF x
  <1> HIDE DEF ok
  <1>9. r \in 0..most /\ \A n \in 1..most : ok[n] <=> n <= r
    <2>1. \A n \in 1..most : ok[n] => \A m \in 1..n : ok[m] BY <1>8
    <2> QED BY <1>6, <1>7, <2>1, BisectFinds
  <1> HIDE DEF r
  <1>10. Sizing!Maximum(l) = Lot * r
    BY Zenon DEF Sizing!Maximum, r, ok, most, all
  <1>11. r \in Nat /\ Lot * r \in Nat /\ Lot * r <= Lot * most /\ Lot * most \in Nat
    <2>1. r \in Nat /\ r <= most BY <1>6, <1>9
    <2> QED BY <1>6, <2>1, ProductMonotonic
  <1>12. (Lot * r) % Lot = 0 BY <1>11, Multiple
  <1>13. ASSUME NEW q \in Nat \ {0}, q % Lot = 0, Sizing!Payable(q, l)
         PROVE  q <= Lot * r
    <2> DEFINE n == q \div Lot
               x == Sizing!Entry(q, l)
    <2>1. n \in Nat /\ q = Lot * n BY <1>13, WholeMultiple
    <2> HIDE DEF n
    <2>2. q = n * Lot /\ n # 0 BY <1>13, <2>1, SMT
    <2>3. x = Sizing!EntryCash(q, l, Sizing!CeilDiv(q, Sizing!FullChild))
      <3>1. Sizing!Children(q) = Sizing!CeilDiv(q, Sizing!FullChild) BY ChildrenRise
      <3> QED BY <3>1 DEF Sizing!Entry
    <2>4. q <= depth /\ Sizing!Permits(x) BY <1>13, <2>3 DEF Sizing!Payable, depth
    <2>5. x \in Nat /\ q * l <= x BY EntryRises
    <2>6. x <= least BY <1>1, <1>2, <2>4, <2>5 DEF Sizing!Permits
    <2>7. l * q <= least
      <3>1. q * l \in Nat /\ q * l = l * q BY SMT
      <3> HIDE DEF x
      <3> QED BY <1>2, <2>5, <2>6, <3>1
    <2>8. q <= least \div l BY <1>2, <2>7, QuotientBelow
    <2>9. q <= bare BY <1>4, <2>1, <2>2, <2>8
    <2>10. q <= all BY <1>5, <2>4, <2>9
    <2>11. n <= most
      <3>1. Lot * n <= all BY <2>1, <2>10
      <3> QED BY <1>5, <2>1, <3>1, QuotientBelow DEF most
    <2>12. n \in 1..most BY <1>6, <2>1, <2>2, <2>11
    <2>13. ok[n]
      <3>1. ok[n] = Sizing!Permits(Sizing!Entry(n * Lot, l)) BY <1>6, <2>12 DEF ok
      <3> QED BY <2>2, <2>4, <3>1
    <2>14. n <= r BY <1>9, <2>12, <2>13
    <2>15. Lot * n <= Lot * r BY <1>11, <2>1, <2>14, ProductMonotonic
    <2> QED BY <2>1, <2>15
  <1>14. Lot * r <= depth BY <1>3, <1>5, <1>6, <1>11
  <1>15. ASSUME Lot * r > 0 PROVE Sizing!Permits(Sizing!Entry(Lot * r, l))
    <2>1. r # 0 BY <1>15, SMT
    <2>2. r \in 1..most /\ r <= r /\ Lot * r = r * Lot BY <1>6, <1>9, <1>11, <2>1
    <2>3. ok[r] BY <1>9, <2>2
    <2>4. ok[r] = Sizing!Permits(Sizing!Entry(r * Lot, l)) BY <1>6, <2>2 DEF ok
    <2> QED BY <2>2, <2>3, <2>4
  <1> QED BY <1>10, <1>11, <1>12, <1>13, <1>14, <1>15 DEF depth

\* A size that was tried is right, if it can be paid for as it was counted.
LEMMA TriedIsRight ==
  ASSUME SizingTyped, kind # "seconds", NEW l \in Nat \ {0}, l < target,
         NEW q \in Nat \ {0}, q % Lot = 0, q <= Sizing!Maximum(l),
         Sizing!Permits(Sizing!Entry(q, l)), Sizing!Edge(q, l) > 0,
         kind # "lag" => q = Sizing!Maximum(l),
         NEW c, c = Sizing!Purchase(q, l)
  PROVE  /\ c.quantity % Lot = 0 /\ c.quantity > 0 /\ c.limit < target
         /\ Sizing!WithinMeans(c) /\ Sizing!NothingMissed(c)
  <1> USE SizingConstants
  <1> DEFINE F == Sizing!FullChild
             e == Sizing!Entry(q, l)
             j == Sizing!Children(q)
  <1>0. c.quantity = q /\ c.limit = l /\ c.entry = e BY DEF Sizing!Purchase
  <1>1. /\ j \in Nat \ {0} /\ j = Sizing!CeilDiv(q, F) /\ e = Sizing!EntryCash(q, l, j)
    BY ChildrenRise DEF Sizing!Entry
  <1>2. F \in Nat \ {0} BY FullChildIsWhole
  <1>3. q <= Sizing!DepthUpTo(l)
    <2>1. Sizing!Maximum(l) \in Nat /\ Sizing!Maximum(l) <= Sizing!DepthUpTo(l) BY MaximumIsFound
    <2>2. Sizing!DepthUpTo(l) \in Nat BY DepthIsNatural
    <2> QED BY <2>1, <2>2
  <1>4. e \in Nat BY EntryRises
  <1> HIDE DEF F, e, j
  <1>5. ASSUME NEW p \in Nat \ {0}, p <= q, NEW k \in Nat \ {0}, k <= j
        PROVE  Sizing!Permits(Sizing!EntryCash(p, l, k))
    <2> DEFINE x == Sizing!EntryCash(p, l, k)
    <2>1. p \in Nat /\ l \in Nat /\ l <= l /\ j \in Nat \ {0} BY <1>1
    <2>2. x \in Nat /\ x <= e /\ p * l <= x BY <1>1, <1>5, <2>1, CostRises
    <2>3. 1 * 1 <= p * l /\ p * l \in Nat BY ProductMonotonic
    <2> HIDE DEF x
    <2>4. x > 0 BY <2>2, <2>3
    <2>5. Sizing!Permits(x) BY <1>4, <2>2, <2>4, PermitsLess DEF e
    <2> QED BY <2>5 DEF x
  <1>6. \A k \in 1..j : Sizing!Permits(Sizing!EntryCash(q, l, k))
    <2> TAKE k \in 1..j
    <2>1. k \in Nat \ {0} /\ k <= j /\ q <= q BY <1>1
    <2> QED BY <1>5, <2>1
  <1>7. Sizing!Permits(Sizing!EntryCash(Sizing!Least(q, F), l, 1))
    <2> DEFINE p == Sizing!Least(q, F)
    <2>1. p \in Nat \ {0} /\ p <= q BY <1>2 DEF Sizing!Least
    <2> HIDE DEF p
    <2>2. 1 \in Nat \ {0} /\ 1 <= j BY <1>1
    <2>3. Sizing!Permits(Sizing!EntryCash(p, l, 1)) BY <1>5, <2>1, <2>2
    <2> QED BY <2>3 DEF p
  <1>8. Sizing!SaleCash(q, target, 1) > e
    <2>1. target \in Nat /\ q \in Nat BY DEF SizingTyped
    <2>2. /\ Sizing!SaleCash(q, target, j) \in Int /\ Sizing!SaleCash(q, target, 1) \in Int
          /\ Sizing!SaleCash(q, target, j) <= Sizing!SaleCash(q, target, 1)
      BY <1>1, <2>1, ProceedsFall
    <2>3. Sizing!Edge(q, l) = Sizing!SaleCash(q, target, j) - e BY DEF Sizing!Edge, e, j
    <2> QED BY <1>4, <2>2, <2>3
  <1>9. Sizing!WithinMeans(c)
    BY <1>0, <1>1, <1>3, <1>6, <1>7, <1>8, Zenon DEF Sizing!WithinMeans, F
  <1>10. Sizing!NothingMissed(c)
    <2> SUFFICES ASSUME NEW p \in Sizing!AllLots, Sizing!Payable(p, l)
                 PROVE  p <= IF kind = "lag" THEN Sizing!Maximum(l) ELSE q
      BY <1>0, Zenon DEF Sizing!NothingMissed
    <2>1. p \in Nat \ {0} /\ p % Lot = 0 BY DEF Sizing!AllLots, SizingTyped
    <2>2. p <= Sizing!Maximum(l) BY <2>1, MaximumIsFound
    <2> QED BY <2>2
  <1> QED BY <1>0, <1>9, <1>10

\* The sizes that are tried are whole lots.
LEMMA SizesAreWhole ==
  ASSUME SizingTyped, NEW l \in Nat \ {0}, NEW q \in Sizing!Sizes(l)
  PROVE  q \in Nat \ {0} /\ q % Lot = 0 /\ q <= Sizing!Maximum(l)
  <1> USE SizingConstants
  <1> DEFINE F == Sizing!FullChild
             most == Sizing!Maximum(l)
             n == Freeze \div Lot
  <1>1. n \in Nat \ {0} /\ F = n * Lot /\ F \in Nat \ {0} BY FullChildIsWhole
  <1>2. most \in Nat /\ most % Lot = 0 BY MaximumIsFound
  <1>3. /\ 0 < q /\ q <= most
        /\ \/ q = Lot \/ q = most
           \/ \E i \in 1..Sizing!Children(most) : q = i * F \/ q = i * F - Lot
    BY Zenon DEF Sizing!Sizes, F, most
  <1> HIDE DEF F, most, n
  <1>4. CASE q = Lot
    <2>1. (1 * Lot) % Lot = 0 BY Multiple
    <2> QED BY <1>3, <1>4, <2>1 DEF most
  <1>5. CASE q = most BY <1>2, <1>3, <1>5 DEF most
  <1>6. ASSUME NEW i \in 1..Sizing!Children(most), q = i * F \/ q = i * F - Lot
        PROVE  q \in Nat \ {0} /\ q % Lot = 0
    <2>1. i \in Nat \ {0} BY DEF F
    <2>2. i * n \in Nat /\ 1 * 1 <= i * n BY <1>1, <2>1, ProductMonotonic
    <2>3. i * F = (i * n) * Lot BY <1>1, <2>1, SMT
    <2>4. i * F - Lot = (i * n - 1) * Lot BY <1>1, <2>1, <2>2, <2>3, SMT
    <2>5. i * n - 1 \in Nat BY <2>2
    <2>6. ((i * n) * Lot) % Lot = 0 /\ ((i * n - 1) * Lot) % Lot = 0 BY <2>2, <2>5, Multiple
    <2>7. (i * n) * Lot \in Nat /\ (i * n - 1) * Lot \in Nat BY <2>2, <2>5
    <2>8. q % Lot = 0 /\ q \in Nat BY <1>6, <2>3, <2>4, <2>6, <2>7
    <2> QED BY <1>3, <2>8
  <1> QED BY <1>3, <1>4, <1>5, <1>6 DEF most

LEMMA LagIsRight ==
  ASSUME SizingTyped, kind = "lag", NEW c \in Sizing!Eligible
  PROVE  /\ c.quantity % Lot = 0 /\ c.quantity > 0 /\ c.limit < target
         /\ Sizing!WithinMeans(c) /\ Sizing!NothingMissed(c)
  <1>1. PICK l \in Asks : /\ l < target
                          /\ \E q \in Sizing!Sizes(l) :
                               /\ c = Sizing!Purchase(q, l)
                               /\ Sizing!Permits(c.entry) /\ c.edge > 0
    BY DEF Sizing!Eligible
  <1>2. PICK q \in Sizing!Sizes(l) :
          c = Sizing!Purchase(q, l) /\ Sizing!Permits(c.entry) /\ c.edge > 0
    BY <1>1
  <1>3. l \in Nat \ {0} BY SizingConstants
  <1>4. q \in Nat \ {0} /\ q % Lot = 0 /\ q <= Sizing!Maximum(l) BY <1>3, SizesAreWhole
  <1>5. c.entry = Sizing!Entry(q, l) /\ c.edge = Sizing!Edge(q, l) BY <1>2 DEF Sizing!Purchase
  <1> QED BY <1>1, <1>2, <1>3, <1>4, <1>5, TriedIsRight

LEMMA FinalIsRight ==
  ASSUME SizingTyped, kind = "final", NEW c \in Sizing!FinalChoices
  PROVE  /\ c.quantity % Lot = 0 /\ c.quantity > 0 /\ c.limit < target
         /\ Sizing!WithinMeans(c) /\ Sizing!NothingMissed(c)
  <1>1. PICK l \in Asks : /\ l + 1 <= target /\ Sizing!Maximum(l) > 0
                          /\ c = Sizing!Purchase(Sizing!Maximum(l), l) /\ c.edge > 0
    BY DEF Sizing!FinalChoices
  <1> DEFINE q == Sizing!Maximum(l)
  <1>2. l \in Nat \ {0} BY SizingConstants
  <1>3. q \in Nat /\ q % Lot = 0 BY <1>2, MaximumIsFound
  <1>4. q \in Nat \ {0} BY <1>1, <1>3
  <1>5. c.edge = Sizing!Edge(q, l) BY <1>1 DEF Sizing!Purchase
  <1>6. l < target BY <1>1, <1>2 DEF SizingTyped
  <1>7. Sizing!Permits(Sizing!Entry(q, l)) BY <1>1, <1>2, MaximumIsFound
  <1> HIDE DEF q
  <1> QED BY <1>1, <1>2, <1>3, <1>4, <1>5, <1>6, <1>7, TriedIsRight DEF q

-----------------------------------------------------------------------------
(* Sizing: the price ceiling of the seconds strategies *)

LEMMA ExitFeesAreSome ==
  ASSUME SizingTyped
  PROVE  Sizing!ExitFees \in Nat /\ Sizing!ExitFees > 0
  <1>1. Lot * target \in Nat BY SizingConstants, SMT DEF SizingTyped
  <1>2. 3 \in Nat \ {0} /\ 3 <= 3 /\ Lot * target <= Lot * target BY <1>1
  <1> QED BY <1>1, <1>2, FeesRise DEF Sizing!ExitFees

\* What pays at a price pays at a lower one, and earns something.
LEMMA ReadyBelow ==
  ASSUME SizingTyped, NEW p \in Nat, NEW m \in Nat, p <= m, Sizing!Ready(m)
  PROVE  Sizing!Ready(p) /\ m < target
  <1> USE SizingConstants
  <1> DEFINE x == Sizing!EntryCash(Lot, p, 1)
             y == Sizing!EntryCash(Lot, m, 1)
             a == Sizing!BuyFees(Lot * p, 1)
             b == Sizing!BuyFees(Lot * m, 1)
             out == Sizing!ExitFees
             worth == Lot * target
  <1>1. out \in Nat /\ out > 0 BY ExitFeesAreSome
  <1>2. target \in Nat /\ remaining \in Nat /\ worth \in Nat BY SMT DEF SizingTyped
  <1>3. Lot * p \in Nat /\ Lot * m \in Nat /\ Lot * p <= Lot * m BY ProductMonotonic
  <1>4. x \in Nat /\ y \in Nat /\ x <= y /\ Lot * m <= y
    <2>1. Lot \in Nat /\ Lot <= Lot /\ 1 \in Nat \ {0} /\ 1 <= 1 /\ m <= m OBVIOUS
    <2>2. x \in Nat /\ y \in Nat /\ x <= y BY <2>1, CostRises
    <2>3. Lot * m <= y BY <2>1, CostRises
    <2> QED BY <2>2, <2>3
  <1>5. a \in Nat /\ b \in Nat /\ a <= b
    <2>1. 1 \in Nat \ {0} /\ 1 <= 1 OBVIOUS
    <2> QED BY <1>3, <2>1, FeesRise
  <1>6. \A n \in Nat : Sizing!Most(MinimumEdge, n) = IF MinimumEdge < n THEN n ELSE MinimumEdge
    BY DEF Sizing!Most
  <1>7. /\ remaining > 0 /\ y + out <= remaining
        /\ worth - out - y >= Sizing!Most(MinimumEdge, b + out)
    BY Zenon DEF Sizing!Ready, y, b, out, worth
  <1>8. Sizing!Ready(p) <=>
          /\ remaining > 0 /\ x + out <= remaining
          /\ worth - out - x >= Sizing!Most(MinimumEdge, a + out)
    BY Zenon DEF Sizing!Ready, x, a, out, worth
  <1> HIDE DEF x, y, a, b, out
  <1>9. a + out \in Nat /\ b + out \in Nat BY <1>1, <1>5
  <1>10. worth - out - y >= (IF MinimumEdge < b + out THEN b + out ELSE MinimumEdge)
    BY <1>6, <1>7, <1>9
  <1>11. worth - out - x >= (IF MinimumEdge < a + out THEN a + out ELSE MinimumEdge)
    <2> HIDE DEF worth
    <2> QED BY <1>1, <1>2, <1>4, <1>5, <1>10
  <1>12. Sizing!Ready(p)
    <2>1. x + out <= remaining
      <3> HIDE DEF worth
      <3> QED BY <1>1, <1>2, <1>4, <1>7
    <2>2. Sizing!Most(MinimumEdge, a + out) =
            IF MinimumEdge < a + out THEN a + out ELSE MinimumEdge BY <1>6, <1>9
    <2> HIDE DEF worth
    <2> QED BY <1>7, <1>8, <1>11, <2>1, <2>2
  <1>13. Lot * m < worth
    <2>1. y < worth
      <3> HIDE DEF worth
      <3> QED BY <1>1, <1>2, <1>4, <1>5, <1>10
    <2> HIDE DEF worth
    <2> QED BY <1>2, <1>3, <1>4, <2>1
  <1>14. m < target
    <2>1. target <= m => worth <= Lot * m BY <1>2, ProductMonotonic
    <2> HIDE DEF worth
    <2> QED BY <1>2, <1>3, <1>13, <2>1
  <1> QED BY <1>12, <1>14

LEMMA TopAskIsLeast ==
  ASSUME SizingTyped, \E p \in Asks : Sizing!Offered(p)
  PROVE  Sizing!TopAsk \in Asks /\ Sizing!TopAsk \in Nat
  <1> DEFINE S == {p \in Asks : Sizing!Offered(p)}
  <1>1. S \in SUBSET Nat /\ S # {} BY SizingConstants
  <1> HIDE DEF S
  <1>2. \E n \in S : \A m \in S : n <= m BY <1>1, LeastNatural
  <1>3. Sizing!TopAsk = CHOOSE x \in S : \A y \in S : x <= y
    BY DEF Sizing!TopAsk, Sizing!Min, S
  <1>4. Sizing!TopAsk \in S BY <1>2, <1>3
  <1> QED BY <1>1, <1>4 DEF S

LEMMA CeilingIsRight ==
  ASSUME SizingTyped, kind = "seconds", NEW c \in Sizing!Assessment
  PROVE  /\ c.quantity % Lot = 0 /\ c.quantity > 0 /\ c.limit < target
         /\ Sizing!HighestThatPays(c)
  <1> USE SizingConstants
  <1> DEFINE lowest == Sizing!Lowest
             highest == Sizing!Highest
             most == highest - lowest
             ok == [n \in 0..most |-> Sizing!Ready(lowest + n)]
             r == Sizing!Bisect(ok, most)
  <1>1. /\ \E p \in Asks : Sizing!Offered(p)
        /\ ~(highest < lowest) /\ Sizing!Ready(lowest)
        /\ c.quantity = Lot /\ c.limit = Sizing!HighestReady
    BY DEF Sizing!Assessment
  <1>2. Sizing!TopAsk \in Nat BY <1>1, TopAskIsLeast
  <1>3. lowest \in Nat /\ highest \in Int
    <2>1. Sizing!TopAsk - bid \in Int /\ upper \in Nat BY <1>2 DEF SizingTyped
    <2>2. Sizing!Most(2, Sizing!TopAsk - bid) \in Int BY <2>1 DEF Sizing!Most
    <2> QED BY <1>2, <2>1, <2>2 DEF Sizing!Lowest, Sizing!Highest, Sizing!Least
  <1>4. Sizing!HighestReady = lowest + r BY Zenon DEF Sizing!HighestReady, r, ok, most
  <1> HIDE DEF lowest, highest
  <1>5. most \in Nat BY <1>1, <1>3
  <1>6. ok \in [0..most -> BOOLEAN]
    <2>1. \A n \in 0..most : Sizing!Ready(lowest + n) \in BOOLEAN BY DEF Sizing!Ready
    <2> QED BY <2>1
  <1>7. \A n \in 1..most : ok[n] => \A m \in 1..n : ok[m]
    <2> SUFFICES ASSUME NEW n \in 1..most, ok[n], NEW m \in 1..n PROVE ok[m]
      BY Zenon
    <2>1. /\ n \in 0..most /\ m \in 0..most
          /\ lowest + m \in Nat /\ lowest + n \in Nat /\ lowest + m <= lowest + n
      BY <1>3, <1>5
    <2>2. Sizing!Ready(lowest + n) BY <2>1
    <2>3. Sizing!Ready(lowest + m) BY <2>1, <2>2, ReadyBelow
    <2> QED BY <2>1, <2>3
  <1>8. \A n \in 0..most : ok[n] <=> Sizing!Ready(lowest + n)
    <2> TAKE n \in 0..most
    <2>1. ok[n] = Sizing!Ready(lowest + n) OBVIOUS
    <2> QED BY <2>1
  <1> HIDE DEF most, ok
  <1>9. r \in 0..most /\ \A n \in 1..most : ok[n] <=> n <= r BY <1>5, <1>6, <1>7, BisectFinds
  <1> HIDE DEF r
  <1>10. \A n \in 0..most : Sizing!Ready(lowest + n) <=> n <= r
    <2> TAKE n \in 0..most
    <2>1. CASE n = 0
      <3>1. lowest + n = lowest /\ n <= r BY <1>3, <1>9, <2>1
      <3> QED BY <1>1, <3>1
    <2>2. CASE n # 0
      <3>1. n \in 1..most BY <1>5, <2>2
      <3>2. ok[n] <=> Sizing!Ready(lowest + n) BY <1>8
      <3>3. ok[n] <=> n <= r BY <1>9, <3>1
      <3> QED BY <3>2, <3>3, Zenon
    <2> QED BY <2>1, <2>2
  <1>11. c.limit = lowest + r /\ c.limit \in Nat /\ r \in Nat BY <1>1, <1>3, <1>4, <1>5, <1>9
  <1>12. c.limit < target
    <2>1. r <= r BY <1>11
    <2>2. Sizing!Ready(lowest + r) BY <1>9, <1>10, <2>1
    <2>3. lowest + r \in Nat /\ lowest + r <= lowest + r BY <1>11
    <2> QED BY <1>11, <2>2, <2>3, ReadyBelow
  <1>13. \A p \in lowest..highest : Sizing!Ready(p) <=> p <= c.limit
    <2> TAKE p \in lowest..highest
    <2> DEFINE n == p - lowest
    <2>1. n \in 0..most /\ p = lowest + n /\ p \in Nat BY <1>3 DEF most
    <2> HIDE DEF n
    <2>2. n <= r <=> p <= c.limit BY <1>3, <1>5, <1>11, <2>1
    <2>3. Sizing!Ready(p) <=> n <= r BY <1>10, <2>1, Zenon
    <2> QED BY <2>2, <2>3, Zenon
  <1>14. (1 * Lot) % Lot = 0 BY Multiple
  <1> QED BY <1>1, <1>12, <1>13, <1>14 DEF Sizing!HighestThatPays, lowest, highest

-----------------------------------------------------------------------------
(* Sizing: the invariant *)

Questions == <<kind, asks, target, remaining, spendable, cap, bid, upper>>

RightSize(c) ==
  /\ c.quantity % Lot = 0 /\ c.quantity > 0 /\ c.limit < target
  /\ IF kind = "seconds" THEN Sizing!HighestThatPays(c)
     ELSE Sizing!WithinMeans(c) /\ Sizing!NothingMissed(c)

SizingInv ==
  part = "sizing" =>
    SizingTyped /\ (size = Sizing!None \/ \E c : c = size /\ RightSize(c))

LEMMA SizedRight == part = "sizing" /\ SizingInv => Sizing!SizedWithinMeans
  <1> SUFFICES ASSUME part = "sizing", SizingInv, size # Sizing!None PROVE RightSize(size)
    BY DEF Sizing!SizedWithinMeans, RightSize
  <1>1. PICK c : c = size /\ RightSize(c) BY DEF SizingInv
  <1> QED BY <1>1

LEMMA SizingStart == Start => SizingInv
  <1> SUFFICES ASSUME Start, part = "sizing" PROVE SizingTyped /\ size = Sizing!None
    BY DEF SizingInv
  <1>1. Sizing!Init BY DEF Start
  <1>2. SizingTyped
    <2>1. kind \in Sizing!Kinds /\ asks \in [Asks -> Quantities] /\ target \in Targets
      BY <1>1 DEF Sizing!Init
    <2>2. remaining \in Cash /\ spendable \in Cash /\ cap \in {0} \cup Caps
      BY <1>1 DEF Sizing!Init
    <2>3. bid \in {0} \cup Bids /\ upper \in {0} \cup Bands
      BY <1>1 DEF Sizing!Init
    <2>4. asks \in [Asks -> Nat] /\ target \in Nat BY <2>1, SizingConstants
    <2>5. remaining \in Nat /\ spendable \in Nat /\ cap \in Nat /\ bid \in Nat /\ upper \in Nat
      BY <2>2, <2>3, SizingConstants
    <2> QED BY <2>1, <2>4, <2>5 DEF SizingTyped
  <1>3. size = Sizing!None BY <1>1 DEF Sizing!Init
  <1> QED BY <1>2, <1>3

\* What is said of a choice is about the question only.
LEMMA SameQuestion ==
  ASSUME UNCHANGED Questions, NEW c
  PROVE  /\ SizingTyped <=> SizingTyped'
         /\ RightSize(c) <=> RightSize(c)'
  <1>1. /\ kind' = kind /\ asks' = asks /\ target' = target /\ remaining' = remaining
        /\ spendable' = spendable /\ cap' = cap /\ bid' = bid /\ upper' = upper
    BY DEF Questions
  <1>2. SizingTyped <=> SizingTyped' BY <1>1, Zenon DEF SizingTyped
  <1>3. ASSUME NEW l PROVE Sizing!DepthUpTo(l)' = Sizing!DepthUpTo(l)
    BY <1>1, Zenon DEF Sizing!DepthUpTo
  <1>4. ASSUME NEW x PROVE Sizing!Permits(x)' <=> Sizing!Permits(x)
    BY <1>1, Zenon DEF Sizing!Permits
  <1>5. Sizing!WithinMeans(c) <=> Sizing!WithinMeans(c)'
    BY <1>1, <1>3, <1>4, Zenon DEF Sizing!WithinMeans
  <1>6. ASSUME NEW l PROVE Sizing!Maximum(l)' = Sizing!Maximum(l)
    <2>1. Sizing!Available(l)' = Sizing!Available(l)
      BY <1>1, <1>3, Zenon DEF Sizing!Available
    <2> QED BY <1>1, <2>1, Zenon DEF Sizing!Maximum, Sizing!Permits
  <1>7. Sizing!AllLots' = Sizing!AllLots BY <1>1, Zenon DEF Sizing!AllLots
  <1>8. \A p, l : Sizing!Payable(p, l)' <=> Sizing!Payable(p, l)
    BY <1>3, <1>4, Zenon DEF Sizing!Payable
  <1>9. Sizing!NothingMissed(c) <=> Sizing!NothingMissed(c)'
    BY <1>1, <1>6, <1>7, <1>8, Zenon DEF Sizing!NothingMissed
  <1>10. Sizing!TopAsk' = Sizing!TopAsk BY <1>1, Zenon DEF Sizing!TopAsk, Sizing!Offered
  <1>11. Sizing!Lowest' = Sizing!Lowest /\ Sizing!Highest' = Sizing!Highest
    BY <1>1, <1>10, Zenon DEF Sizing!Lowest, Sizing!Highest
  <1>12. Sizing!ExitFees' = Sizing!ExitFees BY <1>1, Zenon DEF Sizing!ExitFees
  <1>13. \A p : Sizing!Ready(p)' <=> Sizing!Ready(p)
    BY <1>1, <1>12, Zenon DEF Sizing!Ready
  <1>14. Sizing!HighestThatPays(c) <=> Sizing!HighestThatPays(c)'
    BY <1>11, <1>13, Zenon DEF Sizing!HighestThatPays
  <1>15. RightSize(c) <=> RightSize(c)' BY <1>1, <1>5, <1>9, <1>14, Zenon DEF RightSize
  <1> QED BY <1>2, <1>15

LEMMA SizingNext ==
  ASSUME SizingInv, [Step]_everything
  PROVE  SizingInv'
  <1> SUFFICES ASSUME part' = "sizing"
               PROVE  SizingTyped' /\ (size' = Sizing!None \/ \E c : c = size' /\ RightSize(c)')
    BY DEF SizingInv
  <1>1. part = "sizing" /\ (Sizing!Next \/ UNCHANGED question)
    BY DEF Step, everything
  <1>2. SizingTyped /\ (size = Sizing!None \/ \E c : c = size /\ RightSize(c))
    BY <1>1 DEF SizingInv
  <1>3. CASE UNCHANGED question
    <2>1. UNCHANGED Questions /\ size' = size BY <1>3 DEF question, Questions
    <2>2. SizingTyped' BY <1>2, <2>1, SameQuestion
    <2>3. CASE size = Sizing!None BY <2>1, <2>2, <2>3
    <2>4. ASSUME NEW c, c = size, RightSize(c) PROVE c = size' /\ RightSize(c)'
      BY <2>1, <2>4, SameQuestion
    <2> QED BY <1>2, <2>2, <2>3, <2>4
  <1>4. CASE Sizing!Next
    <2>1. UNCHANGED Questions BY <1>4 DEF Sizing!Next, Sizing!Decided, Questions
    <2>2. PICK c : /\ c = size'
                   /\ \/ kind = "lag" /\ c \in Sizing!Eligible
                      \/ kind = "final" /\ c \in Sizing!FinalChoices
                      \/ kind = "seconds" /\ c \in Sizing!Assessment
      BY <1>4, Zenon DEF Sizing!Next, Sizing!Decided
    <2>3. RightSize(c)
      <3>1. CASE kind = "lag" /\ c \in Sizing!Eligible BY <1>2, <3>1, LagIsRight DEF RightSize
      <3>2. CASE kind = "final" /\ c \in Sizing!FinalChoices
        BY <1>2, <3>2, FinalIsRight DEF RightSize
      <3>3. CASE kind = "seconds" /\ c \in Sizing!Assessment
        BY <1>2, <3>3, CeilingIsRight DEF RightSize
      <3> QED BY <2>2, <3>1, <3>2, <3>3
    <2>4. SizingTyped' /\ RightSize(c)' BY <1>2, <2>1, <2>3, SameQuestion
    <2> QED BY <2>2, <2>4
  <1> QED BY <1>1, <1>3, <1>4

-----------------------------------------------------------------------------
(* Candidates: a larger quantity of what pays, pays *)

LEMMA Outpaces ==
  ASSUME NEW q \in Nat \ {0}, NEW Q \in Nat, q < Q, NEW B \in Nat, q <= B,
         NEW K \in Int, NEW g \in Nat, q * K >= g * B
  PROVE  Q * K >= g * B + g /\ Q * K >= q * K + g
  <1>1. g * B \in Nat /\ q * K \in Int /\ Q * K \in Int BY SMT
  <1>2. K >= g
    <2>1. CASE K < 0
      <3>1. q * (0 - K) >= 1 * 1 BY <2>1, ProductMonotonic
      <3>2. q * (0 - K) = 0 - q * K BY SMT
      <3> QED BY <1>1, <3>1, <3>2
    <2>2. CASE K >= 0 /\ K < g
      <3>1. K \in Nat /\ g - 1 \in Nat /\ K <= g - 1 BY <2>2
      <3>2. q * K <= B * (g - 1) BY <3>1, ProductMonotonic
      <3>3. B * (g - 1) = g * B - B BY SMT
      <3> QED BY <1>1, <3>2, <3>3
    <2> QED BY <2>1, <2>2
  <1>3. Q * K = q * K + (Q - q) * K BY SMT
  <1>4. (Q - q) * K >= 1 * g
    <2>1. Q - q \in Nat /\ K \in Nat /\ 1 <= Q - q BY <1>2
    <2> QED BY <1>2, <2>1, ProductMonotonic
  <1>5. (Q - q) * K \in Int BY SMT
  <1> QED BY <1>1, <1>3, <1>4, <1>5

\* Fees are a part in h of the turnover, rounded up, and a brokerage B, which is more than
\* rounding can make of it.
LEMMA MorePays ==
  ASSUME NEW h \in Nat \ {0}, NEW S \in Nat, NEW L \in Nat, NEW B \in Nat,
         NEW q \in Nat \ {0}, NEW Q \in Nat, q < Q, q <= B,
         NEW a \in Nat, NEW z \in Nat, NEW A \in Nat, NEW Z \in Nat,
         q * L <= h * a, q * S <= h * z, h * A < Q * L + h, h * Z < Q * S + h,
         10 * (q * S - (B + z)) >= 18 * (q * L + (B + a)),
         q * (S - L) >= 3 * ((B + a) + (B + z))
  PROVE  /\ 10 * (Q * S - (B + Z)) >= 18 * (Q * L + (B + A))
         /\ Q * (S - L) >= 3 * ((B + A) + (B + Z))
         /\ q * S - q * L - (B + a) - (B + z) <= Q * S - Q * L - (B + A) - (B + Z)
  <1> DEFINE u == q * S
             v == q * L
             U == Q * S
             V == Q * L
             ha == h * a
             hz == h * z
             hA == h * A
             hZ == h * Z
             hB == h * B
             hu == h * u
             hv == h * v
             hU == h * U
             hV == h * V
  <1>1. /\ u \in Nat /\ v \in Nat /\ U \in Nat /\ V \in Nat /\ ha \in Nat /\ hz \in Nat
        /\ hA \in Nat /\ hZ \in Nat /\ hB \in Nat
    BY SMT
  <1>2. hu \in Nat /\ hv \in Nat /\ hU \in Nat /\ hV \in Nat
    <2> HIDE DEF u, v, U, V
    <2> QED BY <1>1, SMT
  <1>3. q * (S - L) = u - v /\ Q * (S - L) = U - V BY SMT
  \* An amount that is not negative stays so when multiplied, and the other way round.
  <1>4. ASSUME NEW x \in Int PROVE (x >= 0 => h * x >= 0) /\ (h * x > 0 => x >= 0)
    <2>1. x >= 0 => h * x >= 0 BY SMT
    <2>2. x < 0 => h * (0 - x) >= 1 * 1 BY ProductMonotonic
    <2>3. h * (0 - x) = 0 - h * x /\ h * x \in Int BY SMT
    <2> QED BY <2>1, <2>2, <2>3
  <1>5. 10 * (U - (B + Z)) >= 18 * (V + (B + A))
    <2> DEFINE K == 10 * (h * S) - 10 * S - 18 * (h * L) - 18 * L
               x == 10 * (u - (B + z)) - 18 * (v + (B + a))
               X == 10 * (U - (B + Z)) - 18 * (V + (B + A))
    <2>1. K \in Int BY SMT
    <2>2. q * K = 10 * hu - 10 * u - 18 * hv - 18 * v BY SMT
    <2>3. Q * K = 10 * hU - 10 * U - 18 * hV - 18 * V BY SMT
    <2>4. h * x = 10 * hu - 28 * hB - 10 * hz - 18 * hv - 18 * ha
      <3> HIDE DEF u, v
      <3> QED BY <1>1, SMT
    <2>5. h * X = 10 * hU - 28 * hB - 10 * hZ - 18 * hV - 18 * hA
      <3> HIDE DEF U, V
      <3> QED BY <1>1, SMT
    <2>6. u <= hz /\ v <= ha /\ hA < V + h /\ hZ < U + h OBVIOUS
    <2>7. x \in Int /\ X \in Int /\ x >= 0
      <3> HIDE DEF U, V
      <3> QED BY <1>1
    <2> HIDE DEF K, x, X
    <2>8. h * x >= 0 BY <1>4, <2>7
    <2>9. (28 * h) * B = 28 * hB /\ 28 * h \in Nat BY SMT
    <2> HIDE DEF u, v, U, V, ha, hz, hA, hZ, hB, hu, hv, hU, hV
    <2>10. q * K >= (28 * h) * B BY <1>1, <1>2, <2>2, <2>4, <2>6, <2>8, <2>9
    <2>11. Q * K >= (28 * h) * B + 28 * h BY <2>1, <2>9, <2>10, Outpaces
    <2>12. h * X > 0 BY <1>1, <1>2, <2>3, <2>5, <2>6, <2>9, <2>11
    <2>13. X >= 0 BY <1>4, <2>7, <2>12
    <2> QED BY <1>1, <2>13 DEF X
  <1>6. U - V >= 3 * ((B + A) + (B + Z))
    <2> DEFINE K == h * S - h * L - 3 * S - 3 * L
               x == u - v - 6 * B - 3 * a - 3 * z
               X == U - V - 6 * B - 3 * A - 3 * Z
    <2>1. K \in Int BY SMT
    <2>2. q * K = hu - hv - 3 * u - 3 * v BY SMT
    <2>3. Q * K = hU - hV - 3 * U - 3 * V BY SMT
    <2>4. h * x = hu - hv - 6 * hB - 3 * ha - 3 * hz
      <3> HIDE DEF u, v
      <3> QED BY <1>1, SMT
    <2>5. h * X = hU - hV - 6 * hB - 3 * hA - 3 * hZ
      <3> HIDE DEF U, V
      <3> QED BY <1>1, SMT
    <2>6. u <= hz /\ v <= ha /\ hA < V + h /\ hZ < U + h OBVIOUS
    <2>7. x \in Int /\ X \in Int /\ x >= 0
      <3>1. u - v >= 3 * ((B + a) + (B + z)) BY <1>3
      <3> HIDE DEF u, v, U, V
      <3> QED BY <1>1, <3>1
    <2> HIDE DEF K, x, X
    <2>8. h * x >= 0 BY <1>4, <2>7
    <2>9. (6 * h) * B = 6 * hB /\ 6 * h \in Nat BY SMT
    <2> HIDE DEF u, v, U, V, ha, hz, hA, hZ, hB, hu, hv, hU, hV
    <2>10. q * K >= (6 * h) * B BY <1>1, <1>2, <2>2, <2>4, <2>6, <2>8, <2>9
    <2>11. Q * K >= (6 * h) * B + 6 * h BY <2>1, <2>9, <2>10, Outpaces
    <2>12. h * X > 0 BY <1>1, <1>2, <2>3, <2>5, <2>6, <2>9, <2>11
    <2>13. X >= 0 BY <1>4, <2>7, <2>12
    <2> QED BY <1>1, <2>13 DEF X
  <1>7. u - v - (B + a) - (B + z) <= U - V - (B + A) - (B + Z)
    <2> DEFINE K == h * S - h * L - S - L
               x == u - v - 6 * B - 3 * a - 3 * z
               X == (U - V - A - Z) - (u - v - a - z)
    <2>1. K \in Int BY SMT
    <2>2. q * K = hu - hv - u - v BY SMT
    <2>3. Q * K = hU - hV - U - V BY SMT
    <2>4. h * x = hu - hv - 6 * hB - 3 * ha - 3 * hz
      <3> HIDE DEF u, v
      <3> QED BY <1>1, SMT
    <2>5. h * X = hU - hV - hA - hZ - hu + hv + ha + hz
      <3> HIDE DEF u, v, U, V
      <3> QED BY <1>1, SMT
    <2>6. u <= hz /\ v <= ha /\ hA < V + h /\ hZ < U + h OBVIOUS
    <2>7. x \in Int /\ X \in Int /\ x >= 0
      <3>1. u - v >= 3 * ((B + a) + (B + z)) BY <1>3
      <3> HIDE DEF u, v, U, V
      <3> QED BY <1>1, <3>1
    <2> HIDE DEF K, x, X
    <2>8. h * x >= 0 BY <1>4, <2>7
    <2>9. (2 * h) * B = 2 * hB /\ 2 * h \in Nat BY SMT
    <2> HIDE DEF u, v, U, V, ha, hz, hA, hZ, hB, hu, hv, hU, hV
    <2>11. q * K >= (2 * h) * B BY <1>1, <1>2, <2>2, <2>4, <2>6, <2>8, <2>9
    <2>12. Q * K >= q * K + 2 * h /\ q * K \in Int /\ Q * K \in Int
      <3>1. Q * K >= q * K + 2 * h BY <2>1, <2>9, <2>11, Outpaces
      <3> QED BY <2>1, <3>1, SMT
    <2>13. h * X > 0 BY <1>1, <1>2, <2>2, <2>3, <2>5, <2>6, <2>12
    <2>14. X >= 0 BY <1>4, <2>7, <2>13
    <2> QED BY <1>1, <2>14 DEF X
  <1> QED BY <1>3, <1>5, <1>6, <1>7

-----------------------------------------------------------------------------
(* Candidates: which contract *)

LEMMA CandidateConstants ==
  /\ Strikes \subseteq Nat \ {0} /\ Premiums \subseteq Nat \ {0} /\ Scenarios \subseteq Nat
  /\ Activity \subseteq Nat /\ Depths \subseteq Nat /\ Budgets \subseteq Nat /\ Ceiling \in Nat
  /\ FreezeLots \in Nat \ {0} /\ Share \in Nat \ {0} /\ OrderFee \in Nat /\ FreezeLots <= OrderFee
  BY OperationsAssumption

CandidatesTyped ==
  /\ engine \in {"minute", "shock"} /\ budget \in Nat
  /\ offered \in [Strikes -> IF engine = "minute" THEN Candidates!MinuteQuotes
                             ELSE Candidates!ShockQuotes]

LEMMA MaxIsFound ==
  ASSUME NEW N \in Nat, NEW S \in SUBSET (0..N), S # {}
  PROVE  Candidates!Max(S) \in S /\ \A x \in S : x <= Candidates!Max(S)
  <1> DEFINE T == {N - x : x \in S}
  <1>1. T \in SUBSET Nat /\ T # {}
    <2>1. \A x \in S : N - x \in Nat OBVIOUS
    <2>2. PICK x \in S : TRUE OBVIOUS
    <2>3. N - x \in T BY <2>2
    <2> QED BY <2>1, <2>3
  <1> HIDE DEF T
  <1>2. PICK n \in T : \A m \in T : n <= m BY <1>1, LeastNatural
  <1>3. PICK y \in S : n = N - y BY <1>2 DEF T
  <1>4. \A x \in S : x <= y
    <2> TAKE x \in S
    <2>1. N - x \in T BY DEF T
    <2>2. n <= N - x BY <1>2, <2>1
    <2> QED BY <1>3, <2>2
  <1> QED BY <1>4 DEF Candidates!Max

LEMMA MinIsFound ==
  ASSUME NEW S \in SUBSET Nat, S # {}
  PROVE  Candidates!Min(S) \in S /\ \A x \in S : Candidates!Min(S) <= x
  BY LeastNatural DEF Candidates!Min

\* The largest quantity that can be paid for, with all below it.
LEMMA LargestPayable ==
  ASSUME NEW most \in Nat, NEW Pay,
         NEW r, r = Candidates!Max({0} \cup {q \in 1..most : \A n \in 1..q : Pay[n]})
  PROVE  /\ r \in 0..most
         /\ r > 0 => \A n \in 1..r : Pay[n]
         /\ \A q \in 1..most : (\A n \in 1..q : Pay[n]) => q <= r
  <1> DEFINE S == {0} \cup {q \in 1..most : \A n \in 1..q : Pay[n]}
  <1>1. S \in SUBSET (0..most) /\ S # {} OBVIOUS
  <1>2. \A q \in S : q = 0 \/ \A n \in 1..q : Pay[n] OBVIOUS
  <1>3. \A q \in 1..most : (\A n \in 1..q : Pay[n]) => q \in S OBVIOUS
  <1> HIDE DEF S
  <1>4. r \in S /\ \A x \in S : x <= r BY <1>1, MaxIsFound DEF S
  <1> QED BY <1>1, <1>2, <1>3, <1>4

LEMMA MinuteTyped ==
  ASSUME CandidatesTyped, engine = "minute", NEW c \in Strikes
  PROVE  /\ offered[c].volume \in Nat \cup {-1} /\ offered[c].close \in Nat
         /\ offered[c].ask \in Nat /\ offered[c].depth \in Nat
         /\ Candidates!MostPaid(c) \in Int
  <1>1. offered[c] \in Candidates!MinuteQuotes BY DEF CandidatesTyped
  <1>2. /\ offered[c].volume \in Activity \cup {-1} /\ offered[c].close \in Premiums
        /\ offered[c].ask \in Premiums \cup {0} /\ offered[c].depth \in Depths
    BY <1>1 DEF Candidates!MinuteQuotes, Candidates!Unknown, Candidates!NoAsk
  <1>3. /\ offered[c].volume \in Nat \cup {-1} /\ offered[c].close \in Nat
        /\ offered[c].ask \in Nat /\ offered[c].depth \in Nat
    <2>1. /\ Activity \cup {-1} \subseteq Nat \cup {-1} /\ Premiums \subseteq Nat
          /\ Premiums \cup {0} \subseteq Nat /\ Depths \subseteq Nat
      BY CandidateConstants
    <2> QED BY <1>2, <2>1, Zenon
  <1>4. Candidates!MostPaid(c) \in Int
    <2> DEFINE a == 105 * offered[c].close
    <2>1. a \in Nat /\ 100 \in Nat \ {0} BY <1>3
    <2>2. Candidates!MostPaid(c) = (a + 100 - 1) \div 100
      BY Zenon DEF Candidates!MostPaid, Candidates!CeilDiv
    <2> HIDE DEF a
    <2>3. (a + 100 - 1) \div 100 \in Nat BY <2>1, RoundedUp
    <2> QED BY <2>2, <2>3
  <1> QED BY <1>3, <1>4

\* What can be had of a contract: as much as all limits allow, if one lot can be paid for.
LEMMA QuantityIsFound ==
  ASSUME CandidatesTyped, engine = "minute", NEW c \in Strikes, Candidates!Liquid(c)
  PROVE  /\ Candidates!Quantity(c) \in Nat
         /\ Candidates!Quantity(c) > 0 =>
              /\ Candidates!CanPay(c, Candidates!Quantity(c))
              /\ offered[c].ask <= Candidates!MostPaid(c) /\ offered[c].depth > 0
         /\ Candidates!CanPay(c, 1) /\ offered[c].ask <= Candidates!MostPaid(c)
            /\ offered[c].depth > 0 => Candidates!Quantity(c) > 0
  <1> DEFINE most == Candidates!Capacity(c)
             Pay == [n \in Nat |-> Candidates!CanPay(c, n)]
             r == Candidates!Quantity(c)
  <1>1. /\ offered[c].volume \in Nat /\ offered[c].volume >= 1 /\ offered[c].depth \in Nat
        /\ offered[c].ask \in Nat /\ Candidates!MostPaid(c) \in Int
    BY MinuteTyped DEF Candidates!Liquid
  <1>2. /\ most \in Nat
        /\ most > 0 <=> offered[c].ask <= Candidates!MostPaid(c) /\ offered[c].depth > 0
    <2>1. FreezeLots \in Nat /\ FreezeLots > 0 BY CandidateConstants
    <2> QED BY <1>1, <2>1 DEF Candidates!Capacity, Candidates!Least
  <1> HIDE DEF most
  <1>3. \A n \in Nat : Pay[n] <=> Candidates!CanPay(c, n) BY Zenon
  <1>4. r = Candidates!Max({0} \cup {q \in 1..most : \A n \in 1..q : Pay[n]})
    <2>1. \A q \in 1..most : (\A n \in 1..q : Pay[n]) <=> \A n \in 1..q : Candidates!CanPay(c, n)
      <3> HIDE DEF Pay
      <3>1. \A q \in 1..most : \A n \in 1..q : n \in Nat BY <1>2
      <3> QED BY <1>3, <3>1, Zenon
    <2>2. {q \in 1..most : \A n \in 1..q : Candidates!CanPay(c, n)}
            = {q \in 1..most : \A n \in 1..q : Pay[n]}
      <3> HIDE DEF Pay
      <3> QED BY <2>1
    <2> QED BY <2>2, Zenon DEF Candidates!Quantity, most
  <1> HIDE DEF r, Pay
  <1>5. /\ r \in 0..most
        /\ r > 0 => \A n \in 1..r : Pay[n]
        /\ \A q \in 1..most : (\A n \in 1..q : Pay[n]) => q <= r
    BY <1>2, <1>4, LargestPayable
  <1>6. r \in Nat /\ (r > 0 => r \in 1..r /\ most > 0) BY <1>2, <1>5
  <1>7. r > 0 => Candidates!CanPay(c, r)
    <2> SUFFICES ASSUME r > 0 PROVE Candidates!CanPay(c, r) OBVIOUS
    <2>1. Pay[r] BY <1>5, <1>6
    <2> QED BY <1>3, <1>6, <2>1
  <1>8. Candidates!CanPay(c, 1) /\ most > 0 => r > 0
    <2> SUFFICES ASSUME Candidates!CanPay(c, 1), most > 0 PROVE r > 0 OBVIOUS
    <2>1. 1 \in 1..most /\ \A n \in 1..1 : n = 1 BY <1>2
    <2>2. Pay[1] BY <1>3
    <2>3. 1 <= r BY <1>5, <2>1, <2>2
    <2> QED BY <1>6, <2>3
  <1> QED BY <1>2, <1>6, <1>7, <1>8 DEF r

-----------------------------------------------------------------------------
(* Candidates: a minute signal *)

LEMMA NearestIsRight ==
  ASSUME CandidatesTyped, engine = "minute", NEW b, b = Candidates!Candidate
  PROVE  Candidates!Nearest(b)
  <1> DEFINE reached == {c \in Strikes : \A d \in Strikes : d < c => Candidates!Passed(d)}
             takable == {c \in reached : ~Candidates!Passed(c) /\ Candidates!Taken(c)}
             c == Candidates!Min(takable)
  <1>1. b = IF takable = {} THEN Candidates!Nothing
            ELSE [contract |-> c, quantity |-> Candidates!Quantity(c)]
    BY Zenon DEF Candidates!Candidate
  <1>2. ASSUME takable # {}
        PROVE  /\ c \in Strikes /\ Candidates!Taken(c) /\ b.contract = c
               /\ b.quantity = Candidates!Quantity(c)
               /\ \A d \in Strikes : d < c => Candidates!Passed(d)
    <2>1. takable \in SUBSET Nat BY CandidateConstants
    <2> HIDE DEF takable
    <2>2. c \in takable BY <1>2, <2>1, MinIsFound
    <2>3. b = [contract |-> c, quantity |-> Candidates!Quantity(c)] BY <1>1, <1>2
    <2> HIDE DEF c
    <2> QED BY <2>2, <2>3 DEF takable
  <1>3. ASSUME NEW d \in Strikes, Candidates!Passed(d)
        PROVE  /\ offered[d].volume # Candidates!Unknown
               /\ Candidates!Wanted(d) => offered[d].depth = 0 /\ offered[d].ask # Candidates!NoAsk
    <2>1. offered[d].volume # Candidates!Unknown BY <1>3, Zenon DEF Candidates!Passed
    <2>2. ASSUME Candidates!Wanted(d)
          PROVE  offered[d].depth = 0 /\ offered[d].ask # Candidates!NoAsk
      <3>1. Candidates!Liquid(d) /\ Candidates!CanPay(d, 1) /\ Candidates!Shallow(d)
        BY <1>3, <2>2, Zenon DEF Candidates!Passed, Candidates!Wanted
      <3>2. /\ offered[d].ask # Candidates!NoAsk /\ offered[d].ask <= Candidates!MostPaid(d)
            /\ Candidates!Quantity(d) = 0
        BY <3>1, Zenon DEF Candidates!Shallow
      <3>3. ~(offered[d].depth > 0) BY <3>1, <3>2, QuantityIsFound
      <3>4. offered[d].depth \in Nat BY MinuteTyped
      <3> QED BY <3>2, <3>3, <3>4
    <2> QED BY <2>1, <2>2
  <1>4. ASSUME NEW d \in Strikes, Candidates!Taken(d)
        PROVE  Candidates!Buyable(d) /\ Candidates!CanPay(d, Candidates!Quantity(d))
    <2>1. /\ Candidates!Liquid(d) /\ Candidates!InBand(d) /\ Candidates!CanPay(d, 1)
          /\ offered[d].ask # Candidates!NoAsk /\ Candidates!Quantity(d) > 0
      BY <1>4, Zenon DEF Candidates!Taken
    <2>2. /\ Candidates!CanPay(d, Candidates!Quantity(d))
          /\ offered[d].ask <= Candidates!MostPaid(d) /\ offered[d].depth > 0
      BY <2>1, QuantityIsFound
    <2> QED BY <2>1, <2>2, Zenon DEF Candidates!Buyable, Candidates!Wanted
  <1>5. ASSUME NEW d \in Strikes, Candidates!Buyable(d)
        PROVE  Candidates!Taken(d) /\ ~Candidates!Passed(d)
    <2>1. /\ Candidates!Liquid(d) /\ Candidates!InBand(d) /\ Candidates!CanPay(d, 1)
          /\ offered[d].ask # Candidates!NoAsk /\ offered[d].ask <= Candidates!MostPaid(d)
          /\ offered[d].depth > 0
      BY <1>5, Zenon DEF Candidates!Buyable, Candidates!Wanted
    <2>2. Candidates!Quantity(d) > 0 /\ Candidates!Quantity(d) # 0 BY <2>1, QuantityIsFound
    <2>3. offered[d].volume # Candidates!Unknown
      BY <2>1, MinuteTyped DEF Candidates!Liquid, Candidates!Unknown
    <2> QED BY <2>1, <2>2, <2>3, Zenon DEF Candidates!Taken, Candidates!Passed, Candidates!Shallow
  <1>6. ASSUME b.quantity > 0
        PROVE  /\ Candidates!Buyable(b.contract) /\ Candidates!CanPay(b.contract, b.quantity)
               /\ \A d \in Strikes : d < b.contract =>
                    /\ offered[d].volume # Candidates!Unknown
                    /\ Candidates!Wanted(d) =>
                         offered[d].depth = 0 /\ offered[d].ask # Candidates!NoAsk
    <2>1. takable # {}
      <3> HIDE DEF takable, c
      <3> QED BY <1>1, <1>6 DEF Candidates!Nothing
    <2> HIDE DEF takable, c
    <2> QED BY <2>1, <1>2, <1>3, <1>4, Zenon
  <1>7. ASSUME b = Candidates!Nothing, NEW e \in Strikes, Candidates!Buyable(e),
               \A d \in Strikes :
                 d < e => ~(offered[d].volume = Candidates!Unknown \/ Candidates!Wanted(d))
        PROVE  FALSE
    <2>1. takable = {}
      <3>1. takable # {} => b.contract \in Nat \ {0} BY <1>2, CandidateConstants
      <3> HIDE DEF takable
      <3> QED BY <1>7, <3>1 DEF Candidates!Nothing
    <2>2. \A d \in Strikes : d < e => Candidates!Passed(d)
      BY <1>7, Zenon DEF Candidates!Passed, Candidates!Wanted
    <2>3. Candidates!Taken(e) /\ ~Candidates!Passed(e) BY <1>5, <1>7
    <2>4. e \in takable BY <2>2, <2>3
    <2> QED BY <2>1, <2>4
  <1> HIDE DEF takable, c
  <1> QED BY <1>6, <1>7, Zenon DEF Candidates!Nearest

-----------------------------------------------------------------------------
(* Candidates: a volatility shock *)

LEMMA OrderFees ==
  ASSUME NEW t \in Nat, NEW u \in Nat, t <= u, NEW n \in Nat
  PROVE  /\ Candidates!CeilDiv(t, Share) \in Nat
         /\ t <= Share * Candidates!CeilDiv(t, Share)
         /\ Share * Candidates!CeilDiv(t, Share) < t + Share
         /\ Candidates!Fees(t, n) \in Nat /\ Candidates!Fees(t, n) <= Candidates!Fees(u, n)
         /\ Candidates!Fees(t, 1) = OrderFee + Candidates!CeilDiv(t, Share)
  <1>1. Share \in Nat \ {0} /\ OrderFee \in Nat BY CandidateConstants
  <1> DEFINE x == (t + Share - 1) \div Share
             y == (u + Share - 1) \div Share
  <1>2. x \in Nat /\ t <= Share * x /\ Share * x < t + Share /\ x <= y BY <1>1, RoundedUp
  <1>3. y \in Nat BY <1>1, RoundedUp
  <1>4. Candidates!CeilDiv(t, Share) = x /\ Candidates!CeilDiv(u, Share) = y
    BY DEF Candidates!CeilDiv
  <1> HIDE DEF x, y
  <1>5. n * OrderFee \in Nat BY <1>1, SMT
  <1>6. Candidates!Fees(t, n) = n * OrderFee + x /\ Candidates!Fees(u, n) = n * OrderFee + y
        /\ Candidates!Fees(t, 1) = 1 * OrderFee + x
    BY <1>4, Zenon DEF Candidates!Fees
  <1>7. Candidates!Fees(t, n) \in Nat /\ Candidates!Fees(t, n) <= Candidates!Fees(u, n)
    BY <1>2, <1>3, <1>5, <1>6
  <1>8. 1 * OrderFee + x = OrderFee + x BY <1>1, <1>2
  <1> QED BY <1>2, <1>4, <1>6, <1>7, <1>8

LEMMA ShockTyped ==
  ASSUME CandidatesTyped, engine = "shock", NEW c \in Strikes
  PROVE  /\ offered[c].depth \in Nat /\ offered[c].bids \in Nat
         /\ offered[c].scenario \in Nat /\ Candidates!ShockLimit(c) \in Nat
         /\ Candidates!Highest(c) \in Nat
  <1>1. offered[c] \in Candidates!ShockQuotes BY DEF CandidatesTyped
  <1>2. /\ offered[c].ask \in Premiums \cup {0} /\ offered[c].depth \in Depths
        /\ offered[c].bids \in Depths /\ offered[c].scenario \in Scenarios
    BY <1>1 DEF Candidates!ShockQuotes, Candidates!NoAsk
  <1>3. /\ offered[c].depth \in Nat /\ offered[c].bids \in Nat
        /\ offered[c].ask \in Nat /\ offered[c].scenario \in Nat
    <2>1. Scenarios \subseteq Nat /\ Premiums \cup {0} \subseteq Nat /\ Depths \subseteq Nat
      BY CandidateConstants
    <2> QED BY <1>2, <2>1, Zenon
  <1>4. (4 * offered[c].ask) \div 1000 \in Nat
    <2>1. 4 * offered[c].ask \in Int /\ 4 * offered[c].ask \in Nat BY <1>3
    <2>2. 1000 \in Nat \ {0} OBVIOUS
    <2> QED BY <2>1, <2>2, Quotient
  <1> DEFINE part4 == (4 * offered[c].ask) \div 1000
  <1>5. Candidates!ShockLimit(c) = offered[c].ask + (IF 2 < part4 THEN 2 ELSE part4)
    BY Zenon DEF Candidates!ShockLimit, Candidates!Least
  <1> HIDE DEF part4
  <1>6. Candidates!ShockLimit(c) \in Nat BY <1>3, <1>4, <1>5 DEF part4
  <1>7. Candidates!Highest(c) \in Nat BY <1>3, <1>6 DEF Candidates!Highest
  <1> QED BY <1>3, <1>6, <1>7

LEMMA LessIsAfforded ==
  ASSUME CandidatesTyped, engine = "shock", NEW c \in Strikes,
         NEW n \in Nat, NEW q \in Nat, n <= q, Candidates!Affords(c, q)
  PROVE  Candidates!Affords(c, n)
  <1> DEFINE L == Candidates!ShockLimit(c)
             H == Candidates!Highest(c)
             entry == Candidates!EntryCash(n, L)
             Entry == Candidates!EntryCash(q, L)
             hold == Candidates!Reserve(c, n)
             Hold == Candidates!Reserve(c, q)
  <1>1. L \in Nat /\ H \in Nat /\ budget \in Nat BY ShockTyped DEF CandidatesTyped
  <1>2. entry = n * L + Candidates!Fees(n * L, 1) /\ Entry = q * L + Candidates!Fees(q * L, 1)
    BY Zenon DEF Candidates!EntryCash
  <1>3. hold = Candidates!Fees(n * H, 3) /\ Hold = Candidates!Fees(q * H, 3)
    BY Zenon DEF Candidates!Reserve
  <1>4. /\ Candidates!Affords(c, n) <=> entry + hold <= budget
        /\ Candidates!Affords(c, q) <=> Entry + Hold <= budget
    BY Zenon DEF Candidates!Affords
  <1> HIDE DEF L, H, entry, Entry, hold, Hold
  <1>5. /\ n * L \in Nat /\ q * L \in Nat /\ n * L <= q * L
        /\ n * H \in Nat /\ q * H \in Nat /\ n * H <= q * H
    <2>1. L <= L /\ H <= H BY <1>1
    <2> QED BY <1>1, <2>1, ProductMonotonic
  <1>6. /\ Candidates!Fees(n * L, 1) \in Nat /\ Candidates!Fees(n * L, 1) <= Candidates!Fees(q * L, 1)
        /\ Candidates!Fees(n * H, 3) \in Nat /\ Candidates!Fees(n * H, 3) <= Candidates!Fees(q * H, 3)
    <2>1. 1 \in Nat /\ 3 \in Nat OBVIOUS
    <2> QED BY <1>5, <2>1, OrderFees
  <1>7. Candidates!Fees(q * L, 1) \in Nat /\ Candidates!Fees(q * H, 3) \in Nat
    <2>1. 1 \in Nat /\ 3 \in Nat /\ q * L <= q * L /\ q * H <= q * H BY <1>5
    <2> QED BY <1>5, <2>1, OrderFees
  <1>8. entry \in Nat /\ Entry \in Nat /\ entry <= Entry
    <2>1. n * L + Candidates!Fees(n * L, 1) <= q * L + Candidates!Fees(q * L, 1)
      BY <1>5, <1>6, <1>7
    <2> QED BY <1>2, <1>5, <1>6, <1>7, <2>1
  <1>9. hold \in Nat /\ Hold \in Nat /\ hold <= Hold BY <1>3, <1>6, <1>7
  <1>10. Entry + Hold <= budget BY <1>4
  <1>11. entry + hold <= budget BY <1>1, <1>8, <1>9, <1>10
  <1> QED BY <1>4, <1>11

LEMMA ShockQuantityIsFound ==
  ASSUME CandidatesTyped, engine = "shock", NEW c \in Strikes
  PROVE  /\ Candidates!ShockQuantity(c) \in Nat
         /\ \A q \in 1..FreezeLots :
              q <= offered[c].depth /\ q <= offered[c].bids /\ Candidates!Affords(c, q)
                => q <= Candidates!ShockQuantity(c)
  <1> DEFINE most == Candidates!ShockCapacity(c)
             Pay == [n \in Nat |-> Candidates!Affords(c, n)]
             r == Candidates!ShockQuantity(c)
  <1>1. /\ most \in Nat
        /\ \A q \in 1..FreezeLots : q <= offered[c].depth /\ q <= offered[c].bids => q <= most
    <2>1. FreezeLots \in Nat BY CandidateConstants
    <2>2. offered[c].depth \in Nat /\ offered[c].bids \in Nat BY ShockTyped
    <2> QED BY <2>1, <2>2 DEF Candidates!ShockCapacity, Candidates!Least
  <1> HIDE DEF most
  <1>2. \A n \in Nat : Pay[n] <=> Candidates!Affords(c, n) BY Zenon
  <1>3. r = Candidates!Max({0} \cup {q \in 1..most : \A n \in 1..q : Pay[n]})
    <2>1. \A q \in 1..most : (\A n \in 1..q : Pay[n]) <=> \A n \in 1..q : Candidates!Affords(c, n)
      <3> HIDE DEF Pay
      <3>1. \A q \in 1..most : \A n \in 1..q : n \in Nat BY <1>1
      <3> QED BY <1>2, <3>1, Zenon
    <2>2. {q \in 1..most : \A n \in 1..q : Candidates!Affords(c, n)}
            = {q \in 1..most : \A n \in 1..q : Pay[n]}
      <3> HIDE DEF Pay
      <3> QED BY <2>1
    <2> QED BY <2>2, Zenon DEF Candidates!ShockQuantity, most
  <1> HIDE DEF r, Pay
  <1>4. /\ r \in 0..most
        /\ \A q \in 1..most : (\A n \in 1..q : Pay[n]) => q <= r
    BY <1>1, <1>3, LargestPayable
  <1>5. ASSUME NEW q \in 1..FreezeLots, q <= offered[c].depth, q <= offered[c].bids,
               Candidates!Affords(c, q)
        PROVE  q <= r
    <2>1. FreezeLots \in Nat BY CandidateConstants
    <2>2. q \in 1..most /\ q \in Nat BY <1>1, <1>5, <2>1
    <2>3. ASSUME NEW n \in 1..q PROVE Pay[n]
      <3>1. n \in Nat /\ n <= q BY <2>2
      <3>2. Candidates!Affords(c, n) BY <1>5, <2>2, <3>1, LessIsAfforded
      <3> QED BY <1>2, <3>1, <3>2
    <2> QED BY <1>4, <2>2, <2>3
  <1>6. r \in Nat BY <1>1, <1>4
  <1> QED BY <1>5, <1>6 DEF r

LEMMA EndingIsWhole ==
  ASSUME CandidatesTyped, engine = "shock", NEW c \in Strikes, NEW q \in Nat
  PROVE  Candidates!Ending(c, q) \in Int
  <1> DEFINE L == Candidates!ShockLimit(c)
             S == offered[c].scenario
  <1>1. L \in Nat /\ S \in Nat /\ budget \in Nat BY ShockTyped DEF CandidatesTyped
  <1>2. Candidates!Ending(c, q)
          = budget - (q * L + Candidates!Fees(q * L, 1)) + (q * S - Candidates!Fees(q * S, 1))
    BY Zenon DEF Candidates!Ending, Candidates!EntryCash, Candidates!Proceeds
  <1> HIDE DEF L, S
  <1>3. q * L \in Nat /\ q * S \in Nat BY <1>1, SMT
  <1>4. Candidates!Fees(q * L, 1) \in Nat /\ Candidates!Fees(q * S, 1) \in Nat
    <2>1. 1 \in Nat /\ q * L <= q * L /\ q * S <= q * S BY <1>3
    <2> QED BY <1>3, <2>1, OrderFees
  <1> QED BY <1>1, <1>2, <1>3, <1>4

\* What pays of a contract pays more of it.
LEMMA MoreEndsBetter ==
  ASSUME CandidatesTyped, engine = "shock", NEW c \in Strikes,
         NEW q \in 1..FreezeLots, NEW r \in Nat, q <= r, Candidates!Pays(c, q)
  PROVE  Candidates!Pays(c, r) /\ Candidates!Ending(c, q) <= Candidates!Ending(c, r)
  <1> DEFINE L == Candidates!ShockLimit(c)
             S == offered[c].scenario
             a == Candidates!CeilDiv(q * L, Share)
             z == Candidates!CeilDiv(q * S, Share)
             A == Candidates!CeilDiv(r * L, Share)
             Z == Candidates!CeilDiv(r * S, Share)
             F(n) == Candidates!Fees(n, 1)
  <1>1. L \in Nat /\ S \in Nat /\ budget \in Nat BY ShockTyped DEF CandidatesTyped
  <1>2. /\ Share \in Nat \ {0} /\ OrderFee \in Nat /\ FreezeLots \in Nat
        /\ q \in Nat \ {0} /\ q <= OrderFee
    BY CandidateConstants
  <1>3. CASE q = r
    <2>1. Candidates!Ending(c, q) \in Int BY <1>2, EndingIsWhole
    <2> QED BY <1>3, <2>1
  <1>4. CASE q < r
    <2>1. /\ Candidates!Pays(c, q) <=>
               /\ 10 * (q * S - F(q * S)) >= 18 * (q * L + F(q * L))
               /\ q * (S - L) >= 3 * (F(q * L) + F(q * S))
          /\ Candidates!Pays(c, r) <=>
               /\ 10 * (r * S - F(r * S)) >= 18 * (r * L + F(r * L))
               /\ r * (S - L) >= 3 * (F(r * L) + F(r * S))
      BY Zenon DEF Candidates!Pays, Candidates!EntryCash, Candidates!Proceeds, Candidates!Charges
    <2>2. /\ Candidates!Ending(c, q) = budget - (q * L + F(q * L)) + (q * S - F(q * S))
          /\ Candidates!Ending(c, r) = budget - (r * L + F(r * L)) + (r * S - F(r * S))
      BY Zenon DEF Candidates!Ending, Candidates!EntryCash, Candidates!Proceeds
    <2> HIDE DEF L, S
    <2>3. q * L \in Nat /\ q * S \in Nat /\ r * L \in Nat /\ r * S \in Nat BY <1>1, <1>2, SMT
    <2>4. /\ a \in Nat /\ q * L <= Share * a /\ F(q * L) = OrderFee + a
          /\ z \in Nat /\ q * S <= Share * z /\ F(q * S) = OrderFee + z
          /\ A \in Nat /\ Share * A < r * L + Share /\ F(r * L) = OrderFee + A
          /\ Z \in Nat /\ Share * Z < r * S + Share /\ F(r * S) = OrderFee + Z
      <3>1. 1 \in Nat /\ q * L <= q * L /\ q * S <= q * S /\ r * L <= r * L /\ r * S <= r * S
        BY <2>3
      <3> QED BY <2>3, <3>1, OrderFees
    <2> HIDE DEF a, z, A, Z
    <2>5. /\ 10 * (q * S - F(q * S)) >= 18 * (q * L + F(q * L))
          /\ q * (S - L) >= 3 * (F(q * L) + F(q * S))
      BY <2>1, Zenon
    <2>6. /\ 10 * (q * S - (OrderFee + z)) >= 18 * (q * L + (OrderFee + a))
          /\ q * (S - L) >= 3 * ((OrderFee + a) + (OrderFee + z))
      BY <2>4, <2>5, Zenon
    <2>7. /\ 10 * (r * S - (OrderFee + Z)) >= 18 * (r * L + (OrderFee + A))
          /\ r * (S - L) >= 3 * ((OrderFee + A) + (OrderFee + Z))
          /\ q * S - q * L - (OrderFee + a) - (OrderFee + z)
               <= r * S - r * L - (OrderFee + A) - (OrderFee + Z)
      BY <1>1, <1>2, <1>4, <2>4, <2>6, MorePays
    <2>8. Candidates!Pays(c, r) BY <2>1, <2>4, <2>7, Zenon
    <2>9. /\ Candidates!Ending(c, q) = budget - (q * L + (OrderFee + a)) + (q * S - (OrderFee + z))
          /\ Candidates!Ending(c, r) = budget - (r * L + (OrderFee + A)) + (r * S - (OrderFee + Z))
      BY <2>2, <2>4, Zenon
    <2>10. Candidates!Ending(c, q) <= Candidates!Ending(c, r)
      <3> DEFINE qL == q * L
                 qS == q * S
                 rL == r * L
                 rS == r * S
      <3>1. qL \in Nat /\ qS \in Nat /\ rL \in Nat /\ rS \in Nat BY <2>3
      <3>2. /\ Candidates!Ending(c, q) = budget - (qL + (OrderFee + a)) + (qS - (OrderFee + z))
            /\ Candidates!Ending(c, r) = budget - (rL + (OrderFee + A)) + (rS - (OrderFee + Z))
            /\ qS - qL - (OrderFee + a) - (OrderFee + z) <= rS - rL - (OrderFee + A) - (OrderFee + Z)
        BY <2>7, <2>9
      <3> HIDE DEF qL, qS, rL, rS
      <3> QED BY <1>1, <1>2, <2>4, <3>1, <3>2
    <2> QED BY <2>8, <2>10
  <1> QED BY <1>2, <1>3, <1>4

LEMMA MostIsRight ==
  ASSUME CandidatesTyped, engine = "shock", NEW b,
         IF Candidates!ShockCandidates = {} THEN b = Candidates!Nothing
         ELSE \E c \in Candidates!ShockCandidates :
                Candidates!EndsBest(c)
                /\ b = [contract |-> c, quantity |-> Candidates!ShockQuantity(c)]
  PROVE  Candidates!EndsWithMost(b)
  <1> SUFFICES ASSUME NEW c \in Strikes, NEW q \in 1..FreezeLots,
                      offered[c].ask # Candidates!NoAsk, Candidates!ShockLimit(c) <= Ceiling,
                      q <= offered[c].depth, q <= offered[c].bids,
                      Candidates!Affords(c, q), Candidates!Pays(c, q)
               PROVE  /\ b.quantity > 0
                      /\ Candidates!Ending(c, q) <= Candidates!Ending(b.contract, b.quantity)
    BY Zenon DEF Candidates!EndsWithMost
  <1> DEFINE r == Candidates!ShockQuantity(c)
  <1>1. r \in Nat /\ q <= r BY ShockQuantityIsFound
  <1>2. q \in Nat /\ q > 0 /\ r > 0 BY <1>1, CandidateConstants
  <1>3. Candidates!Pays(c, r) /\ Candidates!Ending(c, q) <= Candidates!Ending(c, r)
    BY <1>1, MoreEndsBetter
  <1>4. c \in Candidates!ShockCandidates BY <1>2, <1>3, Zenon DEF Candidates!ShockCandidates
  <1>5. PICK d \in Candidates!ShockCandidates :
          /\ Candidates!EndsBest(d)
          /\ b = [contract |-> d, quantity |-> Candidates!ShockQuantity(d)]
    BY <1>4, Zenon
  <1>6. d \in Strikes /\ Candidates!ShockQuantity(d) > 0
    BY <1>5, Zenon DEF Candidates!ShockCandidates
  <1>7. b.contract = d /\ b.quantity = Candidates!ShockQuantity(d) BY <1>5
  <1>8. Candidates!Ending(c, r) <= Candidates!Ending(d, Candidates!ShockQuantity(d))
    BY <1>4, <1>5, Zenon DEF Candidates!EndsBest
  <1>9. /\ Candidates!Ending(c, q) \in Int /\ Candidates!Ending(c, r) \in Int
        /\ Candidates!Ending(d, Candidates!ShockQuantity(d)) \in Int
    <2>1. Candidates!ShockQuantity(d) \in Nat BY <1>6, ShockQuantityIsFound
    <2> QED BY <1>1, <1>2, <1>6, <2>1, EndingIsWhole
  <1>10. Candidates!Ending(c, q) <= Candidates!Ending(d, Candidates!ShockQuantity(d))
    BY <1>3, <1>8, <1>9
  <1> QED BY <1>6, <1>7, <1>10

-----------------------------------------------------------------------------
(* Candidates: the invariant *)

Offer == <<engine, budget, offered>>

RightCandidate(b) ==
  IF engine = "minute" THEN Candidates!Nearest(b) ELSE Candidates!EndsWithMost(b)

CandidatesInv ==
  part = "selection" =>
    CandidatesTyped /\ (taken = Candidates!Undecided \/ \E b : b = taken /\ RightCandidate(b))

LEMMA CandidatesRight == part = "selection" /\ CandidatesInv => Candidates!CandidateIsRight
  <1> SUFFICES ASSUME part = "selection", CandidatesInv PROVE Candidates!CandidateIsRight
    OBVIOUS
  <1>1. engine \in {"minute", "shock"} BY DEF CandidatesInv, CandidatesTyped
  <1>2. taken = Candidates!Undecided \/ RightCandidate(taken)
    BY DEF CandidatesInv
  <1>3. CASE taken = Candidates!Undecided
    <2>1. ~(taken.quantity > 0) /\ taken # Candidates!Nothing
      BY <1>3 DEF Candidates!Undecided, Candidates!Nothing
    <2>2. Candidates!Nearest(taken) BY <2>1, Zenon DEF Candidates!Nearest
    <2> QED BY <1>3, <2>2, Zenon
         DEF Candidates!CandidateIsRight, Candidates!NearestIsTaken, Candidates!MostIsTaken
  <1>4. CASE RightCandidate(taken)
    BY <1>1, <1>4
    DEF RightCandidate, Candidates!CandidateIsRight, Candidates!NearestIsTaken,
        Candidates!MostIsTaken
  <1> QED BY <1>2, <1>3, <1>4

LEMMA CandidatesStart == Start => CandidatesInv
  <1> SUFFICES ASSUME Start, part = "selection"
               PROVE  CandidatesTyped /\ taken = Candidates!Undecided
    BY DEF CandidatesInv
  <1>1. Candidates!Init BY DEF Start
  <1>2. budget \in Nat BY <1>1, CandidateConstants DEF Candidates!Init
  <1> QED BY <1>1, <1>2 DEF Candidates!Init, CandidatesTyped

\* What is said of a candidate is about the offer only.
LEMMA SameOffer ==
  ASSUME UNCHANGED Offer, NEW b
  PROVE  /\ CandidatesTyped <=> CandidatesTyped'
         /\ RightCandidate(b) <=> RightCandidate(b)'
  <1>1. engine' = engine /\ budget' = budget /\ offered' = offered BY DEF Offer
  <1>2. CandidatesTyped <=> CandidatesTyped' BY <1>1, Zenon DEF CandidatesTyped
  <1>3. \A c : Candidates!MostPaid(c)' = Candidates!MostPaid(c)
    BY <1>1, Zenon DEF Candidates!MostPaid
  <1>4. \A c, q : Candidates!CanPay(c, q)' <=> Candidates!CanPay(c, q)
    BY <1>1, <1>3, Zenon DEF Candidates!CanPay
  <1>5. \A c : Candidates!Wanted(c)' <=> Candidates!Wanted(c)
    BY <1>1, <1>3, <1>4, Zenon DEF Candidates!Wanted, Candidates!Liquid, Candidates!InBand
  <1>6. \A c : Candidates!Buyable(c)' <=> Candidates!Buyable(c)
    BY <1>1, <1>3, <1>5, Zenon DEF Candidates!Buyable
  <1>7. Candidates!Nearest(b) <=> Candidates!Nearest(b)'
    BY <1>1, <1>4, <1>5, <1>6, Zenon DEF Candidates!Nearest
  <1>8. \A c : Candidates!ShockLimit(c)' = Candidates!ShockLimit(c)
    BY <1>1, Zenon DEF Candidates!ShockLimit
  <1>9. \A c, q : Candidates!Affords(c, q)' <=> Candidates!Affords(c, q)
    <2>1. \A c, q : Candidates!Reserve(c, q)' = Candidates!Reserve(c, q)
      <3>1. \A c : Candidates!Highest(c)' = Candidates!Highest(c)
        BY <1>1, <1>8, Zenon DEF Candidates!Highest
      <3> QED BY <3>1, Zenon DEF Candidates!Reserve
    <2> QED BY <1>1, <1>8, <2>1, Zenon DEF Candidates!Affords
  <1>10. \A c, q : Candidates!Proceeds(c, q)' = Candidates!Proceeds(c, q)
    BY <1>1, Zenon DEF Candidates!Proceeds
  <1>11. \A c, q : Candidates!Pays(c, q)' <=> Candidates!Pays(c, q)
    <2>1. \A c, q : Candidates!Charges(c, q)' = Candidates!Charges(c, q)
      BY <1>1, <1>8, Zenon DEF Candidates!Charges
    <2> QED BY <1>1, <1>8, <1>10, <2>1, Zenon DEF Candidates!Pays
  <1>12. \A c, q : Candidates!Ending(c, q)' = Candidates!Ending(c, q)
    BY <1>1, <1>8, <1>10, Zenon DEF Candidates!Ending
  <1>13. Candidates!EndsWithMost(b) <=> Candidates!EndsWithMost(b)'
    BY <1>1, <1>8, <1>9, <1>11, <1>12, Zenon DEF Candidates!EndsWithMost
  <1>14. RightCandidate(b) <=> RightCandidate(b)'
    BY <1>1, <1>7, <1>13, Zenon DEF RightCandidate
  <1> QED BY <1>2, <1>14

LEMMA CandidatesNext ==
  ASSUME CandidatesInv, [Step]_everything
  PROVE  CandidatesInv'
  <1> SUFFICES ASSUME part' = "selection"
               PROVE  /\ CandidatesTyped'
                      /\ taken' = Candidates!Undecided \/ \E b : b = taken' /\ RightCandidate(b)'
    BY DEF CandidatesInv
  <1>1. part = "selection" /\ (Candidates!Next \/ UNCHANGED selection)
    BY DEF Step, everything
  <1>2. CandidatesTyped /\ (taken = Candidates!Undecided \/ \E b : b = taken /\ RightCandidate(b))
    BY <1>1 DEF CandidatesInv
  <1>3. UNCHANGED Offer BY <1>1 DEF selection, Offer, Candidates!Next
  <1>4. CandidatesTyped' BY <1>2, <1>3, SameOffer
  <1>5. CASE UNCHANGED selection
    <2>1. taken' = taken BY <1>5 DEF selection
    <2>2. ASSUME NEW b, b = taken, RightCandidate(b) PROVE b = taken' /\ RightCandidate(b)'
      BY <1>3, <2>1, <2>2, SameOffer
    <2> QED BY <1>2, <1>4, <2>1, <2>2
  <1>6. CASE Candidates!Next
    <2>1. PICK b : b = taken' OBVIOUS
    <2>2. RightCandidate(b)
      <3>1. CASE engine = "minute"
        <4>1. b = Candidates!Candidate BY <1>6, <2>1, <3>1 DEF Candidates!Next
        <4> QED BY <1>2, <3>1, <4>1, NearestIsRight DEF RightCandidate
      <3>2. CASE engine = "shock"
        <4>1. IF Candidates!ShockCandidates = {} THEN b = Candidates!Nothing
              ELSE \E c \in Candidates!ShockCandidates :
                     Candidates!EndsBest(c)
                     /\ b = [contract |-> c, quantity |-> Candidates!ShockQuantity(c)]
          BY <1>6, <2>1, <3>2 DEF Candidates!Next
        <4>2. Candidates!EndsWithMost(b) BY <1>2, <3>2, <4>1, MostIsRight
        <4> QED BY <3>2, <4>2 DEF RightCandidate
      <3> QED BY <1>2, <3>1, <3>2 DEF CandidatesTyped
    <2>3. RightCandidate(b)' BY <1>3, <2>2, SameOffer
    <2> QED BY <1>4, <2>1, <2>3
  <1> QED BY <1>1, <1>5, <1>6

-----------------------------------------------------------------------------
(* Sizing and Candidates *)

\* What is bought is whole lots, below the price they are sold at, and no more than the
\* depth, the allowance and the cash bear, fees included; the bisection misses no larger
\* size at that limit (strategy.py 107-191, risk.py 66-147), and the seconds ceiling is the
\* highest tick that pays (seconds_strategies.py 75-140). A minute signal takes the nearest
\* contract that can be bought (directional.py 105-174), and a shock the one that ends with
\* the most cash (volatility_shock.py 182-250).
THEOREM SizedWithinMeansHolds == Operations => []SizedWithinMeans
  <1>1. Start => SizingInv /\ CandidatesInv BY SizingStart, CandidatesStart
  <1>2. SizingInv /\ CandidatesInv /\ [Step]_everything => SizingInv' /\ CandidatesInv'
    BY SizingNext, CandidatesNext
  <1>3. SizingInv /\ CandidatesInv => SizedWithinMeans
    BY SizedRight, CandidatesRight, Zenon DEF SizedWithinMeans
  <1> QED BY <1>1, <1>2, <1>3, PTL DEF Operations

=============================================================================
