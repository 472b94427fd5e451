----------------------------- MODULE RecordsProofs -----------------------------
(* What is proved of the records, for every value of their constants: that the *)
(* two logs hold what was received, in order (Recorder), and that what is      *)
(* remembered of the days happened and is not forgotten (Memory).              *)
EXTENDS MCOperations, Sums, SequenceTheorems, TLAPS

-----------------------------------------------------------------------------
(* Rows and the ids that wait to be written after them *)

\* A sequence of which each element is larger than the one before.
Rises(s) == \A i, j \in DOMAIN s : i < j => s[j] - s[i] >= j - i

\* What may be written next, after the rows of a log: a are the ids that wait for it and the
\* next one, st the session, and n the number of the last row of the journal.
WrittenRow == [start : Nat, id : Nat, serial : Nat]
Ordered(rows, log) ==
  \A i, j \in DOMAIN rows :
    i < j /\ rows[i].start = rows[j].start /\ rows[j].start > 0 =>
      /\ rows[i].id < rows[j].id
      /\ log = "capture" => rows[j].serial - rows[i].serial \in 1..(rows[j].id - rows[i].id)
Follows(a, row, n, log) ==
  \A i \in DOMAIN a :
    /\ a[i] - row.id >= i
    /\ log = "capture" => row.serial <= n /\ a[i] - row.id >= n + i - row.serial
Fits(rows, a, st, n, log) ==
  /\ Rises(a)
  /\ Ordered(rows, log)
  /\ \A k \in DOMAIN rows :
       /\ rows[k].start <= st
       /\ rows[k].start = st => Follows(a, rows[k], n, log)

LEMMA WrittenRowOf ==
  ASSUME NEW rows \in Seq(WrittenRow), NEW k \in DOMAIN rows
  PROVE  rows[k].start \in Nat /\ rows[k].id \in Nat /\ rows[k].serial \in Nat
  <1>1. rows[k] \in WrittenRow OBVIOUS
  <1> QED BY <1>1 DEF WrittenRow

LEMMA IdOf ==
  ASSUME NEW a \in Seq(Nat), NEW i \in DOMAIN a
  PROVE  i \in Nat /\ a[i] \in Nat
  OBVIOUS

\* x comes later than y, and y than z.
LEMMA GapsAdd ==
  ASSUME NEW x \in Nat, NEW y \in Nat, NEW z \in Nat, NEW i \in Nat, NEW j \in Nat, NEW n \in Nat,
         x - y >= i + n - j
  PROVE  /\ y - z >= j => x - z >= i
         /\ \A m, r \in Nat : r <= m /\ y - z >= m + j - r =>
              r <= m + n /\ x - z >= m + n + i - r
         /\ \A m, l \in Nat : l <= n /\ y - z >= j - l =>
              x - z >= i /\ m + l <= m + n /\ x - z >= m + n + i - (m + l)
  OBVIOUS

\* The i-th id that waits, after a row and its number.
LEMMA NextInOrder ==
  ASSUME NEW x \in Nat, NEW y \in Nat, NEW r \in Nat, NEW m \in Nat, NEW i \in Nat, i > 0, x - y >= i
  PROVE  y < x /\ (r <= m /\ x - y >= m + i - r => (m + i) - r \in 1..(x - y))
  OBVIOUS

LEMMA BothInOrder ==
  ASSUME NEW x \in Nat, NEW y \in Nat, NEW m \in Nat, NEW i \in Nat, NEW j \in Nat, i < j,
         x - y >= j - i
  PROVE  y < x /\ (m + j) - (m + i) \in 1..(x - y)
  OBVIOUS

LEMMA SequenceIsFunction ==
  ASSUME NEW S, NEW s \in Seq(S)
  PROVE  s \in [1..Len(s) -> S] /\ Len(s) \in Nat
  OBVIOUS

LEMMA FitsOnStart ==
  ASSUME NEW rows \in Seq(WrittenRow), NEW log, NEW st \in Nat, Ordered(rows, log),
         \A k \in DOMAIN rows : rows[k].start <= st
  PROVE  Fits(rows, <<1>>, st + 1, 0, log)
  <1>1. Rises(<<1>>) BY DEF Rises
  <1>2. \A k \in DOMAIN rows : rows[k].start \in Nat BY WrittenRowOf
  <1> QED BY <1>1, <1>2 DEF Fits

\* The waiting are written or lost up to the n-th, and others come behind.
LEMMA FitsLater ==
  ASSUME NEW rows \in Seq(WrittenRow), NEW a \in Seq(Nat), NEW st \in Nat, NEW m \in Nat,
         NEW log, Fits(rows, a, st, m, log),
         NEW n \in Nat, NEW b \in Seq(Nat), Rises(b),
         \A i \in DOMAIN b : \E j \in DOMAIN a : j > n /\ b[i] - a[j] >= i + n - j
  PROVE  Fits(rows, b, st, m + n, log)
  <1> SUFFICES ASSUME NEW k \in DOMAIN rows, rows[k].start = st
               PROVE  Follows(b, rows[k], m + n, log)
    BY DEF Fits
  <1>1. rows[k].id \in Nat /\ rows[k].serial \in Nat BY WrittenRowOf
  <1>2. Follows(a, rows[k], m, log) BY DEF Fits
  <1> SUFFICES ASSUME NEW i \in DOMAIN b
               PROVE  /\ b[i] - rows[k].id >= i
                      /\ log = "capture" => /\ rows[k].serial <= m + n
                                     /\ b[i] - rows[k].id >= m + n + i - rows[k].serial
    BY DEF Follows
  <1>3. PICK j \in DOMAIN a : j > n /\ b[i] - a[j] >= i + n - j OBVIOUS
  <1>4. a[j] \in Nat /\ b[i] \in Nat /\ i \in Nat /\ j \in Nat BY IdOf
  <1>5. /\ a[j] - rows[k].id >= j
        /\ log = "capture" => rows[k].serial <= m /\ a[j] - rows[k].id >= m + j - rows[k].serial
    BY <1>2 DEF Follows
  <1> DEFINE id == rows[k].id
             number == rows[k].serial
  <1>6. id \in Nat /\ number \in Nat BY <1>1
  <1> HIDE DEF id, number
  <1>7. /\ a[j] - id >= j
        /\ log = "capture" => number <= m /\ a[j] - id >= m + j - number BY <1>5 DEF id, number
  <1> HIDE <1>1, <1>2, <1>5
  <1> DEFINE x == b[i]
             y == a[j]
  <1>9. x \in Nat /\ y \in Nat /\ i \in Nat /\ j \in Nat /\ j > n /\ x - y >= i + n - j
    BY <1>3, <1>4
  <1>10. y - id >= j /\ (log = "capture" => number <= m /\ y - id >= m + j - number) BY <1>7
  <1> HIDE DEF x, y
  <1>11. x - id >= i /\ (log = "capture" => number <= m + n /\ x - id >= m + n + i - number)
    BY <1>6, <1>9, <1>10, GapsAdd
  <1>8. /\ b[i] - id >= i
        /\ log = "capture" => number <= m + n /\ b[i] - id >= m + n + i - number
    BY <1>11 DEF x
  <1> QED BY <1>8 DEF id, number

\* The first n that wait are written.
IsWritten(rows, new, a, st, m, log) ==
  /\ new \in Seq(WrittenRow)
  /\ \A i \in DOMAIN new :
       /\ i \in DOMAIN a
       /\ new[i].start = st /\ new[i].id = a[i]
       /\ log = "capture" => new[i].serial = m + i

LEMMA FitsWritten ==
  ASSUME NEW rows \in Seq(WrittenRow), NEW a \in Seq(Nat), NEW st \in Nat, NEW m \in Nat,
         NEW log, Fits(rows, a, st, m, log),
         NEW new \in Seq(WrittenRow), IsWritten(rows, new, a, st, m, log),
         NEW b \in Seq(Nat), Rises(b),
         \A i \in DOMAIN b : \E j \in DOMAIN a : j > Len(new) /\ b[i] - a[j] >= i + Len(new) - j
  PROVE  Fits(rows \o new, b, st, m + Len(new), log)
  <1> DEFINE n == Len(new)
             all == rows \o new
  <1>1. n \in Nat /\ DOMAIN new = 1..n OBVIOUS
  <1>2. Fits(rows, b, st, m + n, log) BY <1>1, FitsLater
  <1>3. /\ all \in Seq(WrittenRow) /\ DOMAIN all = 1..(Len(rows) + n) /\ Len(rows) \in Nat
        /\ DOMAIN rows = 1..Len(rows)
        /\ \A k \in 1..Len(rows) : all[k] = rows[k]
        /\ \A i \in 1..n : all[Len(rows) + i] = new[i]
        /\ \A k \in DOMAIN all : k \in 1..Len(rows) \/ \E i \in 1..n : k = Len(rows) + i
    <2>1. /\ all \in Seq(WrittenRow) /\ DOMAIN all = 1..(Len(rows) + n) /\ Len(rows) \in Nat
          /\ DOMAIN rows = 1..Len(rows)
          /\ \A k \in 1..Len(rows) : all[k] = rows[k]
          /\ \A i \in 1..n : all[Len(rows) + i] = new[i]
      BY <1>1
    <2>2. ASSUME NEW k \in 1..(Len(rows) + n), k \notin 1..Len(rows)
          PROVE  \E i \in 1..n : k = Len(rows) + i
      <3>1. k - Len(rows) \in 1..n /\ k = Len(rows) + (k - Len(rows)) BY <1>1, <2>1, <2>2
      <3> QED BY <3>1
    <2> QED BY <2>1, <2>2
  <1>4. ASSUME NEW i \in 1..n
        PROVE  /\ new[i].start = st /\ new[i].id = a[i] /\ a[i] \in Nat /\ i \in DOMAIN a
               /\ new[i].id \in Nat /\ new[i].serial \in Nat
               /\ log = "capture" => new[i].serial = m + i
    <2>1. i \in DOMAIN new BY <1>1, <1>4
    <2>2. new[i].id \in Nat /\ new[i].serial \in Nat BY <2>1, WrittenRowOf
    <2>3. /\ i \in DOMAIN a /\ new[i].start = st /\ new[i].id = a[i]
          /\ log = "capture" => new[i].serial = m + i
      BY <2>1 DEF IsWritten
    <2> QED BY <2>2, <2>3, IdOf
  <1>5. \A i, j \in DOMAIN a : i < j => a[j] - a[i] >= j - i BY DEF Fits, Rises
  <1>6. ASSUME NEW l \in 1..n PROVE Follows(b, new[l], m + n, log)
    <2> SUFFICES ASSUME NEW i \in DOMAIN b
                 PROVE  /\ b[i] - a[l] >= i
                        /\ log = "capture" => m + l <= m + n /\ b[i] - a[l] >= m + n + i - (m + l)
      BY <1>4, <1>6 DEF Follows
    <2>1. PICK j \in DOMAIN a : j > n /\ b[i] - a[j] >= i + n - j OBVIOUS
    <2>5. a[j] \in Nat /\ b[i] \in Nat /\ i \in Nat /\ j \in Nat /\ l \in Nat BY <1>6, IdOf
    <2>2. a[j] \in Nat /\ b[i] \in Nat /\ i \in Nat /\ j \in Nat /\ l \in Nat /\ l < j
      BY <1>1, <1>6, <2>1, <2>5
    <2>3. a[j] - a[l] >= j - l BY <1>4, <1>5, <1>6, <2>2
    <2>4. a[l] \in Nat BY <1>4, <1>6
    <2>7. l <= n BY <1>1, <1>6
    <2> DEFINE x == b[i]
               y == a[j]
               z == a[l]
    <2>8. /\ x \in Nat /\ y \in Nat /\ z \in Nat /\ x - y >= i + n - j /\ y - z >= j - l
      BY <1>1, <2>1, <2>2, <2>3, <2>4
    <2> HIDE DEF x, y, z, n
    <2>9. n \in Nat BY <1>1
    <2>6. x - z >= i /\ m + l <= m + n /\ x - z >= m + n + i - (m + l)
      BY <2>2, <2>7, <2>8, <2>9, GapsAdd
    <2> QED BY <2>6 DEF x, z
  <1>7. \A k \in DOMAIN all :
          all[k].start <= st /\ (all[k].start = st => Follows(b, all[k], m + n, log))
    <2> SUFFICES ASSUME NEW k \in DOMAIN all
                 PROVE  all[k].start <= st /\ (all[k].start = st => Follows(b, all[k], m + n, log))
      OBVIOUS
    <2>1. CASE k \in 1..Len(rows)
      <3>1. k \in DOMAIN rows /\ all[k] = rows[k] BY <1>3, <2>1
      <3> HIDE DEF all
      <3> QED BY <3>1, <1>2 DEF Fits
    <2>2. CASE k \notin 1..Len(rows)
      <3>1. PICK i \in 1..n : k = Len(rows) + i BY <1>3, <2>2
      <3>2. all[k] = new[i] BY <1>3, <3>1
      <3> HIDE DEF all
      <3> QED BY <3>2, <1>4, <1>6
    <2> QED BY <2>1, <2>2
  <1>8. Ordered(all, log)
    <2> SUFFICES ASSUME NEW k \in DOMAIN all, NEW l \in DOMAIN all, k < l,
                        all[k].start = all[l].start, all[l].start > 0
                 PROVE  /\ all[k].id < all[l].id
                        /\ log = "capture" =>
                             all[l].serial - all[k].serial \in 1..(all[l].id - all[k].id)
      BY DEF Ordered
    <2>1. CASE l \in 1..Len(rows)
      <3>1. k \in DOMAIN rows /\ l \in DOMAIN rows /\ all[k] = rows[k] /\ all[l] = rows[l]
        BY <1>3, <2>1
      <3> HIDE DEF all
      <3> QED BY <3>1 DEF Fits, Ordered
    <2>2. CASE l \notin 1..Len(rows) /\ k \in 1..Len(rows)
      <3>1. PICK i \in 1..n : l = Len(rows) + i BY <1>3, <2>2
      <3>2. all[l] = new[i] /\ all[k] = rows[k] /\ k \in DOMAIN rows BY <1>3, <2>2, <3>1
      <3> HIDE DEF all
      <3>3. rows[k].start = st BY <1>4, <3>2
      <3>4. Follows(a, rows[k], m, log) BY <3>2, <3>3 DEF Fits
      <3>5. /\ a[i] - rows[k].id >= i
            /\ log = "capture" => rows[k].serial <= m /\ a[i] - rows[k].id >= m + i - rows[k].serial
        BY <1>4, <3>4 DEF Follows
      <3>6. rows[k].id \in Nat /\ rows[k].serial \in Nat BY <3>2, WrittenRowOf
      <3>7. a[i] \in Nat /\ new[i].id = a[i] /\ (log = "capture" => new[i].serial = m + i) BY <1>4
      <3>8. i \in Nat /\ i > 0 BY <1>1
      <3> DEFINE x == a[i]
                 y == rows[k].id
                 s == rows[k].serial
      <3>9. /\ x \in Nat /\ y \in Nat /\ s \in Nat /\ x - y >= i
            /\ log = "capture" => s <= m /\ x - y >= m + i - s
        BY <3>5, <3>6, <3>7
      <3>10. /\ all[k].id = y /\ all[l].id = x /\ all[k].serial = s
             /\ log = "capture" => all[l].serial = m + i
        BY <3>2, <3>7
      <3> HIDE DEF x, y, s
      <3>11. y < x /\ (s <= m /\ x - y >= m + i - s => (m + i) - s \in 1..(x - y))
        BY <3>8, <3>9, NextInOrder
      <3>12. log = "capture" => all[l].serial - all[k].serial \in 1..(x - y) BY <3>9, <3>10, <3>11
      <3> QED BY <3>10, <3>11, <3>12
    <2>3. CASE k \notin 1..Len(rows)
      <3>0. l \notin 1..Len(rows) BY <1>3, <2>3
      <3>1. PICK i \in 1..n : k = Len(rows) + i BY <1>3, <2>3
      <3>2. PICK j \in 1..n : l = Len(rows) + j BY <1>3, <3>0
      <3>3. all[k] = new[i] /\ all[l] = new[j] BY <1>3, <3>1, <3>2
      <3>4. i < j BY <1>3, <3>1, <3>2
      <3>5. a[j] - a[i] >= j - i BY <1>4, <1>5, <3>4
      <3> HIDE DEF all
      <3>6. /\ new[i].id = a[i] /\ new[j].id = a[j] /\ a[i] \in Nat /\ a[j] \in Nat
            /\ log = "capture" => new[i].serial = m + i /\ new[j].serial = m + j
        BY <1>4
      <3>7. i \in Nat /\ j \in Nat BY <1>1
      <3>8. a[i] < a[j] /\ (m + j) - (m + i) \in 1..(a[j] - a[i])
        BY <3>4, <3>5, <3>6, <3>7, BothInOrder
      <3> QED BY <3>3, <3>6, <3>8
    <2> QED BY <2>1, <2>2, <2>3
  <1> QED BY <1>2, <1>7, <1>8 DEF Fits

LEMMA FitsTorn ==
  ASSUME NEW rows \in Seq(WrittenRow), NEW a, NEW st \in Nat \ {0}, NEW m,
         NEW log, Fits(rows, a, st, m, log)
  PROVE  Append(rows, Recorder!Torn) \in Seq(WrittenRow)
           /\ Fits(Append(rows, Recorder!Torn), a, st, m, log)
  <1>1. Recorder!Torn \in WrittenRow /\ Recorder!Torn.start = 0 BY DEF Recorder!Torn, WrittenRow
  <1> DEFINE all == Append(rows, Recorder!Torn)
  <1>2. /\ all \in Seq(WrittenRow) /\ DOMAIN all = 1..(Len(rows) + 1) /\ DOMAIN rows = 1..Len(rows)
        /\ Len(rows) \in Nat
        /\ \A k \in 1..Len(rows) : all[k] = rows[k]
        /\ all[Len(rows) + 1] = Recorder!Torn
    BY <1>1
  <1>3. \A k \in DOMAIN all : (k \in DOMAIN rows /\ all[k] = rows[k]) \/ all[k].start = 0
    BY <1>1, <1>2
  <1>4. \A i, j \in DOMAIN all : i < j /\ all[j].start > 0 /\ all[i].start = all[j].start =>
          i \in DOMAIN rows /\ j \in DOMAIN rows /\ all[i] = rows[i] /\ all[j] = rows[j]
    <2> HIDE DEF all
    <2> QED BY <1>3
  <1> HIDE DEF all
  <1>5. Ordered(all, log) BY <1>4 DEF Fits, Ordered
  <1>6. \A k \in DOMAIN all : /\ all[k].start <= st
                              /\ all[k].start = st => Follows(a, all[k], m, log)
    BY <1>3 DEF Fits
  <1>7. Rises(a) BY DEF Fits
  <1> QED BY <1>2, <1>5, <1>6, <1>7 DEF Fits, all

\* The places of a and e, before and after a row is received: taken (b), or not (c).
AtReceipt(a, b, c, l, e) ==
  /\ l \in Nat /\ e \in Nat
  /\ a \in [1..(l + 1) -> Nat] /\ b \in [1..(l + 2) -> Nat] /\ c \in [1..(l + 1) -> Nat]
  /\ a[l + 1] = e /\ b[l + 2] = e + 1 /\ c[l + 1] = e + 1
  /\ \A i \in 1..(l + 1) : b[i] = a[i]
  /\ \A i \in 1..l : c[i] = a[i]

LEMMA RisesOnReceipt ==
  ASSUME NEW l, NEW e, NEW a, NEW b, NEW c, AtReceipt(a, b, c, l, e), Rises(a)
  PROVE  /\ Rises(b) /\ Rises(c)
         /\ \A i \in DOMAIN b : \E j \in DOMAIN a : j > 0 /\ b[i] - a[j] >= i + 0 - j
         /\ \A i \in DOMAIN c : \E j \in DOMAIN a : j > 0 /\ c[i] - a[j] >= i + 0 - j
  <1>0. /\ l \in Nat /\ e \in Nat
        /\ a \in [1..(l + 1) -> Nat] /\ b \in [1..(l + 2) -> Nat] /\ c \in [1..(l + 1) -> Nat]
        /\ a[l + 1] = e /\ b[l + 2] = e + 1 /\ c[l + 1] = e + 1
        /\ \A i \in 1..(l + 1) : b[i] = a[i]
        /\ \A i \in 1..l : c[i] = a[i]
    BY DEF AtReceipt
  <1>1. \A i, j \in 1..(l + 1) : i < j => a[j] - a[i] >= j - i BY <1>0 DEF Rises
  <1>2. ASSUME NEW i \in 1..(l + 2), NEW j \in 1..(l + 2), i < j PROVE b[j] - b[i] >= j - i
    <2>1. CASE j \in 1..(l + 1)
      <3>1. i \in 1..(l + 1) BY <1>0, <1>2, <2>1
      <3>2. b[i] = a[i] /\ b[j] = a[j] /\ a[j] - a[i] >= j - i BY <1>0, <1>1, <1>2, <2>1, <3>1
      <3> QED BY <3>2
    <2>2. CASE j = l + 2 /\ i = l + 1
      <3>1. b[i] = e /\ b[j] = e + 1 BY <1>0, <2>2
      <3> QED BY <1>0, <2>2, <3>1
    <2>3. CASE j = l + 2 /\ i \in 1..l
      <3>1. i \in 1..(l + 1) /\ l + 1 \in 1..(l + 1) /\ i < l + 1 BY <1>0, <2>3
      <3>2. b[i] = a[i] /\ a[l + 1] - a[i] >= l + 1 - i BY <1>0, <1>1, <3>1
      <3>3. b[j] = e + 1 /\ a[l + 1] = e /\ e \in Nat /\ l \in Nat BY <1>0, <2>3
      <3>4. a[i] \in Nat /\ i \in Nat BY <1>0, <3>1
      <3> DEFINE x == a[i]
      <3>5. x \in Nat /\ e - x >= l + 1 - i BY <3>2, <3>3, <3>4
      <3> HIDE DEF x
      <3>6. (e + 1) - x >= (l + 2) - i BY <3>3, <3>4, <3>5
      <3> QED BY <2>3, <3>2, <3>3, <3>6 DEF x
    <2> QED BY <1>0, <1>2, <2>1, <2>2, <2>3
  <1>3. ASSUME NEW i \in 1..(l + 1), NEW j \in 1..(l + 1), i < j PROVE c[j] - c[i] >= j - i
    <2>1. i \in 1..l /\ c[i] = a[i] BY <1>0, <1>3
    <2>2. c[j] = a[j] \/ c[j] = a[j] + 1
      <3>1. j \in 1..l \/ j = l + 1 BY <1>0, <1>3
      <3> QED BY <1>0, <3>1
    <2>3. a[j] - a[i] >= j - i BY <1>1, <1>3
    <2>4. a[i] \in Nat /\ a[j] \in Nat /\ i \in Nat /\ j \in Nat BY <1>0
    <2> DEFINE x == a[i]
               y == a[j]
               z == c[j]
    <2>5. x \in Nat /\ y \in Nat /\ (z = y \/ z = y + 1) /\ y - x >= j - i BY <2>2, <2>3, <2>4
    <2> HIDE DEF x, y, z
    <2>6. z - x >= j - i BY <2>4, <2>5
    <2> QED BY <2>1, <2>6 DEF x, z
  <1>4. ASSUME NEW i \in 1..(l + 2)
        PROVE  \E j \in 1..(l + 1) : j > 0 /\ b[i] - a[j] >= i + 0 - j
    <2>1. CASE i = l + 2
      <3>1. l + 1 \in 1..(l + 1) /\ l + 1 > 0 /\ b[i] = e + 1 /\ a[l + 1] = e BY <1>0, <2>1
      <3>2. b[i] - a[l + 1] >= i + 0 - (l + 1) BY <1>0, <2>1, <3>1
      <3> QED BY <3>1, <3>2
    <2>2. CASE i \in 1..(l + 1)
      <3>1. b[i] = a[i] /\ a[i] \in Nat /\ i > 0 BY <1>0, <2>2
      <3>2. b[i] - a[i] >= i + 0 - i BY <3>1, <2>2
      <3> QED BY <2>2, <3>1, <3>2
    <2> QED BY <1>0, <1>4, <2>1, <2>2
  <1>5. ASSUME NEW i \in 1..(l + 1) PROVE i > 0 /\ c[i] - a[i] >= i + 0 - i
    <2>1. i \in 1..l \/ i = l + 1 BY <1>0, <1>5
    <2>2. a[i] \in Nat /\ (c[i] = a[i] \/ c[i] = a[i] + 1) BY <1>0, <2>1
    <2> QED BY <1>0, <2>2
  <1>6. DOMAIN a = 1..(l + 1) /\ DOMAIN b = 1..(l + 2) /\ DOMAIN c = 1..(l + 1) BY <1>0
  <1>7. Rises(b) BY <1>2, <1>6 DEF Rises
  <1>8. Rises(c) BY <1>3, <1>6 DEF Rises
  <1> QED BY <1>4, <1>5, <1>6, <1>7, <1>8

\* A row is received, and taken or not.
LEMMA FitsReceived ==
  ASSUME NEW rows \in Seq(WrittenRow), NEW w \in Seq(Nat), NEW e \in Nat, NEW st \in Nat,
         NEW m \in Nat,
         NEW log, Fits(rows, Append(w, e), st, m, log)
  PROVE  /\ Fits(rows, Append(Append(w, e), e + 1), st, m, log)
         /\ Fits(rows, Append(w, e + 1), st, m, log)
  <1> DEFINE a == Append(w, e)
             b == Append(a, e + 1)
             c == Append(w, e + 1)
             l == Len(w)
  <1>5. a \in Seq(Nat) /\ b \in Seq(Nat) /\ c \in Seq(Nat) /\ l \in Nat OBVIOUS
  <1>6. Len(a) = l + 1 /\ Len(b) = l + 2 /\ Len(c) = l + 1 OBVIOUS
  <1>7. /\ a \in [1..(l + 1) -> Nat] /\ b \in [1..(l + 2) -> Nat] /\ c \in [1..(l + 1) -> Nat]
    <2> HIDE DEF a, b, c, l
    <2>1. a \in [1..Len(a) -> Nat] /\ b \in [1..Len(b) -> Nat] /\ c \in [1..Len(c) -> Nat]
      BY <1>5, SequenceIsFunction
    <2> QED BY <1>6, <2>1
  <1>1. /\ \A i \in 1..(l + 1) : b[i] = a[i]
        /\ a[l + 1] = e /\ b[l + 2] = e + 1 /\ c[l + 1] = e + 1
        /\ \A i \in 1..l : c[i] = a[i]
    OBVIOUS
  <1>2. Fits(rows, a, st, m, log) OBVIOUS
  <1>3. Rises(a) BY DEF Fits
  <1> HIDE DEF a, b, c, l
  <1>4. /\ Rises(b) /\ Rises(c)
        /\ \A i \in DOMAIN b : \E j \in DOMAIN a : j > 0 /\ b[i] - a[j] >= i + 0 - j
        /\ \A i \in DOMAIN c : \E j \in DOMAIN a : j > 0 /\ c[i] - a[j] >= i + 0 - j
    <2>1. AtReceipt(a, b, c, l, e) BY <1>1, <1>5, <1>7 DEF AtReceipt
    <2> QED BY <2>1, <1>3, RisesOnReceipt
  <1>10. 0 \in Nat /\ m + 0 = m OBVIOUS
  <1>11. Fits(rows, b, st, m + 0, log) BY <1>2, <1>4, <1>5, <1>10, FitsLater
  <1>12. Fits(rows, c, st, m + 0, log) BY <1>2, <1>4, <1>5, <1>10, FitsLater
  <1> QED BY <1>10, <1>11, <1>12 DEF a, b, c

\* The last of a, without the first l of them.
AtFront(a, b, l, k) ==
  /\ l \in Nat /\ k \in Nat
  /\ a \in [1..(l + k + 1) -> Nat] /\ b \in [1..(k + 1) -> Nat]
  /\ \A i \in 1..(k + 1) : a[l + i] = b[i]

LEMMA RisesOnFronts ==
  ASSUME NEW l, NEW k, NEW a, NEW b, AtFront(a, b, l, k), Rises(a)
  PROVE  /\ Rises(b)
         /\ \A n \in 0..l : \A i \in DOMAIN b :
              \E j \in DOMAIN a : j > n /\ b[i] - a[j] >= i + n - j
  <1> USE DEF AtFront
  <1>1. \A i, j \in 1..(l + k + 1) : i < j => a[j] - a[i] >= j - i BY DEF Rises
  <1>2. ASSUME NEW i \in 1..(k + 1), NEW j \in 1..(k + 1), i < j PROVE b[j] - b[i] >= j - i
    <2>1. l + i \in 1..(l + k + 1) /\ l + j \in 1..(l + k + 1) /\ l + i < l + j BY <1>2
    <2>2. a[l + j] - a[l + i] >= l + j - (l + i) BY <1>1, <2>1
    <2>3. a[l + i] = b[i] /\ a[l + j] = b[j] OBVIOUS
    <2>4. l + j - (l + i) = j - i OBVIOUS
    <2> QED BY <2>2, <2>3, <2>4
  <1>3. ASSUME NEW n \in 0..l, NEW i \in 1..(k + 1)
        PROVE  \E j \in 1..(l + k + 1) : j > n /\ b[i] - a[j] >= i + n - j
    <2>1. l + i \in 1..(l + k + 1) /\ l + i > n /\ a[l + i] = b[i] /\ b[i] \in Nat BY <1>3
    <2>2. b[i] - a[l + i] >= i + n - (l + i) BY <2>1
    <2> QED BY <2>1, <2>2
  <1>4. DOMAIN a = 1..(l + k + 1) /\ DOMAIN b = 1..(k + 1) OBVIOUS
  <1>5. Rises(b) BY <1>2, <1>4 DEF Rises
  <1> QED BY <1>3, <1>4, <1>5

\* What is written or given up is at the front of a; b is what is left.
Fronts(a, b, p) ==
  /\ a \in Seq(Nat) /\ b \in Seq(Nat)
  /\ DOMAIN p \subseteq DOMAIN a /\ \A i \in DOMAIN p : a[i] = p[i]
  /\ Rises(b)
  /\ \A n \in 0..Len(p) : \A i \in DOMAIN b :
       \E j \in DOMAIN a : j > n /\ b[i] - a[j] >= i + n - j

LEMMA FrontsAre ==
  ASSUME NEW p \in Seq(Nat), NEW q \in Seq(Nat), NEW e \in Nat, Rises(Append(p \o q, e))
  PROVE  Fronts(Append(p \o q, e), Append(q, e), p)
  <1> DEFINE a == Append(p \o q, e)
             b == Append(q, e)
             l == Len(p)
             k == Len(q)
  <1>1. /\ l \in Nat /\ k \in Nat /\ a \in Seq(Nat) /\ b \in Seq(Nat)
        /\ DOMAIN a = 1..(l + k + 1) /\ DOMAIN b = 1..(k + 1)
        /\ DOMAIN p = 1..l /\ DOMAIN q = 1..k
    OBVIOUS
  <1>2. p \o q \in Seq(Nat) /\ Len(p \o q) = l + k OBVIOUS
  <1>3. \A i \in 1..l : (p \o q)[i] = p[i] OBVIOUS
  <1>4. \A i \in 1..k : (p \o q)[l + i] = q[i] OBVIOUS
  <1>5. \A i \in 1..(l + k) : a[i] = (p \o q)[i] BY <1>2
  <1>6. a[l + k + 1] = e /\ b[k + 1] = e BY <1>1, <1>2
  <1>7. \A i \in 1..k : b[i] = q[i] OBVIOUS
  <1>8. \A i \in 1..l : a[i] = p[i] BY <1>1, <1>3, <1>5
  <1>9. \A i \in 1..k : a[l + i] = b[i]
    <2> TAKE i \in 1..k
    <2>1. l + i \in 1..(l + k) BY <1>1
    <2> QED BY <2>1, <1>4, <1>5, <1>7
  <1>10. a \in [1..(l + k + 1) -> Nat] /\ b \in [1..(k + 1) -> Nat]
    <2>1. Len(a) = l + k + 1 /\ Len(b) = k + 1 BY <1>2
    <2> HIDE DEF a, b, l, k
    <2>2. a \in [1..Len(a) -> Nat] /\ b \in [1..Len(b) -> Nat] BY <1>1, SequenceIsFunction
    <2> QED BY <2>1, <2>2
  <1>11. Rises(a) OBVIOUS
  <1> HIDE DEF a, b, l, k
  <1>12. \A i \in 1..(k + 1) : a[l + i] = b[i]
    <2> TAKE i \in 1..(k + 1)
    <2>1. CASE i = k + 1
      <3>1. l + (k + 1) = l + k + 1 BY <1>1
      <3> QED BY <1>6, <2>1, <3>1
    <2>2. CASE i \in 1..k BY <1>9, <2>2
    <2> QED BY <1>1, <2>1, <2>2
  <1>13. /\ Rises(b)
         /\ \A n \in 0..l : \A i \in DOMAIN b :
              \E j \in DOMAIN a : j > n /\ b[i] - a[j] >= i + n - j
    <2>1. AtFront(a, b, l, k) BY <1>1, <1>10, <1>12 DEF AtFront
    <2> QED BY <2>1, <1>11, RisesOnFronts
  <1>14. DOMAIN p \subseteq DOMAIN a BY <1>1
  <1>15. \A i \in DOMAIN p : a[i] = p[i] BY <1>1, <1>8
  <1>16. Fronts(a, b, p) BY <1>1, <1>13, <1>14, <1>15 DEF Fronts, l
  <1> QED BY <1>16 DEF a, b

\* The batch p of a log is written, after which q waits.
RowsOf(new, p, st, m, log) ==
  \A i \in DOMAIN p : /\ new[i].start = st /\ new[i].id = p[i]
                      /\ log = "capture" => new[i].serial = m + i

LEMMA FitsBatch ==
  ASSUME NEW rows \in Seq(WrittenRow), NEW p \in Seq(Nat), NEW q \in Seq(Nat), NEW e \in Nat,
         NEW st \in Nat, NEW m \in Nat, NEW log,
         Fits(rows, Append(p \o q, e), st, m, log),
         NEW new \in Seq(WrittenRow), Len(new) = Len(p),
         RowsOf(new, p, st, m, log)
  PROVE  Fits(rows \o new, Append(q, e), st, m + Len(p), log)
  <1> DEFINE a == Append(p \o q, e)
             b == Append(q, e)
  <1>1. Rises(a) BY DEF Fits
  <1>2. DOMAIN new = DOMAIN p /\ Len(p) \in 0..Len(p)
    <2>1. DOMAIN new = 1..Len(new) /\ DOMAIN p = 1..Len(p) OBVIOUS
    <2> QED BY <2>1
  <1>3. /\ a \in Seq(Nat) /\ b \in Seq(Nat)
        /\ DOMAIN p \subseteq DOMAIN a /\ \A i \in DOMAIN p : a[i] = p[i]
        /\ Rises(b)
        /\ \A i \in DOMAIN b : \E j \in DOMAIN a : j > Len(p) /\ b[i] - a[j] >= i + Len(p) - j
    <2> HIDE DEF a, b
    <2>1. Rises(Append(p \o q, e)) BY <1>1 DEF a
    <2>2. Fronts(a, b, p) BY <2>1, FrontsAre DEF a, b
    <2> QED BY <1>2, <2>2 DEF Fronts
  <1>4. Fits(rows, a, st, m, log) OBVIOUS
  <1> HIDE DEF a, b
  <1>5. IsWritten(rows, new, a, st, m, log) BY <1>2, <1>3 DEF IsWritten, RowsOf
  <1>6. Fits(rows \o new, b, st, m + Len(new), log) BY <1>3, <1>4, <1>5, FitsWritten
  <1> QED BY <1>6 DEF b

\* It is lost, after n of its rows were numbered.
LEMMA FitsLost ==
  ASSUME NEW rows \in Seq(WrittenRow), NEW p \in Seq(Nat), NEW q \in Seq(Nat), NEW e \in Nat,
         NEW st \in Nat, NEW m \in Nat, NEW log, NEW n \in 0..Len(p),
         Fits(rows, Append(p \o q, e), st, m, log)
  PROVE  Fits(rows, Append(q, e), st, m + n, log)
  <1> DEFINE a == Append(p \o q, e)
             b == Append(q, e)
  <1>1. Rises(a) BY DEF Fits
  <1>2. /\ a \in Seq(Nat) /\ b \in Seq(Nat) /\ Rises(b)
        /\ \A i \in DOMAIN b : \E j \in DOMAIN a : j > n /\ b[i] - a[j] >= i + n - j
    <2> HIDE DEF a, b
    <2>1. Rises(Append(p \o q, e)) BY <1>1 DEF a
    <2>2. Fronts(a, b, p) BY <2>1, FrontsAre DEF a, b
    <2> QED BY <2>2 DEF Fronts
  <1>3. Fits(rows, a, st, m, log) /\ n \in Nat OBVIOUS
  <1> HIDE DEF a, b
  <1>4. Fits(rows, b, st, m + n, log) BY <1>2, <1>3, FitsLater
  <1> QED BY <1>4 DEF b

LEMMA FitsUnnumbered ==
  ASSUME NEW rows, NEW a, NEW st, NEW m, NEW n, NEW log, log # "capture", Fits(rows, a, st, m, log)
  PROVE  Fits(rows, a, st, n, log)
  BY DEF Fits, Follows

-----------------------------------------------------------------------------
\* The places of the rows of session st, and what they record.
Places(rows, st) == {j \in DOMAIN rows : rows[j].start = st}
IdsOf(rows, st) == {rows[k].id : k \in Places(rows, st)}
\* Of the n receipts of session st, the first c are written, and the others wait (w).
Complete(rows, w, n, st) ==
  \E c \in Nat :
    /\ n = c + Len(w)
    /\ \A i \in DOMAIN w : w[i] = c + i
    /\ IdsOf(rows, st) = 1..c

LEMMA JoinedRows ==
  ASSUME NEW rows \in Seq(WrittenRow), NEW new \in Seq(WrittenRow)
  PROVE  LET all == rows \o new IN
         /\ all \in Seq(WrittenRow) /\ DOMAIN rows \subseteq DOMAIN all
         /\ \A k \in DOMAIN rows : all[k] = rows[k]
         /\ \A i \in DOMAIN new : Len(rows) + i \in DOMAIN all /\ all[Len(rows) + i] = new[i]
         /\ \A k \in DOMAIN all : k \in DOMAIN rows \/ \E i \in DOMAIN new : k = Len(rows) + i
         /\ \A k \in DOMAIN rows, i \in DOMAIN new : k < Len(rows) + i
         /\ \A i, j \in DOMAIN new : i < j <=> Len(rows) + i < Len(rows) + j
         /\ \A j \in DOMAIN rows, k \in DOMAIN all : k < j => k \in DOMAIN rows
  <1> DEFINE all == rows \o new
             l == Len(rows)
             n == Len(new)
  <1>1. /\ all \in Seq(WrittenRow) /\ DOMAIN all = 1..(l + n) /\ l \in Nat /\ n \in Nat
        /\ DOMAIN rows = 1..l /\ DOMAIN new = 1..n
        /\ \A k \in 1..l : all[k] = rows[k]
        /\ \A i \in 1..n : all[l + i] = new[i]
    OBVIOUS
  <1> HIDE DEF all, l, n
  <1>2. DOMAIN rows \subseteq DOMAIN all BY <1>1
  <1>3. \A i \in DOMAIN new : l + i \in DOMAIN all BY <1>1
  <1>4. ASSUME NEW k \in DOMAIN all, k \notin DOMAIN rows PROVE \E i \in DOMAIN new : k = l + i
    <2>1. k - l \in DOMAIN new /\ k = l + (k - l) BY <1>1, <1>4
    <2> QED BY <2>1
  <1>5. \A k \in DOMAIN rows, i \in DOMAIN new : k < l + i BY <1>1
  <1>6. \A i, j \in DOMAIN new : i < j <=> l + i < l + j BY <1>1
  <1>7. \A j \in DOMAIN rows, k \in DOMAIN all : k < j => k \in DOMAIN rows BY <1>1
  <1> QED BY <1>1, <1>2, <1>3, <1>4, <1>5, <1>6, <1>7 DEF all, l

LEMMA IdsJoined ==
  ASSUME NEW rows \in Seq(WrittenRow), NEW new \in Seq(WrittenRow), NEW st
  PROVE  IdsOf(rows \o new, st) = IdsOf(rows, st) \cup IdsOf(new, st)
  <1> DEFINE all == rows \o new
             l == Len(rows)
  <1>1. /\ DOMAIN rows \subseteq DOMAIN all /\ \A k \in DOMAIN rows : all[k] = rows[k]
        /\ \A i \in DOMAIN new : l + i \in DOMAIN all /\ all[l + i] = new[i]
        /\ \A k \in DOMAIN all : k \in DOMAIN rows \/ \E i \in DOMAIN new : k = l + i
    BY JoinedRows
  <1> HIDE DEF all, l
  <1>2. ASSUME NEW x \in IdsOf(all, st) PROVE x \in IdsOf(rows, st) \cup IdsOf(new, st)
    <2>1. PICK k \in DOMAIN all : all[k].start = st /\ x = all[k].id BY DEF IdsOf, Places
    <2>2. CASE k \in DOMAIN rows BY <1>1, <2>1, <2>2 DEF IdsOf, Places
    <2>3. CASE k \notin DOMAIN rows
      <3>1. PICK i \in DOMAIN new : all[k] = new[i] BY <1>1, <2>3
      <3> QED BY <2>1, <3>1 DEF IdsOf, Places
    <2> QED BY <2>2, <2>3
  <1>3. ASSUME NEW x \in IdsOf(rows, st) PROVE x \in IdsOf(all, st)
    <2>1. PICK k \in DOMAIN rows : rows[k].start = st /\ x = rows[k].id BY DEF IdsOf, Places
    <2>2. k \in DOMAIN all /\ all[k] = rows[k] BY <1>1
    <2> QED BY <2>1, <2>2 DEF IdsOf, Places
  <1>4. ASSUME NEW x \in IdsOf(new, st) PROVE x \in IdsOf(all, st)
    <2>1. PICK i \in DOMAIN new : new[i].start = st /\ x = new[i].id BY DEF IdsOf, Places
    <2>2. l + i \in DOMAIN all /\ all[l + i] = new[i] BY <1>1
    <2> QED BY <2>1, <2>2 DEF IdsOf, Places
  <1> QED BY <1>2, <1>3, <1>4 DEF all

LEMMA CompleteOnStart ==
  ASSUME NEW rows \in Seq(WrittenRow), NEW st \in Nat, \A k \in DOMAIN rows : rows[k].start <= st
  PROVE  Complete(rows, <<>>, 0, st + 1)
  <1>1. \A k \in DOMAIN rows : rows[k].start # st + 1 BY WrittenRowOf
  <1>2. IdsOf(rows, st + 1) = {} BY <1>1 DEF IdsOf, Places
  <1>3. 0 \in Nat /\ 0 = 0 + Len(<<>>) /\ 1..0 = {} /\ \A i \in DOMAIN <<>> : <<>>[i] = 0 + i OBVIOUS
  <1> QED BY <1>2, <1>3 DEF Complete

LEMMA CompleteReceived ==
  ASSUME NEW rows, NEW w \in Seq(Nat), NEW n \in Nat, NEW st, Complete(rows, w, n, st)
  PROVE  Complete(rows, Append(w, n + 1), n + 1, st)
  <1>1. PICK c \in Nat : /\ n = c + Len(w)
                         /\ \A i \in DOMAIN w : w[i] = c + i
                         /\ IdsOf(rows, st) = 1..c
    BY DEF Complete
  <1> DEFINE v == Append(w, n + 1)
             h == Len(w)
  <1>2. /\ h \in Nat /\ DOMAIN w = 1..h /\ DOMAIN v = 1..(h + 1)
        /\ Len(v) = h + 1 /\ v[h + 1] = n + 1 /\ \A i \in 1..h : v[i] = w[i]
    OBVIOUS
  <1>3. n + 1 = c + Len(v) BY <1>1, <1>2
  <1>4. ASSUME NEW i \in DOMAIN v PROVE v[i] = c + i
    <2>1. n = c + h BY <1>1
    <2> HIDE DEF v, h
    <2>2. i \in DOMAIN w \/ i = h + 1 BY <1>2, <1>4
    <2>3. CASE i \in DOMAIN w BY <1>1, <1>2, <2>3
    <2>4. CASE i = h + 1 BY <1>2, <2>1, <2>4
    <2> QED BY <2>2, <2>3, <2>4
  <1> QED BY <1>1, <1>3, <1>4 DEF Complete

LEMMA CompleteWritten ==
  ASSUME NEW rows \in Seq(WrittenRow), NEW p \in Seq(Nat), NEW q \in Seq(Nat), NEW n \in Nat,
         NEW st, Complete(rows, p \o q, n, st), NEW new \in Seq(WrittenRow), Len(new) = Len(p),
         \A i \in DOMAIN p : new[i].start = st /\ new[i].id = p[i]
  PROVE  Complete(rows \o new, q, n, st)
  <1> DEFINE pq == p \o q
             h == Len(p)
             g == Len(q)
  <1>1. PICK c \in Nat : /\ n = c + Len(pq)
                         /\ \A i \in DOMAIN pq : pq[i] = c + i
                         /\ IdsOf(rows, st) = 1..c
    BY DEF Complete
  <1>2. /\ h \in Nat /\ g \in Nat /\ DOMAIN p = 1..h /\ DOMAIN q = 1..g /\ DOMAIN new = 1..h
        /\ Len(pq) = h + g /\ DOMAIN pq = 1..(h + g)
        /\ \A i \in 1..h : pq[i] = p[i]
        /\ \A i \in 1..g : pq[h + i] = q[i]
    OBVIOUS
  <1> HIDE DEF pq, h, g
  <1>3. c + h \in Nat /\ n = c + h + g BY <1>1, <1>2
  <1>4. \A i \in 1..g : q[i] = c + h + i
    <2> TAKE i \in 1..g
    <2>1. h + i \in 1..(h + g) BY <1>2
    <2>2. q[i] = c + (h + i) BY <1>1, <1>2, <2>1
    <2> QED BY <1>2, <2>2
  <1>5. \A i \in 1..h : new[i].start = st /\ new[i].id = c + i
    <2> TAKE i \in 1..h
    <2>1. i \in 1..(h + g) BY <1>2
    <2> QED BY <1>1, <1>2, <2>1
  <1>6. IdsOf(new, st) = {c + i : i \in 1..h} BY <1>2, <1>5 DEF IdsOf, Places
  <1>7. (1..c) \cup {c + i : i \in 1..h} = 1..(c + h)
    <2>1. ASSUME NEW x \in 1..(c + h), x \notin 1..c PROVE \E i \in 1..h : x = c + i
      <3>1. x - c \in 1..h /\ x = c + (x - c) BY <1>2, <2>1
      <3> QED BY <3>1
    <2>2. \A i \in 1..h : c + i \in 1..(c + h) BY <1>2
    <2>3. \A x \in 1..c : x \in 1..(c + h) BY <1>2
    <2> QED BY <2>1, <2>2, <2>3
  <1>8. IdsOf(rows \o new, st) = 1..(c + h)
    <2>1. IdsOf(rows \o new, st) = IdsOf(rows, st) \cup IdsOf(new, st) BY IdsJoined
    <2> QED BY <1>1, <1>6, <1>7, <2>1
  <1> QED BY <1>2, <1>3, <1>4, <1>8 DEF Complete, g

\* Rows of other sessions change nothing.
LEMMA CompleteForeign ==
  ASSUME NEW rows \in Seq(WrittenRow), NEW w, NEW n, NEW st, Complete(rows, w, n, st),
         NEW new \in Seq(WrittenRow), \A i \in DOMAIN new : new[i].start # st
  PROVE  Complete(rows \o new, w, n, st)
  <1>1. IdsOf(new, st) = {} BY DEF IdsOf, Places
  <1>2. IdsOf(rows \o new, st) = IdsOf(rows, st)
    <2>1. IdsOf(rows \o new, st) = IdsOf(rows, st) \cup IdsOf(new, st) BY IdsJoined
    <2> QED BY <1>1, <2>1
  <1> QED BY <1>2 DEF Complete

\* What was received is written up to some receipt, and w is what came after it.
UpTo(rows, w, o, st) ==
  \E done \in 0..Len(o) : /\ IdsOf(rows, st) = {o[i] : i \in 1..done}
                          /\ w = SubSeq(o, done + 1, Len(o))

LEMMA CompleteMeans ==
  ASSUME NEW rows, NEW w \in Seq(Nat), NEW o \in Seq(Nat), NEW st,
         Complete(rows, w, Len(o), st), \A i \in DOMAIN o : o[i] = i
  PROVE  UpTo(rows, w, o, st)
  <1>1. PICK c \in Nat : /\ Len(o) = c + Len(w)
                         /\ \A i \in DOMAIN w : w[i] = c + i
                         /\ IdsOf(rows, st) = 1..c
    BY DEF Complete
  <1> DEFINE h == Len(w)
             x == SubSeq(o, c + 1, Len(o))
  <1>2. h \in Nat /\ DOMAIN w = 1..h /\ Len(o) = c + h /\ DOMAIN o = 1..(c + h) BY <1>1
  <1>3. c \in 0..Len(o) BY <1>2
  <1>4. \A i \in 1..c : o[i] = i
    <2> TAKE i \in 1..c
    <2>1. i \in 1..(c + h)
      <3> HIDE DEF h
      <3> QED BY <1>2
    <2> QED BY <1>2, <2>1
  <1>5. {o[i] : i \in 1..c} = 1..c BY <1>4
  <1>6. x \in Seq(Nat) /\ Len(x) = h /\ \A i \in 1..h : x[i] = o[c + i]
    <2> DEFINE from == c + 1
               last == Len(o)
    <2>1. from \in Int /\ last \in Int /\ \A i \in from..last : o[i] \in Nat OBVIOUS
    <2>2. h \in Nat /\ from = c + 1 /\ last = c + h BY <1>2
    <2>3. x = SubSeq(o, from, last) OBVIOUS
    <2> HIDE DEF from, last, h, x
    <2>4. /\ x \in Seq(Nat) /\ Len(x) = IF from <= last THEN last - from + 1 ELSE 0
          /\ \A i \in 1..(last - from + 1) : x[i] = o[from + i - 1]
      BY <2>1, <2>3, SubSeqProperties
    <2>5. Len(x) = h BY <2>2, <2>4
    <2>6. ASSUME NEW i \in 1..h PROVE x[i] = o[c + i]
      <3>1. i \in 1..(last - from + 1) /\ from + i - 1 = c + i BY <2>2, <2>6
      <3> QED BY <2>4, <3>1
    <2> QED BY <2>4, <2>5, <2>6
  <1> HIDE DEF h, x
  <1>7. ASSUME NEW i \in 1..h PROVE w[i] = x[i]
    <2>1. c + i \in 1..(c + h) BY <1>2
    <2>2. o[c + i] = c + i BY <1>2, <2>1
    <2> QED BY <1>1, <1>2, <1>6, <2>2
  <1>8. w = x BY <1>2, <1>6, <1>7, SeqEqual DEF h
  <1> QED BY <1>1, <1>3, <1>5, <1>8 DEF x, UpTo

-----------------------------------------------------------------------------
(* Rows that come late *)

\* Rows of different sessions.
Apart(b, c) == \A i \in DOMAIN b, j \in DOMAIN c : b[i].start # c[j].start

\* Two batches fit behind the rows, one after the other.
LEMMA OrderedApart ==
  ASSUME NEW rows \in Seq(WrittenRow), NEW new \in Seq(WrittenRow), NEW b \in Seq(WrittenRow),
         NEW log, Ordered(rows \o new, log), Ordered(rows \o b, log), Apart(new, b)
  PROVE  Ordered((rows \o new) \o b, log)
  <1> DEFINE first == rows \o new
             other == rows \o b
             all == first \o b
             l == Len(rows)
             n == Len(first)
  <1>1. /\ first \in Seq(WrittenRow)
        /\ \A k \in DOMAIN first : k \in DOMAIN rows \/ \E i \in DOMAIN new : k = l + i
        /\ \A k \in DOMAIN rows : first[k] = rows[k]
        /\ \A i \in DOMAIN new : first[l + i] = new[i]
    BY JoinedRows
  <1>2. /\ DOMAIN rows \subseteq DOMAIN other /\ \A k \in DOMAIN rows : other[k] = rows[k]
        /\ \A i \in DOMAIN b : l + i \in DOMAIN other /\ other[l + i] = b[i]
        /\ \A k \in DOMAIN rows, i \in DOMAIN b : k < l + i
        /\ \A i, j \in DOMAIN b : i < j <=> l + i < l + j
    BY JoinedRows
  <1> HIDE DEF first, other, l
  <1>3. /\ \A k \in DOMAIN first : all[k] = first[k]
        /\ \A i \in DOMAIN b : n + i \in DOMAIN all /\ all[n + i] = b[i]
        /\ \A k \in DOMAIN all : k \in DOMAIN first \/ \E i \in DOMAIN b : k = n + i
        /\ \A i, j \in DOMAIN b : i < j <=> n + i < n + j
        /\ \A j \in DOMAIN first, k \in DOMAIN all : k < j => k \in DOMAIN first
        /\ \A k \in DOMAIN first, i \in DOMAIN b : k < n + i
    BY <1>1, JoinedRows
  <1>4. Ordered(first, log) /\ Ordered(other, log) BY DEF first, other
  <1> HIDE DEF all, n
  <1> SUFFICES ASSUME NEW k \in DOMAIN all, NEW j \in DOMAIN all, k < j,
                      all[k].start = all[j].start, all[j].start > 0
               PROVE  /\ all[k].id < all[j].id
                      /\ log = "capture" =>
                           all[j].serial - all[k].serial \in 1..(all[j].id - all[k].id)
    BY DEF Ordered, all, first
  <1>5. CASE j \in DOMAIN first
    <2>1. k \in DOMAIN first /\ all[k] = first[k] /\ all[j] = first[j] BY <1>3, <1>5
    <2> QED BY <1>4, <1>5, <2>1 DEF Ordered
  <1>6. CASE j \notin DOMAIN first
    <2>1. PICK i \in DOMAIN b : j = n + i /\ all[j] = b[i] BY <1>3, <1>6
    <2>2. l + i \in DOMAIN other /\ other[l + i] = b[i] BY <1>2
    <2>3. CASE k \in DOMAIN rows
      <3>1. k \in DOMAIN first
        <4>1. DOMAIN rows \subseteq DOMAIN first BY JoinedRows DEF first
        <4> QED BY <2>3, <4>1
      <3>2. all[k] = rows[k] /\ k \in DOMAIN other /\ other[k] = rows[k] /\ k < l + i
        BY <1>1, <1>2, <1>3, <2>3, <3>1
      <3> QED BY <1>4, <2>1, <2>2, <3>2 DEF Ordered
    <2>4. CASE k \in DOMAIN first /\ k \notin DOMAIN rows
      <3>1. PICK h \in DOMAIN new : k = l + h BY <1>1, <2>4
      <3>2. all[k] = new[h] BY <1>1, <1>3, <2>4, <3>1
      <3> QED BY <2>1, <3>2 DEF Apart
    <2>5. CASE k \notin DOMAIN first
      <3>1. PICK h \in DOMAIN b : k = n + h /\ all[k] = b[h] BY <1>3, <2>5
      <3>2. h < i BY <1>3, <2>1, <3>1
      <3>3. l + h \in DOMAIN other /\ other[l + h] = b[h] /\ l + h < l + i BY <1>2, <3>2
      <3> QED BY <1>4, <2>1, <2>2, <3>1, <3>3 DEF Ordered
    <2> QED BY <2>3, <2>4, <2>5
  <1> QED BY <1>5, <1>6

\* A row of no session may come in between, or the batch not at all.
LEMMA OrderedTorn ==
  ASSUME NEW rows \in Seq(WrittenRow), NEW b \in Seq(WrittenRow), NEW log, Ordered(rows \o b, log),
         \A i \in DOMAIN b : b[i].start # 0
  PROVE  /\ Append(rows, Recorder!Torn) \in Seq(WrittenRow)
         /\ Ordered(Append(rows, Recorder!Torn) \o b, log)
         /\ Ordered(rows, log)
         /\ Ordered(Append(rows, Recorder!Torn), log)
  <1> DEFINE broken == <<Recorder!Torn>>
             all == rows \o b
  <1>1. Recorder!Torn \in WrittenRow /\ Recorder!Torn.start = 0 BY DEF Recorder!Torn, WrittenRow
  <1>2. /\ broken \in Seq(WrittenRow) /\ Append(rows, Recorder!Torn) = rows \o broken
        /\ DOMAIN broken = {1} /\ broken[1] = Recorder!Torn
    BY <1>1, AppendIsConcat
  <1>3. Ordered(rows, log)
    <2>1. DOMAIN rows \subseteq DOMAIN all /\ \A k \in DOMAIN rows : all[k] = rows[k]
      BY JoinedRows
    <2>2. Ordered(all, log) OBVIOUS
    <2> HIDE DEF all
    <2> QED BY <2>1, <2>2 DEF Ordered
  <1>4. ASSUME NEW c \in Seq(WrittenRow), Ordered(c, log) PROVE Ordered(c \o broken, log)
    <2> DEFINE more == c \o broken
    <2>1. /\ \A k \in DOMAIN c : more[k] = c[k]
          /\ \A k \in DOMAIN more : k \in DOMAIN c \/ \E i \in DOMAIN broken : k = Len(c) + i
          /\ \A i \in DOMAIN broken : more[Len(c) + i] = broken[i]
      BY <1>2, JoinedRows
    <2>2. \A k \in DOMAIN more : k \in DOMAIN c \/ more[k].start = 0 BY <1>1, <1>2, <2>1
    <2> HIDE DEF more
    <2>3. Ordered(more, log)
      <3> SUFFICES ASSUME NEW k \in DOMAIN more, NEW j \in DOMAIN more, k < j,
                          more[k].start = more[j].start, more[j].start > 0
                   PROVE  /\ more[k].id < more[j].id
                          /\ log = "capture" =>
                               more[j].serial - more[k].serial \in 1..(more[j].id - more[k].id)
        BY DEF Ordered
      <3>1. k \in DOMAIN c /\ j \in DOMAIN c /\ more[k] = c[k] /\ more[j] = c[j] BY <2>1, <2>2
      <3> QED BY <1>4, <3>1 DEF Ordered
    <2> QED BY <2>3 DEF more
  <1> HIDE DEF broken
  <1>5. Ordered(rows \o broken, log) BY <1>3, <1>4
  <1>6. Apart(broken, b) BY <1>1, <1>2 DEF Apart
  <1>7. Ordered((rows \o broken) \o b, log) BY <1>2, <1>5, <1>6, OrderedApart
  <1>8. rows \o broken \in Seq(WrittenRow) BY <1>2
  <1> QED BY <1>2, <1>3, <1>5, <1>7, <1>8

-----------------------------------------------------------------------------
(* One log *)

\* What holds of the rows when nobody writes any more.
Settled(rows, st, log) ==
  /\ rows \in Seq(WrittenRow) /\ Ordered(rows, log)
  /\ \A k \in DOMAIN rows : rows[k].start <= st

\* rows are written, p is the batch, q waits, and o was received; told says that nothing is
\* lost as far as the loop knows.
LogState(rows, p, q, o, st, m, log, told) ==
  /\ rows \in Seq(WrittenRow) /\ p \in Seq(Nat) /\ q \in Seq(Nat) /\ o \in Seq(Nat)
  /\ \A i \in DOMAIN o : o[i] = i
  /\ Fits(rows, Append(p \o q, Len(o) + 1), st, m, log)
  /\ told => Complete(rows, p \o q, Len(o), st)

\* What late batches there are: each of one session, over for this log, and each may be
\* written next.
LatesTrue(rows, lates, st, log, over) ==
  /\ \A b \in lates :
       /\ b \in Seq(WrittenRow) /\ Ordered(rows \o b, log)
       /\ \A i \in DOMAIN b : b[i].start \in 1..st /\ (b[i].start = st => over)
  /\ \A b, c \in lates : b # c => Apart(b, c)

LEMMA StateSuspected ==
  ASSUME NEW rows, NEW p, NEW q, NEW o, NEW st, NEW m, NEW log, NEW told, NEW u, u => told,
         LogState(rows, p, q, o, st, m, log, told)
  PROVE  LogState(rows, p, q, o, st, m, log, u)
  BY DEF LogState

LEMMA StateUnnumbered ==
  ASSUME NEW rows, NEW p, NEW q, NEW o, NEW st, NEW m, NEW n, NEW log, NEW told,
         log # "capture",
         LogState(rows, p, q, o, st, m, log, told)
  PROVE  LogState(rows, p, q, o, st, n, log, told)
  BY FitsUnnumbered DEF LogState

LEMMA StateSettled ==
  ASSUME NEW rows, NEW p, NEW q, NEW o, NEW st, NEW m, NEW log, NEW told,
         LogState(rows, p, q, o, st, m, log, told)
  PROVE  Settled(rows, st, log)
  BY DEF LogState, Settled, Fits

LEMMA StateOnStart ==
  ASSUME NEW rows, NEW st \in Nat, NEW log, Settled(rows, st, log)
  PROVE  LogState(rows, <<>>, <<>>, <<>>, st + 1, 0, log, TRUE)
  <1>1. rows \in Seq(WrittenRow) /\ Ordered(rows, log) /\ \A k \in DOMAIN rows : rows[k].start <= st
    BY DEF Settled
  <1>3. Fits(rows, <<1>>, st + 1, 0, log) BY <1>1, FitsOnStart
  <1>4. Complete(rows, <<>>, 0, st + 1) BY <1>1, CompleteOnStart
  <1>5. /\ <<>> \in Seq(Nat) /\ <<>> \o <<>> = <<>> /\ Len(<<>>) = 0 /\ DOMAIN <<>> = {}
        /\ Append(<<>> \o <<>>, Len(<<>>) + 1) = <<1>>
    OBVIOUS
  <1> QED BY <1>1, <1>3, <1>4, <1>5 DEF LogState

LEMMA StateOnReceipt ==
  ASSUME NEW rows, NEW p, NEW q, NEW o, NEW st \in Nat, NEW m \in Nat, NEW log,
         NEW told, LogState(rows, p, q, o, st, m, log, told)
  PROVE  LET e == Len(o) + 1 IN
         /\ LogState(rows, p, Append(q, e), Append(o, e), st, m, log, told)
         /\ LogState(rows, p, q, Append(o, e), st, m, log, FALSE)
  <1> DEFINE e == Len(o) + 1
             w == p \o q
             x == Append(o, e)
  <1>1. /\ rows \in Seq(WrittenRow) /\ p \in Seq(Nat) /\ q \in Seq(Nat) /\ o \in Seq(Nat)
        /\ \A i \in DOMAIN o : o[i] = i
        /\ Fits(rows, Append(w, e), st, m, log)
        /\ told => Complete(rows, w, Len(o), st)
    BY DEF LogState
  <1>2. e \in Nat /\ w \in Seq(Nat) /\ Len(o) \in Nat BY <1>1
  <1>3. /\ x \in Seq(Nat) /\ Len(x) = e /\ Append(q, e) \in Seq(Nat)
        /\ DOMAIN x = 1..e /\ DOMAIN o = 1..Len(o)
        /\ \A i \in 1..Len(o) : x[i] = o[i]
        /\ x[e] = e
    BY <1>1, <1>2
  <1>4. \A i \in DOMAIN x : x[i] = i
    <2> SUFFICES ASSUME NEW i \in DOMAIN x PROVE x[i] = i OBVIOUS
    <2>1. i \in 1..Len(o) \/ i = e BY <1>2, <1>3
    <2> QED BY <1>1, <1>3, <2>1
  <1>5. p \o Append(q, e) = Append(w, e)
    <2> HIDE DEF e, w, x
    <2>1. Append(q, e) = q \o <<e>> BY <1>1, <1>2, AppendIsConcat
    <2>2. Append(w, e) = w \o <<e>> BY <1>2, AppendIsConcat
    <2>3. <<e>> \in Seq(Nat) BY <1>2
    <2>4. p \o (q \o <<e>>) = w \o <<e>> BY <1>1, <2>3, ConcatAssociative DEF w
    <2> QED BY <2>1, <2>2, <2>4
  <1>6. Fits(rows, Append(Append(w, e), e + 1), st, m, log) /\ Fits(rows, Append(w, e + 1), st, m, log)
    <2> HIDE DEF w, e
    <2> QED BY <1>1, <1>2, FitsReceived
  <1>7. told => Complete(rows, Append(w, e), e, st)
    <2> HIDE DEF w
    <2> QED BY <1>1, <1>2, CompleteReceived
  <1> HIDE DEF e, w, x
  <1>8. LogState(rows, p, Append(q, e), x, st, m, log, told)
    BY <1>1, <1>3, <1>4, <1>5, <1>6, <1>7 DEF LogState
  <1>9. LogState(rows, p, q, x, st, m, log, FALSE)
    BY <1>1, <1>3, <1>4, <1>6 DEF LogState, w
  <1> QED BY <1>8, <1>9 DEF e, x

LEMMA StateOnTake ==
  ASSUME NEW rows, NEW q, NEW o, NEW st, NEW m, NEW log, NEW told, NEW k \in Nat,
         LogState(rows, <<>>, q, o, st, m, log, told)
  PROVE  LogState(rows, Recorder!First(q, k), Recorder!Rest(q, k), o, st, m, log, told)
  <1>1. q \in Seq(Nat) BY DEF LogState
  <1>2. /\ Recorder!First(q, k) \in Seq(Nat) /\ Recorder!Rest(q, k) \in Seq(Nat)
        /\ Recorder!First(q, k) \o Recorder!Rest(q, k) = <<>> \o q
    <2>1. CASE Len(q) <= k BY <1>1, <2>1 DEF Recorder!First, Recorder!Rest
    <2>2. CASE ~(Len(q) <= k)
      <3>1. Len(q) \in Nat /\ k \in 0..Len(q) BY <1>1, <2>2
      <3>2. SubSeq(q, 1, k) \o SubSeq(q, k + 1, Len(q)) = SubSeq(q, 1, Len(q))
        <4>1. 1 \in 1..(Len(q) + 1) /\ k \in 0..Len(q) /\ Len(q) \in k..Len(q) /\ 1 - 1 = 0 BY <3>1
        <4> QED BY <1>1, <4>1, ConcatAdjacentSubSeq
      <3>3. SubSeq(q, 1, Len(q)) = q BY <1>1, SubSeqFull
      <3>4. SubSeq(q, 1, k) \in Seq(Nat) /\ SubSeq(q, k + 1, Len(q)) \in Seq(Nat) BY <1>1, <3>1
      <3>5. <<>> \o q = q BY <1>1
      <3> QED BY <2>2, <3>2, <3>3, <3>4, <3>5 DEF Recorder!First, Recorder!Rest
    <2> QED BY <2>1, <2>2
  <1> QED BY <1>2 DEF LogState

LEMMA StateOnWrite ==
  ASSUME NEW rows, NEW p, NEW q, NEW o, NEW st \in Nat, NEW m \in Nat, NEW log,
         NEW told, LogState(rows, p, q, o, st, m, log, told),
         NEW new \in Seq(WrittenRow), Len(new) = Len(p),
         RowsOf(new, p, st, m, log)
  PROVE  LogState(rows \o new, <<>>, q, o, st, m + Len(p), log, told)
  <1> DEFINE e == Len(o) + 1
  <1>1. /\ rows \in Seq(WrittenRow) /\ p \in Seq(Nat) /\ q \in Seq(Nat) /\ o \in Seq(Nat)
        /\ \A i \in DOMAIN o : o[i] = i
        /\ Fits(rows, Append(p \o q, e), st, m, log)
        /\ told => Complete(rows, p \o q, Len(o), st)
    BY DEF LogState
  <1>2. e \in Nat /\ Len(o) \in Nat BY <1>1
  <1>3. <<>> \o q = q /\ <<>> \in Seq(Nat) /\ rows \o new \in Seq(WrittenRow) BY <1>1
  <1>4. Fits(rows \o new, Append(q, e), st, m + Len(p), log)
    <2> HIDE DEF e
    <2> QED BY <1>1, <1>2, FitsBatch
  <1>5. told => Complete(rows \o new, q, Len(o), st)
    <2> HIDE DEF e
    <2> QED BY <1>1, <1>2, CompleteWritten DEF RowsOf
  <1> QED BY <1>1, <1>3, <1>4, <1>5 DEF LogState

LEMMA StateOnLoss ==
  ASSUME NEW rows, NEW p, NEW q, NEW o, NEW st \in Nat \ {0}, NEW m \in Nat, NEW log,
         NEW told, LogState(rows, p, q, o, st, m, log, told), NEW n \in 0..Len(p),
         NEW all \in {rows, Append(rows, Recorder!Torn)}
  PROVE  LogState(all, <<>>, q, o, st, m + n, log, FALSE)
  <1> DEFINE e == Len(o) + 1
  <1>1. /\ rows \in Seq(WrittenRow) /\ p \in Seq(Nat) /\ q \in Seq(Nat) /\ o \in Seq(Nat)
        /\ \A i \in DOMAIN o : o[i] = i
        /\ Fits(rows, Append(p \o q, e), st, m, log)
    BY DEF LogState
  <1>2. e \in Nat /\ Len(o) \in Nat BY <1>1
  <1>3. <<>> \o q = q /\ <<>> \in Seq(Nat) BY <1>1
  <1> HIDE DEF e
  <1>4. Fits(rows, Append(q, e), st, m + n, log) BY <1>1, <1>2, FitsLost
  <1>5. all \in Seq(WrittenRow) /\ Fits(all, Append(q, e), st, m + n, log) BY <1>1, <1>4, FitsTorn
  <1> QED BY <1>1, <1>3, <1>5 DEF LogState, e

\* A late batch of an earlier session comes in between, or a part of one.
LEMMA StateOnLate ==
  ASSUME NEW rows, NEW p, NEW q, NEW o, NEW st \in Nat, NEW m, NEW log,
         NEW told, LogState(rows, p, q, o, st, m, log, told),
         NEW new \in Seq(WrittenRow), Ordered(rows \o new, log),
         \A i \in DOMAIN new : new[i].start < st
  PROVE  LogState(rows \o new, p, q, o, st, m, log, told)
  <1> DEFINE all == rows \o new
             a == Append(p \o q, Len(o) + 1)
  <1>1. rows \in Seq(WrittenRow) /\ Fits(rows, a, st, m, log) BY DEF LogState
  <1>2. /\ all \in Seq(WrittenRow)
        /\ \A k \in DOMAIN rows : all[k] = rows[k]
        /\ \A i \in DOMAIN new : all[Len(rows) + i] = new[i]
        /\ \A k \in DOMAIN all : k \in DOMAIN rows \/ \E i \in DOMAIN new : k = Len(rows) + i
    BY <1>1, JoinedRows
  <1>3. \A i \in DOMAIN new : new[i].start \in Nat /\ new[i].start <= st /\ new[i].start # st
    BY WrittenRowOf
  <1>4. Ordered(all, log) OBVIOUS
  <1> HIDE DEF all, a
  <1>5. ASSUME NEW k \in DOMAIN all
        PROVE  all[k].start <= st /\ (all[k].start = st => Follows(a, all[k], m, log))
    <2>1. CASE k \in DOMAIN rows BY <1>1, <1>2, <2>1 DEF Fits
    <2>2. CASE k \notin DOMAIN rows
      <3>1. PICK i \in DOMAIN new : all[k] = new[i] BY <1>2, <2>2
      <3> QED BY <1>3, <3>1
    <2> QED BY <2>1, <2>2
  <1>6. Fits(all, a, st, m, log) BY <1>1, <1>4, <1>5 DEF Fits
  <1>7. told => Complete(all, p \o q, Len(o), st)
    <2> SUFFICES ASSUME told PROVE Complete(all, p \o q, Len(o), st) OBVIOUS
    <2>1. Complete(rows, p \o q, Len(o), st) BY DEF LogState
    <2> QED BY <1>1, <1>3, <2>1, CompleteForeign DEF all
  <1> QED BY <1>2, <1>6, <1>7 DEF LogState, all, a

LEMMA SettledOnLate ==
  ASSUME NEW rows, NEW st \in Nat, NEW log, Settled(rows, st, log),
         NEW new \in Seq(WrittenRow), Ordered(rows \o new, log),
         \A i \in DOMAIN new : new[i].start <= st
  PROVE  Settled(rows \o new, st, log)
  <1> DEFINE all == rows \o new
  <1>1. rows \in Seq(WrittenRow) /\ \A k \in DOMAIN rows : rows[k].start <= st BY DEF Settled
  <1>2. /\ all \in Seq(WrittenRow)
        /\ \A k \in DOMAIN rows : all[k] = rows[k]
        /\ \A i \in DOMAIN new : all[Len(rows) + i] = new[i]
        /\ \A k \in DOMAIN all : k \in DOMAIN rows \/ \E i \in DOMAIN new : k = Len(rows) + i
    BY <1>1, JoinedRows
  <1>3. Ordered(all, log) OBVIOUS
  <1> HIDE DEF all
  <1>4. \A k \in DOMAIN all : all[k].start <= st BY <1>1, <1>2
  <1> QED BY <1>2, <1>3, <1>4 DEF Settled, all

\* The rest of a write that broke off.
LEMMA StateTorn ==
  ASSUME NEW rows, NEW p, NEW q, NEW o, NEW st \in Nat \ {0}, NEW m, NEW log,
         NEW told, LogState(rows, p, q, o, st, m, log, told)
  PROVE  LogState(Append(rows, Recorder!Torn), p, q, o, st, m, log, told)
  <1>1. rows \in Seq(WrittenRow) /\ Ordered(rows, log) BY DEF LogState, Fits
  <1>2. Recorder!Torn \in WrittenRow /\ Recorder!Torn.start = 0 BY DEF Recorder!Torn, WrittenRow
  <1>3. rows \o <<>> = rows /\ <<>> \in Seq(WrittenRow) /\ DOMAIN <<>> = {} BY <1>1
  <1>4. Ordered(Append(rows, Recorder!Torn), log) BY <1>1, <1>3, OrderedTorn
  <1>5. /\ <<Recorder!Torn>> \in Seq(WrittenRow)
        /\ Append(rows, Recorder!Torn) = rows \o <<Recorder!Torn>>
        /\ \A i \in DOMAIN <<Recorder!Torn>> : <<Recorder!Torn>>[i].start < st
    BY <1>1, <1>2, AppendIsConcat
  <1>6. Ordered(rows \o <<Recorder!Torn>>, log) BY <1>4, <1>5
  <1>7. LogState(rows \o <<Recorder!Torn>>, p, q, o, st, m, log, told)
    BY <1>5, <1>6, StateOnLate
  <1> QED BY <1>5, <1>7

\* The others still fit when one that is apart from them is written, or when it is given up.
LEMMA LatesBehind ==
  ASSUME NEW rows \in Seq(WrittenRow), NEW lates, NEW st, NEW log, NEW over,
         LatesTrue(rows, lates, st, log, over), NEW rest \in SUBSET lates,
         NEW new \in Seq(WrittenRow), Ordered(rows \o new, log),
         \A b \in rest : Apart(new, b)
  PROVE  LatesTrue(rows \o new, rest, st, log, over)
  <1>1. ASSUME NEW b \in rest PROVE Ordered((rows \o new) \o b, log)
    <2>1. b \in Seq(WrittenRow) /\ Ordered(rows \o b, log) BY DEF LatesTrue
    <2> QED BY <1>1, <2>1, OrderedApart
  <1> QED BY <1>1 DEF LatesTrue

LEMMA SettledTorn ==
  ASSUME NEW rows, NEW st \in Nat, NEW log, Settled(rows, st, log),
         NEW all \in {rows, Append(rows, Recorder!Torn)}
  PROVE  Settled(all, st, log)
  <1>1. CASE all = rows BY <1>1
  <1>2. CASE all = Append(rows, Recorder!Torn)
    <2>1. /\ rows \in Seq(WrittenRow) /\ Ordered(rows, log)
          /\ \A k \in DOMAIN rows : rows[k].start <= st
      BY DEF Settled
    <2>2. Recorder!Torn \in WrittenRow /\ Recorder!Torn.start = 0 BY DEF Recorder!Torn, WrittenRow
    <2>3. rows \o <<>> = rows /\ <<>> \in Seq(WrittenRow) /\ DOMAIN <<>> = {} BY <2>1
    <2>4. all \in Seq(WrittenRow) /\ Ordered(all, log) BY <1>2, <2>1, <2>3, OrderedTorn
    <2>5. /\ DOMAIN all = 1..(Len(rows) + 1) /\ DOMAIN rows = 1..Len(rows) /\ Len(rows) \in Nat
          /\ \A k \in 1..Len(rows) : all[k] = rows[k]
          /\ all[Len(rows) + 1] = Recorder!Torn
      BY <1>2, <2>1, <2>2
    <2>6. \A k \in DOMAIN all : (k \in DOMAIN rows /\ all[k] = rows[k]) \/ all[k].start = 0
      BY <2>2, <2>5
    <2>7. \A k \in DOMAIN all : all[k].start <= st BY <2>1, <2>6
    <2> QED BY <2>4, <2>7 DEF Settled
  <1> QED BY <1>1, <1>2

-----------------------------------------------------------------------------
(* The recorder *)

Told == stage = "UP" /\ ~failed
\* Its worker is gone.
Over(log) == stage = "DOWN" \/ (log = "capture" /\ stage = "records")
StateOf(log) ==
  IF Over(log)
  THEN Settled(disk[log], start, log) /\ batch[log] = <<>> /\ queue[log] = <<>>
  ELSE LogState(disk[log], batch[log], queue[log], received[log], start, serial, log, Told)
LogOf(log) == StateOf(log) /\ LatesTrue(disk[log], late[log], start, log, Over(log))
RecorderTypes ==
  /\ start \in Nat /\ serial \in Nat /\ failed \in BOOLEAN
  /\ stage # "DOWN" => start > 0
  /\ health \in Recorder!Bad => failed
  /\ DOMAIN queue = Recorder!Logs /\ DOMAIN batch = Recorder!Logs /\ DOMAIN late = Recorder!Logs
  /\ DOMAIN received = Recorder!Logs /\ DOMAIN disk = Recorder!Logs
RecorderInv == RecorderTypes /\ \A log \in Recorder!Logs : LogOf(log)

\* What a log that is written holds, and one that is not.
LEMMA StatesMean ==
  ASSUME RecorderInv, NEW log \in Recorder!Logs
  PROVE  /\ start \in Nat /\ serial \in Nat
         /\ Settled(disk[log], start, log) /\ disk[log] \in Seq(WrittenRow)
         /\ Over(log) => batch[log] = <<>> /\ queue[log] = <<>>
         /\ ~Over(log) =>
              /\ LogState(disk[log], batch[log], queue[log], received[log], start, serial, log, Told)
              /\ batch[log] \in Seq(Nat) /\ Len(batch[log]) \in Nat /\ start \in Nat \ {0}
         /\ LatesTrue(disk[log], late[log], start, log, Over(log))
  <1>1. LogOf(log) /\ start \in Nat /\ serial \in Nat /\ (stage # "DOWN" => start > 0)
    BY DEF RecorderInv, RecorderTypes
  <1>2. CASE Over(log) BY <1>1, <1>2 DEF LogOf, StateOf, Settled
  <1>3. CASE ~Over(log)
    <2>1. /\ LogState(disk[log], batch[log], queue[log], received[log], start, serial, log, Told)
          /\ stage # "DOWN"
      BY <1>1, <1>3 DEF LogOf, StateOf, Over
    <2>2. Settled(disk[log], start, log) BY <2>1, StateSettled
    <2>3. batch[log] \in Seq(Nat) /\ disk[log] \in Seq(WrittenRow) BY <2>1 DEF LogState
    <2>4. Len(batch[log]) \in Nat BY <2>3
    <2> QED BY <1>1, <1>3, <2>1, <2>2, <2>3, <2>4 DEF LogOf
  <1> QED BY <1>2, <1>3

\* The log a step does not concern.
LEMMA LogUntouched ==
  ASSUME NEW l, LogOf(l), disk'[l] = disk[l], batch'[l] = batch[l], queue'[l] = queue[l],
         received'[l] = received[l], late'[l] = late[l], start' = start,
         serial' = serial \/ l # "capture", Told' => Told, Over(l)' <=> Over(l)
  PROVE  LogOf(l)'
  <1>1. LatesTrue(disk[l], late[l], start, l, Over(l)') BY DEF LogOf, LatesTrue
  <1>2. StateOf(l)'
    <2>1. CASE Over(l) BY <2>1 DEF LogOf, StateOf
    <2>2. CASE ~Over(l)
      <3>1. LogState(disk[l], batch[l], queue[l], received[l], start, serial, l, Told')
        BY <2>2, StateSuspected DEF LogOf, StateOf
      <3>2. LogState(disk[l], batch[l], queue[l], received[l], start, serial', l, Told')
        BY <3>1, StateUnnumbered
      <3> QED BY <2>2, <3>2 DEF StateOf
    <2> QED BY <2>1, <2>2
  <1> QED BY <1>1, <1>2 DEF LogOf

\* Of the late some are given up, and perhaps a part is written.
LEMMA LatesShrink ==
  ASSUME RecorderInv, NEW l \in Recorder!Logs,
         disk'[l] \in {disk[l], Append(disk[l], Recorder!Torn)}, late'[l] \in SUBSET late[l]
  PROVE  LatesTrue(disk'[l], late'[l], start, l, Over(l))
  <1>1. /\ LatesTrue(disk[l], late[l], start, l, Over(l))
        /\ disk[l] \in Seq(WrittenRow) /\ start \in Nat
    BY StatesMean
  <1>2. ASSUME NEW b \in late[l] PROVE Ordered(disk'[l] \o b, l)
    <2>1. /\ b \in Seq(WrittenRow) /\ Ordered(disk[l] \o b, l)
          /\ \A i \in DOMAIN b : b[i].start \in 1..start
      BY <1>1 DEF LatesTrue
    <2>2. \A i \in DOMAIN b : b[i].start # 0 BY <2>1
    <2>3. Ordered(Append(disk[l], Recorder!Torn) \o b, l) BY <1>1, <2>1, <2>2, OrderedTorn
    <2>4. CASE disk'[l] = disk[l] BY <2>1, <2>4
    <2>5. CASE disk'[l] = Append(disk[l], Recorder!Torn) BY <2>3, <2>5
    <2> QED BY <2>4, <2>5
  <1> QED BY <1>1, <1>2 DEF LatesTrue

\* The log whose worker ends, or its process.
LEMMA LogEnds ==
  ASSUME RecorderInv, NEW l \in Recorder!Logs, Over(l)', batch'[l] = <<>>, queue'[l] = <<>>,
         disk'[l] \in {disk[l], Append(disk[l], Recorder!Torn)}, late'[l] \in SUBSET late[l],
         start' = start
  PROVE  LogOf(l)'
  <1>1. /\ Settled(disk[l], start, l) /\ LatesTrue(disk[l], late[l], start, l, Over(l))
        /\ disk[l] \in Seq(WrittenRow) /\ start \in Nat
    BY StatesMean
  <1>2. Settled(disk'[l], start, l) BY <1>1, SettledTorn
  <1>3. LatesTrue(disk'[l], late'[l], start, l, Over(l)) BY LatesShrink
  <1>4. LatesTrue(disk'[l], late'[l], start, l, Over(l)') BY <1>3 DEF LatesTrue
  <1> QED BY <1>2, <1>4 DEF LogOf, StateOf

LEMMA RecorderIsTrue == RecorderInv => Recorder!RecordingIsTrue
  <1> SUFFICES ASSUME RecorderInv PROVE Recorder!RecordingIsTrue OBVIOUS
  <1>1. Recorder!NothingLostWhileAdmitted
    <2>1. ASSUME Told, NEW log \in Recorder!Logs
          PROVE  UpTo(disk[log], batch[log] \o queue[log], received[log], start)
      <3>1. ~Over(log) BY <2>1 DEF Told, Over
      <3>2. LogState(disk[log], batch[log], queue[log], received[log], start, serial, log, Told)
        BY <3>1, StatesMean
      <3>3. /\ batch[log] \in Seq(Nat) /\ queue[log] \in Seq(Nat) /\ received[log] \in Seq(Nat)
            /\ \A i \in DOMAIN received[log] : received[log][i] = i
            /\ Complete(disk[log], batch[log] \o queue[log], Len(received[log]), start)
        BY <2>1, <3>2 DEF LogState
      <3> DEFINE w == batch[log] \o queue[log]
                 o == received[log]
      <3>4. /\ w \in Seq(Nat) /\ o \in Seq(Nat) /\ \A i \in DOMAIN o : o[i] = i
            /\ Complete(disk[log], w, Len(o), start)
        BY <3>3
      <3> HIDE DEF w, o
      <3>5. UpTo(disk[log], w, o, start) BY <3>4, CompleteMeans
      <3> QED BY <3>5 DEF w, o
    <2> QED BY <2>1 DEF Recorder!NothingLostWhileAdmitted, Told, UpTo, IdsOf, Places
  <1>2. \A log \in Recorder!Logs : Ordered(disk[log], log) BY StatesMean DEF Settled
  <1>3. Recorder!OrderIsKept BY <1>2 DEF Recorder!OrderIsKept, Ordered
  <1> QED BY <1>1, <1>3 DEF Recorder!RecordingIsTrue

LEMMA RecorderStart == Recorder!Init => RecorderInv
  <1> SUFFICES ASSUME Recorder!Init PROVE RecorderInv OBVIOUS
  <1>1. RecorderTypes
    BY DEF Recorder!Init, RecorderTypes, Recorder!Empty, Recorder!NoneLate, Recorder!Bad
  <1>2. ASSUME NEW log \in Recorder!Logs PROVE LogOf(log)
    <2>1. /\ disk[log] = <<>> /\ batch[log] = <<>> /\ queue[log] = <<>> /\ late[log] = {}
          /\ start = 0 /\ Over(log)
      BY DEF Recorder!Init, Recorder!Empty, Recorder!NoneLate, Over
    <2>2. <<>> \in Seq(WrittenRow) /\ DOMAIN <<>> = {} OBVIOUS
    <2>3. Settled(<<>>, 0, log) BY <2>2 DEF Settled, Ordered
    <2> QED BY <2>1, <2>3 DEF LogOf, StateOf, LatesTrue
  <1> QED BY <1>1, <1>2 DEF RecorderInv

LEMMA StartIsTrue == RecorderInv /\ Recorder!Start => RecorderInv'
  <1> SUFFICES ASSUME RecorderInv, Recorder!Start PROVE RecorderInv' OBVIOUS
  <1>0. /\ start \in Nat /\ start' = start + 1 /\ serial' = 0 /\ disk' = disk /\ late' = late
        /\ DOMAIN disk = Recorder!Logs /\ DOMAIN late = Recorder!Logs
        /\ stage = "DOWN" /\ stage' = "UP"
        /\ queue' = Recorder!Empty /\ batch' = Recorder!Empty /\ received' = Recorder!Empty
        /\ (health' = "WAITING" /\ failed' = FALSE) \/ failed' = TRUE
    BY DEF RecorderInv, RecorderTypes, Recorder!Start
  <1>1. RecorderTypes'
    <2>1. DOMAIN Recorder!Empty = Recorder!Logs BY DEF Recorder!Empty
    <2>2. start' \in Nat /\ start' > 0 /\ serial' \in Nat BY <1>0
    <2>3. failed' \in BOOLEAN /\ (health' \in Recorder!Bad => failed') BY <1>0 DEF Recorder!Bad
    <2> QED BY <1>0, <2>1, <2>2, <2>3 DEF RecorderTypes
  <1>2. ASSUME NEW log \in Recorder!Logs PROVE LogOf(log)'
    <2>1. /\ disk'[log] = disk[log] /\ batch'[log] = <<>> /\ queue'[log] = <<>>
          /\ received'[log] = <<>> /\ late'[log] = late[log] /\ ~Over(log)'
      BY <1>0 DEF Recorder!Empty, Over
    <2>2. Settled(disk[log], start, log) /\ LatesTrue(disk[log], late[log], start, log, Over(log))
      BY StatesMean
    <2>3. LogState(disk[log], <<>>, <<>>, <<>>, start + 1, 0, log, TRUE)
      BY <1>0, <2>2, StateOnStart
    <2>4. LogState(disk[log], <<>>, <<>>, <<>>, start + 1, 0, log, Told')
      BY <2>3, StateSuspected
    <2>5. \A n \in 1..start : n \in 1..(start + 1) /\ n # start + 1 BY <1>0
    <2>6. LatesTrue(disk[log], late[log], start + 1, log, FALSE) BY <2>2, <2>5 DEF LatesTrue
    <2>7. Over(log)' = FALSE BY <2>1
    <2> QED BY <1>0, <2>1, <2>4, <2>6, <2>7 DEF LogOf, StateOf
  <1> QED BY <1>1, <1>2 DEF RecorderInv

LEMMA ReceiveIsTrue == ASSUME NEW k \in Recorder!Kinds
      PROVE RecorderInv /\ Recorder!Receive(k) => RecorderInv'
  <1> SUFFICES ASSUME RecorderInv, Recorder!Receive(k) PROVE RecorderInv' OBVIOUS
  <1> DEFINE wants == {log \in Recorder!Logs : Recorder!Wants(log, k)}
             takes == {log \in wants : ~Recorder!Full(log)}
  <1>1. /\ stage = "UP"
        /\ received' = [log \in Recorder!Logs |->
             IF log \in Recorder!Offers(k) THEN Append(received[log], Recorder!NextId(log))
              ELSE received[log]]
        /\ queue' = [log \in Recorder!Logs |->
             IF log \in takes THEN Append(queue[log], Recorder!NextId(log)) ELSE queue[log]]
        /\ failed' = (failed \/ takes # wants)
        /\ health' = IF "capture" \in wants \ takes THEN "QUEUE_OVERFLOW" ELSE health
        /\ UNCHANGED <<start, stage, serial, batch, late, disk>>
    BY DEF Recorder!Receive, Recorder!Lost
  <1>2. takes \subseteq wants /\ \A log \in wants : log \in Recorder!Offers(k) BY DEF Recorder!Wants
  <1>3. RecorderTypes' BY <1>1, <1>2 DEF RecorderInv, RecorderTypes
  <1>4. ASSUME NEW log \in Recorder!Logs PROVE LogOf(log)'
    <2>0. ~Over(log) /\ ~Over(log)' BY <1>1 DEF Over
    <2>1. /\ LogState(disk[log], batch[log], queue[log], received[log], start, serial, log, Told)
          /\ LatesTrue(disk[log], late[log], start, log, Over(log))
          /\ start \in Nat /\ serial \in Nat
          /\ health \in Recorder!Bad => failed
      BY <2>0, StatesMean DEF RecorderInv, RecorderTypes
    <2>2. /\ disk'[log] = disk[log] /\ batch'[log] = batch[log] /\ late'[log] = late[log]
          /\ start' = start /\ serial' = serial
      BY <1>1
    <2>3. Told' => Told /\ takes = wants BY <1>1 DEF Told
    <2>4. Recorder!NextId(log) = Len(received[log]) + 1 BY DEF Recorder!NextId
    <2>5. /\ LogState(disk[log], batch[log], Append(queue[log], Recorder!NextId(log)),
                     Append(received[log], Recorder!NextId(log)), start, serial, log, Told)
          /\ LogState(disk[log], batch[log], queue[log],
                     Append(received[log], Recorder!NextId(log)), start, serial, log, FALSE)
      BY <2>1, <2>4, StateOnReceipt
    <2>6. CASE log \in takes
      <3>1. /\ received'[log] = Append(received[log], Recorder!NextId(log))
            /\ queue'[log] = Append(queue[log], Recorder!NextId(log))
        BY <1>1, <1>2, <2>6
      <3>2. LogState(disk[log], batch[log], Append(queue[log], Recorder!NextId(log)),
                     Append(received[log], Recorder!NextId(log)), start, serial, log, Told')
        BY <2>3, <2>5, StateSuspected
      <3> QED BY <2>0, <2>1, <2>2, <3>1, <3>2 DEF LogOf, StateOf, LatesTrue
    <2>7. CASE log \in Recorder!Offers(k) /\ log \notin takes
      <3>1. /\ received'[log] = Append(received[log], Recorder!NextId(log))
            /\ queue'[log] = queue[log]
        BY <1>1, <2>7
      <3>2. ~Told'
        <4>1. CASE log \in wants BY <2>3, <2>7, <4>1
        <4>2. CASE log \notin wants BY <2>1, <2>3, <2>7, <4>2 DEF Recorder!Wants, Told
        <4> QED BY <4>1, <4>2
      <3>3. LogState(disk[log], batch[log], queue[log],
                     Append(received[log], Recorder!NextId(log)), start, serial, log, Told')
        BY <2>5, <3>2, StateSuspected
      <3> QED BY <2>0, <2>1, <2>2, <3>1, <3>3 DEF LogOf, StateOf, LatesTrue
    <2>8. CASE log \notin Recorder!Offers(k)
      <3>1. received'[log] = received[log] /\ queue'[log] = queue[log] BY <1>1, <1>2, <2>8
      <3>2. LogOf(log) BY DEF RecorderInv
      <3> QED BY <2>0, <2>2, <2>3, <3>1, <3>2, LogUntouched
    <2> QED BY <1>2, <2>6, <2>7, <2>8
  <1> QED BY <1>3, <1>4 DEF RecorderInv

LEMMA TakeIsTrue == ASSUME NEW log \in Recorder!Logs
      PROVE RecorderInv /\ Recorder!Take(log) => RecorderInv'
  <1> SUFFICES ASSUME RecorderInv, Recorder!Take(log) PROVE RecorderInv' OBVIOUS
  <1>1. RecorderTypes' BY DEF RecorderInv, RecorderTypes, Recorder!Take
  <1>2. ASSUME NEW l \in Recorder!Logs PROVE LogOf(l)'
    <2>1. /\ LogOf(l) /\ DOMAIN queue = Recorder!Logs /\ DOMAIN batch = Recorder!Logs
      BY DEF RecorderInv, RecorderTypes
    <2>2. /\ disk' = disk /\ received' = received /\ start' = start /\ serial' = serial
          /\ late' = late /\ Told' = Told /\ Over(l)' = Over(l)
      BY DEF Recorder!Take, Told, Over
    <2>3. CASE l = log
      <3>1. batch[l] = <<>> /\ batch'[l] = Recorder!First(queue[l], Batch)
              /\ queue'[l] = Recorder!Rest(queue[l], Batch) /\ queue[l] # <<>>
        BY <2>1, <2>3 DEF Recorder!Take
      <3>2. ~Over(l) BY <3>1, StatesMean
      <3>3. /\ LogState(disk[l], <<>>, queue[l], received[l], start, serial, l, Told)
            /\ LatesTrue(disk[l], late[l], start, l, Over(l))
        BY <3>1, <3>2, StatesMean
      <3>4. Batch \in Nat BY OperationsAssumption
      <3>5. LogState(disk[l], Recorder!First(queue[l], Batch), Recorder!Rest(queue[l], Batch),
                     received[l], start, serial, l, Told)
        BY <3>3, <3>4, StateOnTake
      <3> QED BY <2>2, <3>1, <3>2, <3>3, <3>5 DEF LogOf, StateOf
    <2>4. CASE l # log
      <3>1. batch'[l] = batch[l] /\ queue'[l] = queue[l] BY <2>1, <2>4 DEF Recorder!Take
      <3> QED BY <2>1, <2>2, <3>1, LogUntouched
    <2> QED BY <2>3, <2>4
  <1> QED BY <1>1, <1>2 DEF RecorderInv

\* The rows a worker writes come behind the others, apart from those that are late.
LEMMA EncodedRows ==
  ASSUME RecorderInv, NEW log \in Recorder!Logs, ~Over(log)
  PROVE  LET new == Recorder!Encoded(log)
             p == batch[log]
         IN
         /\ new \in Seq(WrittenRow) /\ Len(new) = Len(p) /\ RowsOf(new, p, start, serial, log)
         /\ \A i \in DOMAIN new : new[i].start = start
         /\ LogState(disk[log] \o new, <<>>, queue[log], received[log], start,
                     serial + Len(p), log, Told)
         /\ Ordered(disk[log] \o new, log)
         /\ \A b \in late[log] : Apart(new, b) /\ Apart(b, new)
  <1> DEFINE new == Recorder!Encoded(log)
             p == batch[log]
  <1>1. /\ start \in Nat /\ serial \in Nat /\ p \in Seq(Nat) /\ Len(p) \in Nat
        /\ LogState(disk[log], p, queue[log], received[log], start, serial, log, Told)
        /\ LatesTrue(disk[log], late[log], start, log, Over(log))
    BY StatesMean
  <1>2. /\ new \in Seq(WrittenRow) /\ Len(new) = Len(p) /\ RowsOf(new, p, start, serial, log)
        /\ \A i \in DOMAIN new : new[i].start = start
    <2>1. DOMAIN p = 1..Len(p) /\ \A i \in DOMAIN p : p[i] \in Nat /\ i \in Nat BY <1>1
    <2>2. \A i \in DOMAIN p : [start |-> start, id |-> p[i],
                               serial |-> IF log = "capture" THEN serial + i ELSE 0] \in WrittenRow
      BY <1>1, <2>1 DEF WrittenRow
    <2>3. new = [i \in 1..Len(p) |-> [start |-> start, id |-> p[i],
                                     serial |-> IF log = "capture" THEN serial + i ELSE 0]]
      BY <2>1 DEF Recorder!Encoded
    <2>4. new \in [1..Len(p) -> WrittenRow] BY <2>1, <2>2, <2>3
    <2>5. RowsOf(new, p, start, serial, log) /\ \A i \in DOMAIN new : new[i].start = start
      BY <2>1, <2>3 DEF RowsOf
    <2> HIDE DEF new, p
    <2>6. new \in Seq(WrittenRow) /\ Len(new) = Len(p) BY <1>1, <2>4
    <2> QED BY <2>5, <2>6, Zenon
  <1> HIDE DEF new, p
  <1>3. LogState(disk[log] \o new, <<>>, queue[log], received[log], start,
                 serial + Len(p), log, Told)
    BY <1>1, <1>2, StateOnWrite
  <1>4. Ordered(disk[log] \o new, log) BY <1>3, StateSettled DEF Settled
  <1>5. \A b \in late[log] : \A i \in DOMAIN b : b[i].start # start BY <1>1 DEF LatesTrue
  <1>6. \A b \in late[log] : Apart(new, b) /\ Apart(b, new) BY <1>2, <1>5 DEF Apart
  <1> QED BY <1>2, <1>3, <1>4, <1>6 DEF new, p

LEMMA WriteIsTrue == ASSUME NEW log \in Recorder!Logs
      PROVE RecorderInv /\ Recorder!Write(log) => RecorderInv'
  <1> SUFFICES ASSUME RecorderInv, Recorder!Write(log) PROVE RecorderInv' OBVIOUS
  <1> DEFINE new == Recorder!Encoded(log)
             p == batch[log]
  <1>1. /\ serial \in Nat /\ DOMAIN queue = Recorder!Logs /\ DOMAIN batch = Recorder!Logs
        /\ DOMAIN received = Recorder!Logs /\ DOMAIN disk = Recorder!Logs
    BY DEF RecorderInv, RecorderTypes
  <1>2. ~Over(log)
    <2>1. batch[log] # <<>> BY DEF Recorder!Write
    <2> QED BY <2>1, StatesMean
  <1>3. /\ new \in Seq(WrittenRow) /\ Len(p) \in Nat
        /\ LogState(disk[log] \o new, <<>>, queue[log], received[log], start,
                    serial + Len(p), log, Told)
        /\ Ordered(disk[log] \o new, log) /\ \A b \in late[log] : Apart(new, b)
        /\ disk[log] \in Seq(WrittenRow) /\ LatesTrue(disk[log], late[log], start, log, Over(log))
    BY <1>2, EncodedRows, StatesMean
  <1>4. /\ disk' = [disk EXCEPT ![log] = disk[log] \o new]
        /\ serial' = IF log = "capture" THEN serial + Len(p) ELSE serial
        /\ health' = IF log = "capture" THEN "RECORDING" ELSE health
        /\ batch' = [batch EXCEPT ![log] = <<>>]
        /\ start' = start /\ stage' = stage /\ failed' = failed /\ queue' = queue
        /\ late' = late /\ received' = received
    BY DEF Recorder!Write, Recorder!Numbered
  <1> HIDE DEF new, p
  <1>5. RecorderTypes'
    BY <1>1, <1>3, <1>4 DEF RecorderInv, RecorderTypes, Recorder!Bad
  <1>6. ASSUME NEW l \in Recorder!Logs PROVE LogOf(l)'
    <2>1. LogOf(l) BY DEF RecorderInv
    <2>2. Told' = Told /\ Over(l)' = Over(l) BY <1>4 DEF Told, Over
    <2>3. CASE l = log
      <3>1. LogState(disk[l] \o new, <<>>, queue[l], received[l], start, serial', l, Told)
        <4>1. CASE l = "capture"
          <5>1. serial' = serial + Len(p) BY <1>4, <2>3, <4>1
          <5> QED BY <1>3, <2>3, <5>1
        <4>2. CASE l # "capture" BY <1>3, <2>3, <4>2, StateUnnumbered
        <4> QED BY <4>1, <4>2
      <3>2. late[l] \in SUBSET late[l] OBVIOUS
      <3>3. LatesTrue(disk[l] \o new, late[l], start, l, Over(l))
        BY <1>3, <2>3, <3>2, LatesBehind
      <3>4. disk'[l] = disk[l] \o new /\ batch'[l] = <<>> BY <1>1, <1>4, <2>3
      <3> QED BY <1>2, <1>4, <2>2, <2>3, <3>1, <3>3, <3>4 DEF LogOf, StateOf
    <2>4. CASE l # log
      <3>1. /\ disk'[l] = disk[l] /\ batch'[l] = batch[l] /\ queue'[l] = queue[l]
            /\ received'[l] = received[l] /\ late'[l] = late[l] /\ start' = start
            /\ serial' = serial \/ l # "capture"
        BY <1>1, <1>4, <2>4
      <3> QED BY <2>1, <2>2, <3>1, LogUntouched
    <2> QED BY <2>3, <2>4
  <1> QED BY <1>5, <1>6 DEF RecorderInv

\* A failed write has numbered n of its rows.
LEMMA WriteFailsIsTrue ==
  ASSUME NEW log \in Recorder!Logs, NEW reason
        PROVE RecorderInv /\ Recorder!WriteFails(log, reason) => RecorderInv'
  <1> SUFFICES ASSUME RecorderInv, Recorder!WriteFails(log, reason) PROVE RecorderInv' OBVIOUS
  <1> DEFINE p == batch[log]
  <1>1. /\ start \in Nat /\ serial \in Nat
        /\ DOMAIN queue = Recorder!Logs /\ DOMAIN batch = Recorder!Logs
        /\ DOMAIN received = Recorder!Logs /\ DOMAIN disk = Recorder!Logs
    BY DEF RecorderInv, RecorderTypes
  <1>2. ~Over(log)
    <2>1. batch[log] # <<>> BY DEF Recorder!WriteFails
    <2> QED BY <2>1, StatesMean
  <1>3. /\ start \in Nat \ {0} /\ Len(p) \in Nat
        /\ LogState(disk[log], p, queue[log], received[log], start, serial, log, Told)
        /\ disk[log] \in Seq(WrittenRow) /\ LatesTrue(disk[log], late[log], start, log, Over(log))
    BY <1>2, StatesMean
  <1>4. /\ failed' = TRUE /\ batch' = [batch EXCEPT ![log] = <<>>]
        /\ start' = start /\ stage' = stage /\ queue' = queue /\ late' = late
        /\ received' = received
        /\ \/ disk' = disk
           \/ disk' = [disk EXCEPT ![log] = Append(disk[log], Recorder!Torn)]
        /\ \/ log = "capture" /\ serial' \in {serial + Len(p)} \cup (serial..(serial + Len(p)))
           \/ log # "capture" /\ serial' = serial
    BY DEF Recorder!WriteFails, Recorder!Numbered
  <1> HIDE DEF p
  <1>5. \E n \in 0..Len(p) : serial' = serial + n
    <2>1. CASE serial' = serial
      <3>1. 0 \in 0..Len(p) /\ serial' = serial + 0 BY <1>1, <1>3, <2>1
      <3> QED BY <3>1
    <2>2. CASE serial' \in {serial + Len(p)} \cup (serial..(serial + Len(p)))
      <3> DEFINE h == Len(p)
                 t == serial'
      <3>1. serial \in Nat /\ h \in Nat /\ t \in {serial + h} \cup (serial..(serial + h))
        BY <1>1, <1>3, <2>2
      <3> HIDE DEF h, t
      <3>2. t - serial \in 0..h /\ t = serial + (t - serial) BY <3>1
      <3> QED BY <3>2 DEF h, t
    <2> QED BY <1>4, <2>1, <2>2
  <1>6. PICK n \in 0..Len(p) : serial' = serial + n BY <1>5
  <1>7. serial' \in Nat BY <1>1, <1>3, <1>6
  <1>8. RecorderTypes' BY <1>1, <1>4, <1>7 DEF RecorderInv, RecorderTypes
  <1>9. ASSUME NEW l \in Recorder!Logs PROVE LogOf(l)'
    <2>1. LogOf(l) BY DEF RecorderInv
    <2>2. ~Told' /\ Over(l)' = Over(l) BY <1>4 DEF Told, Over
    <2>3. CASE l = log
      <3>1. disk'[l] \in {disk[l], Append(disk[l], Recorder!Torn)} /\ batch'[l] = <<>>
        BY <1>1, <1>4, <2>3
      <3>2. LogState(disk'[l], <<>>, queue[l], received[l], start, serial + n, l, FALSE)
        <4> DEFINE all == disk'[l]
                   before == disk[l]
        <4>1. /\ all \in {before, Append(before, Recorder!Torn)}
              /\ LogState(before, p, queue[l], received[l], start, serial, l, Told)
          BY <1>3, <2>3, <3>1
        <4> HIDE DEF all, before
        <4>2. LogState(all, <<>>, queue[l], received[l], start, serial + n, l, FALSE)
          BY <1>1, <1>3, <4>1, StateOnLoss
        <4> QED BY <4>2 DEF all
      <3>3. LogState(disk'[l], <<>>, queue[l], received[l], start, serial', l, Told')
        BY <1>6, <2>2, <3>2, StateSuspected
      <3>4. late'[l] \in SUBSET late[l] BY <1>4
      <3>5. LatesTrue(disk'[l], late'[l], start, l, Over(l))
        BY <3>1, <3>4, LatesShrink
      <3> QED BY <1>2, <1>4, <2>2, <2>3, <3>1, <3>3, <3>5 DEF LogOf, StateOf
    <2>4. CASE l # log
      <3>1. /\ disk'[l] = disk[l] /\ batch'[l] = batch[l] /\ queue'[l] = queue[l]
            /\ received'[l] = received[l] /\ late'[l] = late[l] /\ start' = start
            /\ serial' = serial \/ l # "capture"
        BY <1>1, <1>4, <2>4
      <3> QED BY <2>1, <2>2, <3>1, LogUntouched
    <2> QED BY <2>3, <2>4
  <1> QED BY <1>8, <1>9 DEF RecorderInv

LEMMA KillIsTrue == RecorderInv /\ Recorder!Kill => RecorderInv'
  <1> SUFFICES ASSUME RecorderInv, Recorder!Kill PROVE RecorderInv' OBVIOUS
  <1>1. /\ DOMAIN disk = Recorder!Logs
        /\ stage' = "DOWN" /\ queue' = Recorder!Empty /\ batch' = Recorder!Empty
        /\ late' = Recorder!NoneLate
        /\ UNCHANGED <<start, health, failed, serial, received>>
        /\ \/ disk' = disk
           \/ disk' = [disk EXCEPT !["capture"] = Append(@, Recorder!Torn)]
    BY DEF RecorderInv, RecorderTypes, Recorder!Kill
  <1>2. RecorderTypes'
    BY <1>1 DEF RecorderInv, RecorderTypes, Recorder!Empty, Recorder!NoneLate
  <1>3. ASSUME NEW l \in Recorder!Logs PROVE LogOf(l)'
    <2>1. disk'[l] \in {disk[l], Append(disk[l], Recorder!Torn)} BY <1>1
    <2>2. batch'[l] = <<>> /\ queue'[l] = <<>> /\ late'[l] = {} /\ Over(l)'
      BY <1>1 DEF Recorder!Empty, Recorder!NoneLate, Over
    <2> QED BY <1>1, <2>1, <2>2, LogEnds
  <1> QED BY <1>2, <1>3 DEF RecorderInv

LEMMA StopIsTrue == RecorderInv /\ Recorder!Stop => RecorderInv'
  <1> SUFFICES ASSUME RecorderInv, Recorder!Stop PROVE RecorderInv' OBVIOUS
  <1>1. RecorderTypes' BY DEF RecorderInv, RecorderTypes, Recorder!Stop
  <1>2. ASSUME NEW l \in Recorder!Logs PROVE LogOf(l)'
    <2>1. LogOf(l) BY DEF RecorderInv
    <2>2. ~Told' /\ ~Over(l) /\ ~Over(l)' BY DEF Recorder!Stop, Told, Over
    <2>3. UNCHANGED <<start, serial, queue, batch, late, received, disk>> BY DEF Recorder!Stop
    <2> QED BY <2>1, <2>2, <2>3, LogUntouched
  <1> QED BY <1>1, <1>2 DEF RecorderInv

LEMMA WorkerEnds ==
  ASSUME NEW log \in Recorder!Logs, stage = log, stage' = Recorder!After(log)
  PROVE  /\ stage # "DOWN" /\ stage' # "UP" /\ ~Over(log) /\ Over(log)'
         /\ \A l \in Recorder!Logs : l # log => (Over(l)' <=> Over(l))
  BY DEF Recorder!Logs, Recorder!After, Over

LEMMA DrainedIsTrue == ASSUME NEW log \in Recorder!Logs
      PROVE RecorderInv /\ Recorder!Drained(log) => RecorderInv'
  <1> SUFFICES ASSUME RecorderInv, Recorder!Drained(log) PROVE RecorderInv' OBVIOUS
  <1>1. /\ stage = log /\ queue[log] = <<>> /\ batch[log] = <<>> /\ stage' = Recorder!After(log)
        /\ UNCHANGED <<start, health, failed, serial, queue, batch, received, late, disk>>
    BY DEF Recorder!Drained
  <1>2. /\ stage # "DOWN" /\ stage' # "UP" /\ ~Over(log) /\ Over(log)'
        /\ \A l \in Recorder!Logs : l # log => (Over(l)' <=> Over(l))
    BY <1>1, WorkerEnds
  <1>3. RecorderTypes' BY <1>1, <1>2 DEF RecorderInv, RecorderTypes
  <1>4. ASSUME NEW l \in Recorder!Logs PROVE LogOf(l)'
    <2>1. CASE l = log BY <1>1, <1>2, <2>1, LogEnds
    <2>2. CASE l # log
      <3>1. LogOf(l) /\ ~Told' BY <1>2 DEF RecorderInv, Told
      <3> QED BY <1>1, <1>2, <2>2, <3>1, LogUntouched
    <2> QED BY <2>1, <2>2
  <1> QED BY <1>3, <1>4 DEF RecorderInv

LEMMA DrainTimesOutIsTrue == ASSUME NEW log \in Recorder!Logs
      PROVE RecorderInv /\ Recorder!DrainTimesOut(log) => RecorderInv'
  <1> SUFFICES ASSUME RecorderInv, Recorder!DrainTimesOut(log) PROVE RecorderInv' OBVIOUS
  <1> DEFINE new == Recorder!Encoded(log)
  <1>1. /\ stage = log /\ stage' = Recorder!After(log)
        /\ queue' = [queue EXCEPT ![log] = <<>>] /\ batch' = [batch EXCEPT ![log] = <<>>]
        /\ \/ late' = late
           \/ late' = [late EXCEPT ![log] = late[log] \cup {new}]
        /\ UNCHANGED <<start, health, failed, serial, received, disk>>
        /\ DOMAIN queue = Recorder!Logs /\ DOMAIN batch = Recorder!Logs
        /\ DOMAIN late = Recorder!Logs
    BY DEF RecorderInv, RecorderTypes, Recorder!DrainTimesOut
  <1>2. /\ stage # "DOWN" /\ stage' # "UP" /\ ~Over(log) /\ Over(log)'
        /\ \A l \in Recorder!Logs : l # log => (Over(l)' <=> Over(l))
    BY <1>1, WorkerEnds
  <1>3. RecorderTypes' BY <1>1, <1>2 DEF RecorderInv, RecorderTypes
  <1>4. /\ new \in Seq(WrittenRow) /\ Ordered(disk[log] \o new, log)
        /\ \A i \in DOMAIN new : new[i].start = start
        /\ \A b \in late[log] : Apart(new, b) /\ Apart(b, new)
        /\ start \in Nat \ {0} /\ LatesTrue(disk[log], late[log], start, log, Over(log))
    BY <1>2, EncodedRows, StatesMean
  <1> HIDE DEF new
  <1>5. ASSUME NEW l \in Recorder!Logs PROVE LogOf(l)'
    <2>1. CASE l = log
      <3>1. batch'[l] = <<>> /\ queue'[l] = <<>> /\ disk'[l] = disk[l] /\ start' = start
        BY <1>1, <2>1
      <3>2. CASE late' = late BY <1>2, <2>1, <3>1, <3>2, LogEnds
      <3>3. CASE late' = [late EXCEPT ![log] = late[log] \cup {new}]
        <4>1. Settled(disk[l], start, l) BY StatesMean
        <4>2. late'[l] = late[l] \cup {new} BY <1>1, <2>1, <3>3
        <4>3. start \in 1..start BY <1>4
        <4>4. LatesTrue(disk[l], late[l] \cup {new}, start, l, TRUE)
          BY <1>4, <2>1, <4>3 DEF LatesTrue
        <4>5. Over(l)' = TRUE BY <1>2, <2>1
        <4> QED BY <3>1, <4>1, <4>2, <4>4, <4>5 DEF LogOf, StateOf
      <3> QED BY <1>1, <3>2, <3>3
    <2>2. CASE l # log
      <3>1. LogOf(l) /\ ~Told' BY <1>2 DEF RecorderInv, Told
      <3>2. batch'[l] = batch[l] /\ queue'[l] = queue[l] /\ late'[l] = late[l] BY <1>1, <2>2
      <3> QED BY <1>1, <1>2, <2>2, <3>1, <3>2, LogUntouched
    <2> QED BY <2>1, <2>2
  <1> QED BY <1>3, <1>5 DEF RecorderInv

LEMMA LateWrittenIsTrue == ASSUME NEW log \in Recorder!Logs, NEW rows \in late[log]
      PROVE RecorderInv /\ Recorder!LateWritten(log, rows) => RecorderInv'
  <1> SUFFICES ASSUME RecorderInv, Recorder!LateWritten(log, rows) PROVE RecorderInv' OBVIOUS
  <1>1. /\ disk' = [disk EXCEPT ![log] = disk[log] \o rows]
        /\ late' = [late EXCEPT ![log] = late[log] \ {rows}]
        /\ UNCHANGED <<start, stage, health, failed, serial, queue, batch, received>>
        /\ DOMAIN disk = Recorder!Logs /\ DOMAIN late = Recorder!Logs
    BY DEF RecorderInv, RecorderTypes, Recorder!LateWritten
  <1>2. RecorderTypes' BY <1>1 DEF RecorderInv, RecorderTypes
  <1>3. /\ LatesTrue(disk[log], late[log], start, log, Over(log)) /\ disk[log] \in Seq(WrittenRow)
        /\ Settled(disk[log], start, log) /\ start \in Nat
    BY StatesMean
  <1>4. /\ rows \in Seq(WrittenRow) /\ Ordered(disk[log] \o rows, log)
        /\ \A i \in DOMAIN rows : rows[i].start \in 1..start /\ (rows[i].start = start => Over(log))
        /\ \A b \in late[log] \ {rows} : Apart(rows, b)
    BY <1>3 DEF LatesTrue
  <1>5. ASSUME NEW l \in Recorder!Logs PROVE LogOf(l)'
    <2>1. Told' = Told /\ Over(l)' = Over(l) BY <1>1 DEF Told, Over
    <2>2. CASE l = log
      <3>1. disk'[l] = disk[l] \o rows /\ late'[l] = late[l] \ {rows} BY <1>1, <2>2
      <3>2. late[l] \ {rows} \in SUBSET late[l] OBVIOUS
      <3>3. LatesTrue(disk[l] \o rows, late[l] \ {rows}, start, l, Over(l))
        BY <1>3, <1>4, <2>2, <3>2, LatesBehind
      <3>4. CASE Over(l)
        <4>1. \A i \in DOMAIN rows : rows[i].start <= start BY <1>3, <1>4
        <4>2. Settled(disk[l] \o rows, start, l) BY <1>3, <1>4, <2>2, <4>1, SettledOnLate
        <4>3. batch[l] = <<>> /\ queue[l] = <<>> BY <3>4, StatesMean
        <4> QED BY <1>1, <2>1, <3>1, <3>3, <3>4, <4>2, <4>3 DEF LogOf, StateOf
      <3>5. CASE ~Over(l)
        <4>1. \A i \in DOMAIN rows : rows[i].start < start BY <1>3, <1>4, <2>2, <3>5
        <4>2. LogState(disk[l], batch[l], queue[l], received[l], start, serial, l, Told)
          BY <3>5, StatesMean
        <4>3. LogState(disk[l] \o rows, batch[l], queue[l], received[l], start, serial, l, Told)
          BY <1>3, <1>4, <2>2, <4>1, <4>2, StateOnLate
        <4> QED BY <1>1, <2>1, <3>1, <3>3, <3>5, <4>3 DEF LogOf, StateOf
      <3> QED BY <3>4, <3>5
    <2>3. CASE l # log
      <3>1. LogOf(l) /\ disk'[l] = disk[l] /\ late'[l] = late[l] BY <1>1, <2>3 DEF RecorderInv
      <3> QED BY <1>1, <2>1, <3>1, LogUntouched
    <2> QED BY <2>2, <2>3
  <1> QED BY <1>2, <1>5 DEF RecorderInv

LEMMA LateFailsIsTrue == ASSUME NEW log \in Recorder!Logs, NEW rows \in late[log]
      PROVE RecorderInv /\ Recorder!LateFails(log, rows) => RecorderInv'
  <1> SUFFICES ASSUME RecorderInv, Recorder!LateFails(log, rows) PROVE RecorderInv' OBVIOUS
  <1>1. /\ \/ disk' = disk
           \/ disk' = [disk EXCEPT ![log] = Append(disk[log], Recorder!Torn)]
        /\ late' = [late EXCEPT ![log] = late[log] \ {rows}]
        /\ UNCHANGED <<start, stage, health, failed, serial, queue, batch, received>>
        /\ DOMAIN disk = Recorder!Logs /\ DOMAIN late = Recorder!Logs
    BY DEF RecorderInv, RecorderTypes, Recorder!LateFails
  <1>2. RecorderTypes' BY <1>1 DEF RecorderInv, RecorderTypes
  <1>3. ASSUME NEW l \in Recorder!Logs PROVE LogOf(l)'
    <2>1. Told' = Told /\ Over(l)' = Over(l) BY <1>1 DEF Told, Over
    <2>2. disk'[l] \in {disk[l], Append(disk[l], Recorder!Torn)} /\ late'[l] \in SUBSET late[l]
      BY <1>1
    <2>3. CASE Over(l)
      <3>1. batch[l] = <<>> /\ queue[l] = <<>> BY <2>3, StatesMean
      <3> QED BY <1>1, <2>1, <2>2, <2>3, <3>1, LogEnds
    <2>4. CASE ~Over(l)
      <3>1. /\ LogState(disk[l], batch[l], queue[l], received[l], start, serial, l, Told)
            /\ LatesTrue(disk[l], late[l], start, l, Over(l))
            /\ disk[l] \in Seq(WrittenRow) /\ start \in Nat \ {0} /\ start \in Nat
        BY <2>4, StatesMean
      <3>2. LogState(disk'[l], batch[l], queue[l], received[l], start, serial, l, Told)
        BY <2>2, <3>1, StateTorn
      <3>3. LatesTrue(disk'[l], late'[l], start, l, Over(l)) BY <2>2, LatesShrink
      <3> QED BY <1>1, <2>1, <2>4, <3>2, <3>3 DEF LogOf, StateOf
    <2> QED BY <2>3, <2>4
  <1> QED BY <1>2, <1>3 DEF RecorderInv

LEMMA RecorderNext == RecorderInv /\ (Recorder!Next \/ UNCHANGED recording) => RecorderInv'
  <1> SUFFICES ASSUME RecorderInv, (Recorder!Next \/ UNCHANGED recording) PROVE RecorderInv' OBVIOUS
  <1>1. CASE Recorder!Start BY <1>1, StartIsTrue
  <1>2. CASE Recorder!Stop BY <1>2, StopIsTrue
  <1>3. CASE Recorder!Kill BY <1>3, KillIsTrue
  <1>4. ASSUME NEW k \in Recorder!Kinds, Recorder!Receive(k) PROVE RecorderInv'
    BY <1>4, ReceiveIsTrue
  <1>5. ASSUME NEW log \in Recorder!Logs, Recorder!Take(log) PROVE RecorderInv' BY <1>5, TakeIsTrue
  <1>6. ASSUME NEW log \in Recorder!Logs, Recorder!Write(log) PROVE RecorderInv'
    BY <1>6, WriteIsTrue
  <1>7. ASSUME NEW log \in Recorder!Logs, Recorder!Drained(log) PROVE RecorderInv'
    BY <1>7, DrainedIsTrue
  <1>8. ASSUME NEW log \in Recorder!Logs, Recorder!DrainTimesOut(log) PROVE RecorderInv'
    BY <1>8, DrainTimesOutIsTrue
  <1>9. ASSUME NEW log \in Recorder!Logs, NEW reason, Recorder!WriteFails(log, reason)
        PROVE RecorderInv'
    BY <1>9, WriteFailsIsTrue
  <1>10. ASSUME NEW log \in Recorder!Logs, NEW rows \in late[log], Recorder!LateWritten(log, rows)
         PROVE  RecorderInv'
    BY <1>10, LateWrittenIsTrue
  <1>11. ASSUME NEW log \in Recorder!Logs, NEW rows \in late[log], Recorder!LateFails(log, rows)
         PROVE  RecorderInv'
    BY <1>11, LateFailsIsTrue
  <1>12. CASE UNCHANGED recording
    <2>1. RecorderTypes' BY <1>12 DEF recording, RecorderInv, RecorderTypes
    <2>2. ASSUME NEW l \in Recorder!Logs PROVE LogOf(l)'
      <3>1. LogOf(l) /\ Told' = Told /\ Over(l)' = Over(l)
        BY <1>12 DEF recording, RecorderInv, Told, Over
      <3>2. UNCHANGED <<start, serial, queue, batch, late, received, disk>> BY <1>12 DEF recording
      <3> QED BY <3>1, <3>2, LogUntouched
    <2> QED BY <2>1, <2>2 DEF RecorderInv
  <1> QED BY <1>1, <1>2, <1>3, <1>4, <1>5, <1>6, <1>7, <1>8, <1>9, <1>10, <1>11, <1>12
    DEF Recorder!Next

-----------------------------------------------------------------------------
(* The memory: the lifecycles and what is true of a day *)

LEMMA LeastDay ==
  ASSUME NEW S \in SUBSET Nat, S # {}
  PROVE  Memory!Min(S) \in S /\ \A x \in S : Memory!Min(S) <= x
  BY LeastNatural DEF Memory!Min

LEMMA MemoryCount == \A S : Memory!Cardinality(S) = Cardinality(S)
  BY DEF Memory!Cardinality, Cardinality

LifeRecord == [id : Nat, opened : Nat, filled : BOOLEAN, charged : BOOLEAN, closed : Nat]
\* The places of the lifecycles of a day.
SentOn(s, d) == {i \in DOMAIN s : s[i].opened = d}
SoldOn(s, d) == {i \in DOMAIN s : s[i].closed = d /\ s[i].filled}
BilledOn(s, d) == {i \in SoldOn(s, d) : s[i].charged}

\* One after the other, and the last may be open.
LivesTrue(s, until) ==
  /\ s \in Seq(LifeRecord)
  /\ \A i \in DOMAIN s :
       /\ s[i].id = i /\ s[i].opened \in 1..until /\ s[i].closed \in 0..until
       /\ s[i].closed # Memory!Open => s[i].opened <= s[i].closed
       /\ s[i].closed = Memory!Open => i = Len(s)
  /\ \A i, j \in DOMAIN s : i < j => s[i].opened <= s[j].opened /\ s[i].closed <= s[j].opened

\* After a day there is a health file of, no more than the window holds.
AuditTrue(s, files, until) ==
  /\ files \subseteq 1..until
  /\ \A a \in files, i \in DOMAIN s : s[i].opened > a \/ s[i].closed > a => Len(s) - i < Newest

MemoryRow == [trades : Nat, attempts : Nat, filled : Nat, net : BOOLEAN, health : BOOLEAN]
\* What is remembered of a day happened.
RowTrue(s, row, d) ==
  /\ row \in MemoryRow
  /\ row.trades <= Cardinality(SoldOn(s, d)) /\ row.attempts <= Cardinality(SentOn(s, d))
  /\ row.net => row.trades > 0 /\ row.trades <= Cardinality(BilledOn(s, d))

MemoryInv ==
  /\ today \in Memory!Days /\ LivesTrue(lives, today) /\ AuditTrue(lives, audit, today)
  /\ DOMAIN memory \subseteq Nat \ {0}
  /\ \A d \in DOMAIN memory : RowTrue(lives, memory[d], d)

-----------------------------------------------------------------------------
(* Counting the lifecycles *)

LEMMA LifeOf ==
  ASSUME NEW s, NEW until \in Nat, LivesTrue(s, until), NEW i \in DOMAIN s
  PROVE  /\ DOMAIN s = 1..Len(s) /\ Len(s) \in Nat /\ i \in Nat /\ IsFiniteSet(DOMAIN s)
         /\ s[i] \in LifeRecord /\ s[i].id = i
         /\ s[i].opened \in Nat /\ s[i].opened >= 1 /\ s[i].opened <= until
         /\ s[i].closed \in Nat /\ s[i].closed <= until
         /\ s[i].filled \in BOOLEAN /\ s[i].charged \in BOOLEAN
  <1>1. s \in Seq(LifeRecord) BY DEF LivesTrue
  <1>2. DOMAIN s = 1..Len(s) /\ Len(s) \in Nat /\ s[i] \in LifeRecord /\ i \in Nat BY <1>1
  <1>3. IsFiniteSet(1..Len(s)) BY <1>2, FS_Interval
  <1>4. s[i].id = i /\ s[i].opened \in 1..until /\ s[i].closed \in 0..until BY DEF LivesTrue
  <1>5. /\ s[i].opened \in Nat /\ s[i].closed \in Nat
        /\ s[i].filled \in BOOLEAN /\ s[i].charged \in BOOLEAN
    BY <1>2 DEF LifeRecord
  <1> QED BY <1>2, <1>3, <1>4, <1>5

LEMMA PlacesAreFinite ==
  ASSUME NEW s, NEW until \in Nat, LivesTrue(s, until)
  PROVE  IsFiniteSet(DOMAIN s) /\ \A I \in SUBSET DOMAIN s : IsFiniteSet(I) /\ Cardinality(I) \in Nat
  <1>1. s \in Seq(LifeRecord) BY DEF LivesTrue
  <1>2. DOMAIN s = 1..Len(s) /\ Len(s) \in Nat BY <1>1
  <1>3. IsFiniteSet(DOMAIN s) BY <1>2, FS_Interval
  <1>4. ASSUME NEW I \in SUBSET DOMAIN s PROVE IsFiniteSet(I) /\ Cardinality(I) \in Nat
    BY <1>3, FS_Subset, FS_CardinalityType
  <1> QED BY <1>3, <1>4

\* There are as many lifecycles as places.
LEMMA LivesCounted ==
  ASSUME NEW s, NEW until \in Nat, LivesTrue(s, until), NEW I \in SUBSET DOMAIN s
  PROVE  Cardinality({s[i] : i \in I}) = Cardinality(I)
  <1> DEFINE f == [i \in I |-> s[i]]
             T == {s[i] : i \in I}
  <1>1. f \in Bijection(I, T)
    <2>1. f \in [I -> T] OBVIOUS
    <2>2. \A i, j \in I : f[i] = f[j] => i = j
      <3> SUFFICES ASSUME NEW i \in I, NEW j \in I, s[i] = s[j] PROVE i = j OBVIOUS
      <3>1. s[i].id = i /\ s[j].id = j BY LifeOf
      <3> QED BY <3>1
    <2>3. \A t \in T : \E i \in I : f[i] = t OBVIOUS
    <2> HIDE DEF f, T
    <2> QED BY <2>1, <2>2, <2>3 DEF Bijection, Injection, IsInjective, Surjection
  <1>2. IsFiniteSet(I) BY PlacesAreFinite
  <1> HIDE DEF f, T
  <1>3. ExistsBijection(I, T) BY <1>1 DEF ExistsBijection
  <1> QED BY <1>2, <1>3, FS_Bijection DEF T

\* What a review of the lifecycles at some places says of a day.
LEMMA Reviews ==
  ASSUME NEW s, NEW until \in Nat, LivesTrue(s, until), NEW I \in SUBSET DOMAIN s, NEW d
  PROVE  LET L == {s[i] : i \in I}
             row == Memory!ReviewOf(L, d)
         IN
         /\ row \in MemoryRow
         /\ row.trades = Cardinality(SoldOn(s, d) \cap I)
         /\ row.attempts = Cardinality(SentOn(s, d) \cap I)
         /\ row.net <=> SoldOn(s, d) \cap I # {} /\ SoldOn(s, d) \cap I \subseteq BilledOn(s, d)
         /\ Memory!Attempts(L, d) \cup Memory!Trades(L, d) = {} =>
              (SentOn(s, d) \cup SoldOn(s, d)) \cap I = {}
  <1> DEFINE L == {s[i] : i \in I}
             sent == SentOn(s, d) \cap I
             sold == SoldOn(s, d) \cap I
             good == {i \in sent : s[i].filled}
  <1>1. sent \in SUBSET DOMAIN s /\ sold \in SUBSET DOMAIN s /\ good \in SUBSET DOMAIN s
    BY DEF SentOn, SoldOn
  <1>2. Memory!Attempts(L, d) = {s[i] : i \in sent} BY DEF Memory!Attempts, SentOn
  <1>3. Memory!Trades(L, d) = {s[i] : i \in sold} BY DEF Memory!Trades, SoldOn
  <1>4. {l \in Memory!Attempts(L, d) : l.filled} = {s[i] : i \in good} BY <1>2
  <1>5. \A i \in sold : s[i].charged <=> i \in BilledOn(s, d) BY DEF SoldOn, BilledOn
  <1> HIDE DEF L, sent, sold, good
  <1>6. /\ Cardinality(Memory!Trades(L, d)) = Cardinality(sold) /\ Cardinality(sold) \in Nat
        /\ Cardinality(Memory!Attempts(L, d)) = Cardinality(sent) /\ Cardinality(sent) \in Nat
        /\ Cardinality({l \in Memory!Attempts(L, d) : l.filled}) \in Nat
    <2>1. /\ Cardinality({s[i] : i \in sold}) = Cardinality(sold)
          /\ Cardinality({s[i] : i \in sent}) = Cardinality(sent)
          /\ Cardinality({s[i] : i \in good}) = Cardinality(good)
      BY <1>1, LivesCounted
    <2>2. Cardinality(sold) \in Nat /\ Cardinality(sent) \in Nat /\ Cardinality(good) \in Nat
      BY <1>1, PlacesAreFinite
    <2> QED BY <1>2, <1>3, <1>4, <2>1, <2>2
  <1>7. Memory!Trades(L, d) # {} /\ (\A l \in Memory!Trades(L, d) : l.charged) <=>
             sold # {} /\ sold \subseteq BilledOn(s, d)
    BY <1>3, <1>5
  <1>8. Memory!Attempts(L, d) \cup Memory!Trades(L, d) = {} => sent \cup sold = {} BY <1>2, <1>3
  <1> DEFINE row == Memory!ReviewOf(L, d)
  <1>9. row = [trades |-> Cardinality(sold), attempts |-> Cardinality(sent),
               filled |-> Cardinality({l \in Memory!Attempts(L, d) : l.filled}),
               net |-> Memory!Trades(L, d) # {} /\ \A l \in Memory!Trades(L, d) : l.charged,
               health |-> FALSE]
    BY <1>6, MemoryCount DEF Memory!ReviewOf
  <1> HIDE DEF row
  <1>10. (Memory!Trades(L, d) # {} /\ \A l \in Memory!Trades(L, d) : l.charged) \in BOOLEAN OBVIOUS
  <1>11. row \in MemoryRow BY <1>6, <1>9, <1>10 DEF MemoryRow
  <1>12. /\ row.trades = Cardinality(sold) /\ row.attempts = Cardinality(sent)
         /\ row.net <=> (Memory!Trades(L, d) # {} /\ \A l \in Memory!Trades(L, d) : l.charged)
    BY <1>9
  <1>13. (SentOn(s, d) \cup SoldOn(s, d)) \cap I = sent \cup sold BY DEF sent, sold
  <1> QED BY <1>7, <1>8, <1>11, <1>12, <1>13 DEF row, L, sent, sold

\* More of what happened makes nothing untrue.
LEMMA RowTrueLater ==
  ASSUME NEW s, NEW t, NEW until \in Nat, LivesTrue(s, until), NEW later \in Nat, LivesTrue(t, later),
         NEW row, NEW d, RowTrue(s, row, d),
         SentOn(s, d) \subseteq SentOn(t, d), SoldOn(s, d) \subseteq SoldOn(t, d), BilledOn(s,
         d) \subseteq BilledOn(t, d)
  PROVE  RowTrue(t, row, d)
  <1>1. SentOn(t, d) \in SUBSET DOMAIN t /\ SoldOn(t, d) \in SUBSET DOMAIN t
          /\ BilledOn(t, d) \in SUBSET DOMAIN t
    BY DEF SentOn, SoldOn, BilledOn
  <1>2. /\ IsFiniteSet(SentOn(t, d)) /\ IsFiniteSet(SoldOn(t, d)) /\ IsFiniteSet(BilledOn(t, d))
        /\ Cardinality(SentOn(t, d)) \in Nat /\ Cardinality(SoldOn(t, d)) \in Nat
        /\ Cardinality(BilledOn(t, d)) \in Nat
    BY <1>1, PlacesAreFinite
  <1>3. /\ Cardinality(SentOn(s, d)) \in Nat /\ Cardinality(SoldOn(s, d)) \in Nat
        /\ Cardinality(BilledOn(s, d)) \in Nat
    BY PlacesAreFinite DEF SentOn, SoldOn, BilledOn
  <1>4. /\ Cardinality(SentOn(s, d)) <= Cardinality(SentOn(t, d))
        /\ Cardinality(SoldOn(s, d)) <= Cardinality(SoldOn(t, d))
        /\ Cardinality(BilledOn(s, d)) <= Cardinality(BilledOn(t, d))
    BY <1>2, FS_Subset
  <1>5. row.trades \in Nat /\ row.attempts \in Nat BY DEF RowTrue, MemoryRow
  <1>6. /\ row \in MemoryRow
        /\ row.trades <= Cardinality(SoldOn(s, d)) /\ row.attempts <= Cardinality(SentOn(s, d))
        /\ row.net => row.trades > 0 /\ row.trades <= Cardinality(BilledOn(s, d))
    BY DEF RowTrue
  <1>7. \A x, y, z \in Nat : x <= y /\ y <= z => x <= z OBVIOUS
  <1>8. row.trades <= Cardinality(SoldOn(t, d)) /\ row.attempts <= Cardinality(SentOn(t, d))
    BY <1>2, <1>3, <1>4, <1>5, <1>6, <1>7
  <1>9. row.net => row.trades > 0 /\ row.trades <= Cardinality(BilledOn(t, d))
    BY <1>2, <1>3, <1>4, <1>5, <1>6, <1>7
  <1> QED BY <1>6, <1>8, <1>9 DEF RowTrue

-----------------------------------------------------------------------------
(* What the reviewed lifecycles tell *)

Recents == IF Len(lives) <= Newest THEN DOMAIN lives ELSE (Len(lives) - Newest + 1)..Len(lives)

LEMMA SeenAre ==
  ASSUME MemoryInv
  PROVE  /\ Recents \in SUBSET DOMAIN lives /\ Memory!Seen = {lives[i] : i \in Recents}
         /\ \A i \in DOMAIN lives : i \notin Recents => Memory!Truncated /\ Len(lives) - i >= Newest
         /\ \A i \in DOMAIN lives, j \in Recents : i \notin Recents => i < j
  <1>1. lives \in Seq(LifeRecord) /\ Newest \in Nat \ {0}
    BY OperationsAssumption DEF MemoryInv, LivesTrue
  <1>2. DOMAIN lives = 1..Len(lives) /\ Len(lives) \in Nat BY <1>1
  <1>3. Recents \in SUBSET DOMAIN lives BY <1>1, <1>2 DEF Recents
  <1>4. Memory!Seen = {lives[i] : i \in Recents} BY DEF Memory!Seen, Recents, Memory!ToSet
  <1>5. \A i \in DOMAIN lives : i \notin Recents => Memory!Truncated /\ Len(lives) - i >= Newest
    BY <1>1, <1>2 DEF Recents, Memory!Truncated
  <1>6. \A i \in DOMAIN lives, j \in Recents : i \notin Recents => i < j
    BY <1>1, <1>2 DEF Recents
  <1> QED BY <1>3, <1>4, <1>5, <1>6

InWindow(d) == (SentOn(lives, d) \cup SoldOn(lives, d)) \cap Recents
WholeDay(d) == SentOn(lives, d) \cup SoldOn(lives, d) \subseteq Recents

\* The row of a day counts the lifecycles of the window, and health files have nothing to count.
LEMMA ResultOf ==
  ASSUME MemoryInv, NEW d \in DOMAIN Memory!Result
  PROVE  /\ d \in Nat \ {0} /\ Memory!Result[d] \in MemoryRow
         /\ Memory!Result[d].trades = Cardinality(SoldOn(lives, d) \cap Recents)
         /\ Memory!Result[d].attempts = Cardinality(SentOn(lives, d) \cap Recents)
         /\ Memory!Result[d].net <=>
              SoldOn(lives, d) \cap Recents # {}
                /\ SoldOn(lives, d) \cap Recents \subseteq BilledOn(lives, d)
         /\ d \in audit \/ InWindow(d) # {}
  <1>1. /\ today \in Nat /\ today <= MaxDay /\ today \in Memory!Days /\ MaxDay \in Nat
        /\ LivesTrue(lives, today)
    BY OperationsAssumption DEF MemoryInv, Memory!Days
  <1>2. audit \subseteq Memory!Days BY <1>1 DEF MemoryInv, AuditTrue, Memory!Days
  <1>3. DOMAIN Memory!Result = Memory!Reviewed(Memory!Seen) \cup audit BY DEF Memory!Result
  <1>4. d \in Memory!Days BY <1>2, <1>3 DEF Memory!Reviewed
  <1>5. d \in Nat \ {0} BY <1>1, <1>4 DEF Memory!Days
  <1> DEFINE row == Memory!ReviewOf(Memory!Seen, d)
             base == IF d \in Memory!Reviewed(Memory!Seen) THEN row ELSE Memory!NoRow
  <1>6. Memory!Result[d] = [base EXCEPT !.health = d \in audit] BY <1>3 DEF Memory!Result
  <1>7. /\ row \in MemoryRow
        /\ row.trades = Cardinality(SoldOn(lives, d) \cap Recents)
        /\ row.attempts = Cardinality(SentOn(lives, d) \cap Recents)
        /\ row.net <=>
             SoldOn(lives, d) \cap Recents # {}
               /\ SoldOn(lives, d) \cap Recents \subseteq BilledOn(lives, d)
        /\ Memory!Attempts(Memory!Seen, d) \cup Memory!Trades(Memory!Seen, d) = {} => InWindow(d) = {}
    <2>1. Recents \in SUBSET DOMAIN lives /\ Memory!Seen = {lives[i] : i \in Recents} BY SeenAre
    <2> DEFINE L == {lives[i] : i \in Recents}
               it == Memory!ReviewOf(L, d)
    <2>2. /\ it \in MemoryRow
          /\ it.trades = Cardinality(SoldOn(lives, d) \cap Recents)
          /\ it.attempts = Cardinality(SentOn(lives, d) \cap Recents)
          /\ it.net <=>
               SoldOn(lives, d) \cap Recents # {}
                 /\ SoldOn(lives, d) \cap Recents \subseteq BilledOn(lives, d)
          /\ Memory!Attempts(L, d) \cup Memory!Trades(L, d) = {} =>
               (SentOn(lives, d) \cup SoldOn(lives, d)) \cap Recents = {}
      BY <1>1, <2>1, Reviews
    <2> HIDE DEF L
    <2>3. L = Memory!Seen BY <2>1 DEF L
    <2> QED BY <2>2, <2>3 DEF InWindow
  <1>8. Memory!NoRow \in MemoryRow /\ Memory!NoRow.trades = 0 /\ Memory!NoRow.attempts = 0
          /\ Memory!NoRow.net = FALSE
    BY DEF Memory!NoRow, MemoryRow
  <1>9. d \in Memory!Reviewed(Memory!Seen) <=>
             Memory!Attempts(Memory!Seen, d) \cup Memory!Trades(Memory!Seen, d) # {}
    BY <1>4 DEF Memory!Reviewed
  <1>14. Memory!Attempts(Memory!Seen, d) \cup Memory!Trades(Memory!Seen, d) # {} => InWindow(d) # {}
    <2> SUFFICES ASSUME Memory!Attempts(Memory!Seen, d) \cup Memory!Trades(Memory!Seen,
                         d) # {} PROVE InWindow(d) # {} OBVIOUS
    <2>1. PICK l \in Memory!Seen : l.opened = d \/ (l.closed = d /\ l.filled)
      BY DEF Memory!Attempts, Memory!Trades
    <2>2. PICK i \in Recents : l = lives[i] BY <2>1, SeenAre
    <2>3. i \in DOMAIN lives BY SeenAre
    <2>4. i \in SentOn(lives, d) \cup SoldOn(lives, d) BY <2>1, <2>2, <2>3 DEF SentOn, SoldOn
    <2> QED BY <2>4 DEF InWindow
  <1> HIDE DEF row
  <1>10. /\ base \in MemoryRow
         /\ base.trades = Cardinality(SoldOn(lives, d) \cap Recents)
         /\ base.attempts = Cardinality(SentOn(lives, d) \cap Recents)
         /\ base.net <=>
              SoldOn(lives, d) \cap Recents # {}
                /\ SoldOn(lives, d) \cap Recents \subseteq BilledOn(lives, d)
    <2>1. CASE d \in Memory!Reviewed(Memory!Seen) BY <1>7, <2>1
    <2>2. CASE d \notin Memory!Reviewed(Memory!Seen)
      <3>1. SoldOn(lives, d) \cap Recents = {} /\ SentOn(lives, d) \cap Recents = {}
        BY <1>7, <1>9, <2>2 DEF InWindow
      <3>2. Cardinality({}) = 0 BY FS_EmptySet
      <3>3. base = Memory!NoRow BY <2>2
      <3> QED BY <1>8, <3>1, <3>2, <3>3
    <2> QED BY <2>1, <2>2
  <1> HIDE DEF base
  <1>11. /\ Memory!Result[d] \in MemoryRow /\ Memory!Result[d].trades = base.trades
         /\ Memory!Result[d].attempts = base.attempts
         /\ Memory!Result[d].net = base.net
    <2>1. (d \in audit) \in BOOLEAN OBVIOUS
    <2>2. base \in MemoryRow BY <1>10
    <2> QED BY <1>6, <2>1, <2>2 DEF MemoryRow
  <1>12. d \in audit \/ InWindow(d) # {} BY <1>3, <1>9, <1>14
  <1> QED BY <1>5, <1>10, <1>11, <1>12

LEMMA ResultIsTrue ==
  ASSUME MemoryInv, NEW d \in DOMAIN Memory!Result
  PROVE  RowTrue(lives, Memory!Result[d], d)
  <1>1. today \in Nat /\ LivesTrue(lives, today) BY OperationsAssumption DEF MemoryInv, Memory!Days
  <1> DEFINE sent == SentOn(lives, d)
             sold == SoldOn(lives, d)
             billed == BilledOn(lives, d)
  <1>2. /\ IsFiniteSet(sent) /\ IsFiniteSet(sold) /\ IsFiniteSet(billed)
        /\ Cardinality(sent) \in Nat /\ Cardinality(sold) \in Nat /\ Cardinality(billed) \in Nat
    BY <1>1, PlacesAreFinite DEF SentOn, SoldOn, BilledOn
  <1>3. /\ Memory!Result[d] \in MemoryRow
        /\ Memory!Result[d].trades = Cardinality(sold \cap Recents)
        /\ Memory!Result[d].attempts = Cardinality(sent \cap Recents)
        /\ Memory!Result[d].net <=> sold \cap Recents # {} /\ sold \cap Recents \subseteq billed
    BY ResultOf
  <1> HIDE DEF sent, sold, billed
  <1> DEFINE seen == sold \cap Recents
  <1>4. /\ Cardinality(sold \cap Recents) <= Cardinality(sold)
        /\ Cardinality(sent \cap Recents) <= Cardinality(sent)
        /\ IsFiniteSet(seen) /\ Cardinality(seen) \in Nat
        /\ seen # {} => Cardinality(seen) > 0
        /\ seen \subseteq billed => Cardinality(seen) <= Cardinality(billed)
    <2>1. seen \in SUBSET sold /\ sent \cap Recents \in SUBSET sent OBVIOUS
    <2> HIDE DEF seen
    <2>2. IsFiniteSet(seen) /\ Cardinality(seen) <= Cardinality(sold) /\ Cardinality(seen) \in Nat
      BY <1>2, <2>1, FS_Subset, FS_CardinalityType
    <2>3. Cardinality(sent \cap Recents) <= Cardinality(sent) BY <1>2, <2>1, FS_Subset
    <2>4. seen # {} => Cardinality(seen) > 0 BY <2>2, FS_EmptySet
    <2>5. seen \subseteq billed => Cardinality(seen) <= Cardinality(billed) BY <1>2, FS_Subset
    <2> QED BY <2>2, <2>3, <2>4, <2>5 DEF seen
  <1> QED BY <1>3, <1>4 DEF RowTrue, sent, sold, billed

\* A day of the result that is not its first is in the window with all its lifecycles.
LEMMA LaterDaysAreWhole ==
  ASSUME MemoryInv, NEW d \in DOMAIN Memory!Result,
         ~(Memory!Truncated /\ d = Memory!Min(DOMAIN Memory!Result))
  PROVE  WholeDay(d)
  <1> SUFFICES ASSUME NEW i \in SentOn(lives, d) \cup SoldOn(lives, d), i \notin Recents PROVE FALSE
    BY DEF WholeDay
  <1>1. /\ today \in Nat /\ LivesTrue(lives, today) /\ AuditTrue(lives, audit, today)
    BY OperationsAssumption DEF MemoryInv, Memory!Days
  <1>2. i \in DOMAIN lives /\ (lives[i].opened = d \/ lives[i].closed = d) BY DEF SentOn, SoldOn
  <1>3. Memory!Truncated /\ Len(lives) - i >= Newest BY <1>2, SeenAre
  <1> DEFINE m == Memory!Min(DOMAIN Memory!Result)
  <1>4. DOMAIN Memory!Result \in SUBSET Nat /\ DOMAIN Memory!Result # {}
    <2>1. \A e \in DOMAIN Memory!Result : e \in Nat BY ResultOf
    <2> QED BY <2>1
  <1>5. m \in DOMAIN Memory!Result /\ m <= d
    <2> HIDE <1>1, <1>2, <1>3
    <2> QED BY <1>4, LeastDay
  <1>6. m # d BY <1>3
  <1> HIDE DEF m
  <1>7. m \in Nat /\ d \in Nat /\ m < d BY <1>4, <1>5, <1>6
  <1>8. lives[i].opened \in Nat /\ lives[i].closed \in Nat BY <1>1, <1>2, LifeOf
  <1>9. Newest \in Nat \ {0} BY OperationsAssumption
  <1>10. CASE m \in audit
    <2>1. lives[i].opened > m \/ lives[i].closed > m BY <1>2, <1>7, <1>8
    <2>2. Len(lives) - i < Newest BY <1>1, <1>2, <1>10, <2>1 DEF AuditTrue
    <2>3. Len(lives) \in Nat /\ i \in Nat BY <1>1, <1>2, LifeOf
    <2> QED BY <1>3, <1>9, <2>2, <2>3
  <1>11. CASE m \notin audit
    <2>1. InWindow(m) # {} BY <1>5, <1>11, ResultOf
    <2>2. PICK j \in Recents : j \in SentOn(lives, m) \cup SoldOn(lives, m) BY <2>1 DEF InWindow
    <2>3. j \in DOMAIN lives /\ (lives[j].opened = m \/ lives[j].closed = m)
      BY <2>2 DEF SentOn, SoldOn
    <2>4. i < j BY <1>2, <2>2, SeenAre
    <2>5. /\ lives[i].opened <= lives[j].opened /\ lives[i].closed <= lives[j].opened
          /\ lives[j].closed # Memory!Open => lives[j].opened <= lives[j].closed
      BY <1>1, <1>2, <2>3, <2>4 DEF LivesTrue
    <2>6. lives[j].opened \in Nat /\ lives[j].closed \in Nat BY <1>1, <2>3, LifeOf
    <2>7. m # 0 BY <1>5, ResultOf
    <2>8. lives[j].opened <= m BY <1>7, <2>3, <2>5, <2>6, <2>7 DEF Memory!Open
    <2> QED BY <1>2, <1>7, <1>8, <2>5, <2>6, <2>8
  <1> QED BY <1>10, <1>11

-----------------------------------------------------------------------------
(* The archive *)

Keeping(old, new) ==
  /\ new.trades >= old.trades /\ new.attempts >= old.attempts
  /\ old.net /\ new.trades = old.trades => new.net

LEMMA ResultKeeps ==
  ASSUME MemoryInv, NEW d \in DOMAIN memory, d \in DOMAIN Memory!Result, WholeDay(d)
  PROVE  Keeping(memory[d], Memory!Result[d])
  <1>1. today \in Nat /\ LivesTrue(lives, today) /\ RowTrue(lives, memory[d], d)
    BY OperationsAssumption DEF MemoryInv, Memory!Days
  <1> DEFINE sent == SentOn(lives, d)
             sold == SoldOn(lives, d)
             billed == BilledOn(lives, d)
             old == memory[d]
             new == Memory!Result[d]
  <1>2. /\ IsFiniteSet(sold) /\ IsFiniteSet(billed) /\ billed \in SUBSET sold
        /\ Cardinality(sent) \in Nat /\ Cardinality(sold) \in Nat /\ Cardinality(billed) \in Nat
    BY <1>1, PlacesAreFinite DEF SentOn, SoldOn, BilledOn
  <1>3. sold \cap Recents = sold /\ sent \cap Recents = sent BY DEF WholeDay
  <1>4. /\ new.trades = Cardinality(sold) /\ new.attempts = Cardinality(sent)
        /\ new.net <=> sold # {} /\ sold \subseteq billed
    BY <1>3, ResultOf
  <1>5. /\ old.trades \in Nat /\ old.attempts \in Nat
        /\ old.trades <= Cardinality(sold) /\ old.attempts <= Cardinality(sent)
        /\ old.net => old.trades > 0 /\ old.trades <= Cardinality(billed)
    BY <1>1 DEF RowTrue, MemoryRow
  <1> HIDE DEF sent, sold, billed, old, new
  <1>6. ASSUME old.net, new.trades = old.trades PROVE new.net
    <2>1. Cardinality(sold) > 0 /\ Cardinality(sold) <= Cardinality(billed)
      BY <1>2, <1>4, <1>5, <1>6
    <2>2. Cardinality(billed) <= Cardinality(sold) /\ (Cardinality(sold) = Cardinality(billed) =>
               sold = billed)
      BY <1>2, FS_Subset
    <2>3. sold = billed BY <1>2, <2>1, <2>2
    <2>4. sold # {} BY <2>1, FS_EmptySet
    <2> QED BY <1>4, <2>3, <2>4
  <1> QED BY <1>2, <1>4, <1>5, <1>6 DEF Keeping, old, new

LEMMA ArchiveKeeps ==
  ASSUME MemoryInv
  PROVE  /\ DOMAIN Memory!Archive(Memory!Result) \subseteq Nat \ {0}
         /\ \A d \in DOMAIN Memory!Archive(Memory!Result) : RowTrue(lives,
                 Memory!Archive(Memory!Result)[d], d)
         /\ \A d \in DOMAIN memory : d \in DOMAIN Memory!Archive(Memory!Result)
           /\ Keeping(memory[d], Memory!Archive(Memory!Result)[d])
  <1> DEFINE result == Memory!Result
             kept == Memory!Archive(result)
  <1>1. DOMAIN kept = DOMAIN memory \cup DOMAIN result BY DEF Memory!Archive
  <1>2. DOMAIN kept \subseteq Nat \ {0}
    <2>1. \A d \in DOMAIN result : d \in Nat \ {0} BY ResultOf
    <2> QED BY <1>1, <2>1 DEF MemoryInv
  <1>3. ASSUME NEW d \in DOMAIN memory
        PROVE  RowTrue(lives, kept[d], d) /\ Keeping(memory[d], kept[d])
    <2>1. RowTrue(lives, memory[d], d) BY DEF MemoryInv
    <2>2. memory[d] \in MemoryRow BY <2>1 DEF RowTrue
    <2>3. ASSUME NEW h \in BOOLEAN
          PROVE  LET r == [memory[d] EXCEPT !.health = h] IN RowTrue(lives, r, d)
                   /\ Keeping(memory[d], r)
      <3> DEFINE r == [memory[d] EXCEPT !.health = h]
      <3>1. /\ r \in MemoryRow /\ r.trades = memory[d].trades /\ r.attempts = memory[d].attempts
            /\ r.net = memory[d].net /\ memory[d].trades \in Nat /\ memory[d].attempts \in Nat
        BY <2>2, <2>3 DEF MemoryRow
      <3> HIDE DEF r
      <3>2. RowTrue(lives, r, d) BY <2>1, <3>1 DEF RowTrue
      <3>3. Keeping(memory[d], r) BY <3>1 DEF Keeping
      <3> QED BY <3>2, <3>3 DEF r
    <2>4. CASE Memory!Keeps(result, d)
      <3>1. kept[d] = memory[d] BY <2>4 DEF Memory!Archive
      <3>2. memory[d].trades \in Nat /\ memory[d].attempts \in Nat BY <2>2 DEF MemoryRow
      <3> QED BY <2>1, <3>1, <3>2 DEF Keeping
    <2>5. CASE ~Memory!Keeps(result, d)
      <3>1. d \in DOMAIN result /\ ~(Memory!Truncated /\ d = Memory!Min(DOMAIN result))
        BY <2>5 DEF Memory!Keeps
      <3>2. kept[d] = Memory!Merged(memory[d], result[d]) BY <2>5 DEF Memory!Archive
      <3>3. RowTrue(lives, result[d], d) BY <3>1, ResultIsTrue
      <3>4. WholeDay(d) BY <3>1, LaterDaysAreWhole
      <3>5. Keeping(memory[d], result[d]) BY <3>1, <3>4, ResultKeeps
      <3>6. CASE memory[d].trades > 0 /\ result[d].trades = 0
        <4> DEFINE h == memory[d].health \/ result[d].health
        <4>1. kept[d] = [memory[d] EXCEPT !.health = h] BY <3>2, <3>6 DEF Memory!Merged
        <4>2. h \in BOOLEAN OBVIOUS
        <4> HIDE DEF h
        <4> QED BY <2>3, <4>1, <4>2
      <3>7. CASE ~(memory[d].trades > 0 /\ result[d].trades = 0)
        <4>1. kept[d] = result[d] BY <3>2, <3>7 DEF Memory!Merged
        <4> QED BY <3>3, <3>5, <4>1
      <3> QED BY <3>6, <3>7
    <2> QED BY <2>4, <2>5
  <1>4. ASSUME NEW d \in DOMAIN result, d \notin DOMAIN memory PROVE RowTrue(lives, kept[d], d)
    <2>1. kept[d] = result[d] BY <1>4 DEF Memory!Archive, Memory!Keeps
    <2> QED BY <2>1, ResultIsTrue
  <1> HIDE DEF kept, result
  <1>5. \A d \in DOMAIN kept : RowTrue(lives, kept[d], d) BY <1>1, <1>3, <1>4
  <1>6. \A d \in DOMAIN memory : d \in DOMAIN kept /\ Keeping(memory[d], kept[d]) BY <1>1, <1>3
  <1> QED BY <1>2, <1>5, <1>6 DEF kept, result

-----------------------------------------------------------------------------
(* The memory *)

LEMMA MemoryTypes ==
  ASSUME MemoryInv
  PROVE  /\ today \in Nat /\ today >= 1 /\ today <= MaxDay /\ MaxDay \in Nat /\ Newest \in Nat \ {0}
         /\ LivesTrue(lives, today) /\ AuditTrue(lives, audit, today)
         /\ lives \in Seq(LifeRecord) /\ Len(lives) \in Nat /\ DOMAIN lives = 1..Len(lives)
  <1>1. /\ today \in Memory!Days /\ MaxDay \in Nat \ {0} /\ Newest \in Nat \ {0}
        /\ LivesTrue(lives, today) /\ AuditTrue(lives, audit, today)
    BY OperationsAssumption DEF MemoryInv
  <1>2. today \in Nat /\ today >= 1 /\ today <= MaxDay BY <1>1 DEF Memory!Days
  <1>3. lives \in Seq(LifeRecord) BY <1>1 DEF LivesTrue
  <1>4. Len(lives) \in Nat /\ DOMAIN lives = 1..Len(lives) BY <1>3
  <1> QED BY <1>1, <1>2, <1>3, <1>4

\* Nothing that happened is undone by a change of the lifecycles.
LEMMA MemoryLater ==
  ASSUME MemoryInv, UNCHANGED memory, today' \in Memory!Days, today' >= today,
         LivesTrue(lives', today'), AuditTrue(lives', audit', today'),
         \A d \in Nat \ {0} : /\ SentOn(lives, d) \subseteq SentOn(lives', d)
                              /\ SoldOn(lives, d) \subseteq SoldOn(lives', d)
                              /\ BilledOn(lives, d) \subseteq BilledOn(lives', d)
  PROVE  MemoryInv'
  <1>1. ASSUME NEW d \in DOMAIN memory PROVE RowTrue(lives', memory[d], d)
    <2>1. RowTrue(lives, memory[d], d) /\ d \in Nat \ {0} BY DEF MemoryInv
    <2>2. today \in Nat /\ today' \in Nat /\ LivesTrue(lives, today) BY MemoryTypes DEF Memory!Days
    <2> QED BY <2>1, <2>2, RowTrueLater
  <1>2. DOMAIN memory \subseteq Nat \ {0} BY DEF MemoryInv
  <1> QED BY <1>1, <1>2 DEF MemoryInv

LEMMA BuildIsTrue ==
  ASSUME MemoryInv, memory' \in {memory, Memory!Archive(Memory!Result)}, UNCHANGED <<today, lives,
         audit>>
  PROVE  /\ MemoryInv'
         /\ \A d \in DOMAIN memory : d \in DOMAIN memory' /\ Keeping(memory[d], memory'[d])
  <1>1. CASE memory' = memory
    <2>1. MemoryInv' BY <1>1 DEF MemoryInv
    <2>2. ASSUME NEW d \in DOMAIN memory PROVE Keeping(memory[d], memory[d])
      <3>1. memory[d].trades \in Nat /\ memory[d].attempts \in Nat
        BY DEF MemoryInv, RowTrue, MemoryRow
      <3> QED BY <3>1 DEF Keeping
    <2> QED BY <1>1, <2>1, <2>2
  <1>2. CASE memory' = Memory!Archive(Memory!Result)
    <2> DEFINE kept == Memory!Archive(Memory!Result)
    <2>1. /\ DOMAIN kept \subseteq Nat \ {0} /\ \A d \in DOMAIN kept : RowTrue(lives, kept[d], d)
          /\ \A d \in DOMAIN memory : d \in DOMAIN kept /\ Keeping(memory[d], kept[d])
      BY ArchiveKeeps
    <2> HIDE DEF kept
    <2>2. memory' = kept BY <1>2 DEF kept
    <2>3. MemoryInv' BY <2>1, <2>2 DEF MemoryInv
    <2> QED BY <2>1, <2>2, <2>3
  <1> QED BY <1>1, <1>2

\* Of today nothing comes later.
LEMMA AuditToday ==
  ASSUME MemoryInv, NEW files \in SUBSET (audit \cup {today})
  PROVE  AuditTrue(lives, files, today)
  <1>1. files \subseteq 1..today BY MemoryTypes DEF AuditTrue
  <1>2. ASSUME NEW a \in files, NEW i \in DOMAIN lives, lives[i].opened > a \/ lives[i].closed > a
        PROVE  Len(lives) - i < Newest
    <2>1. CASE a \in audit BY <1>2, <2>1, MemoryTypes DEF AuditTrue
    <2>2. CASE a = today
      <3>1. /\ lives[i].opened \in Nat /\ lives[i].opened <= today /\ today \in Nat
            /\ lives[i].closed \in Nat /\ lives[i].closed <= today
        BY MemoryTypes, LifeOf
      <3> QED BY <1>2, <2>2, <3>1
    <2> QED BY <2>1, <2>2
  <1> QED BY <1>1, <1>2 DEF AuditTrue

LEMMA AuditIsTrue ==
  ASSUME MemoryInv, UNCHANGED <<today, lives, memory>>, audit' \in SUBSET (audit \cup {today})
  PROVE  MemoryInv'
  <1>1. AuditTrue(lives, audit', today) BY AuditToday
  <1>2. today \in Memory!Days /\ today >= today /\ LivesTrue(lives, today)
    BY MemoryTypes DEF MemoryInv
  <1> QED BY <1>1, <1>2, MemoryLater

LEMMA NewDayIsTrue == MemoryInv /\ Memory!NewDay => MemoryInv'
  <1> SUFFICES ASSUME MemoryInv, Memory!NewDay PROVE MemoryInv' OBVIOUS
  <1>1. /\ today' = today + 1 /\ today < MaxDay /\ UNCHANGED <<lives, audit, memory>>
    BY DEF Memory!NewDay
  <1>2. today' \in Memory!Days /\ today' >= today BY <1>1, MemoryTypes DEF Memory!Days
  <1>3. LivesTrue(lives, today')
    <2>1. lives \in Seq(LifeRecord) BY MemoryTypes
    <2>2. ASSUME NEW i \in DOMAIN lives
          PROVE  lives[i].opened \in 1..today' /\ lives[i].closed \in 0..today'
      BY <1>1, MemoryTypes, LifeOf
    <2> QED BY <2>1, <2>2, MemoryTypes DEF LivesTrue
  <1>4. AuditTrue(lives, audit, today')
    <2>1. audit \subseteq 1..today' BY <1>1, MemoryTypes DEF AuditTrue
    <2> QED BY <2>1, MemoryTypes DEF AuditTrue
  <1> QED BY <1>1, <1>2, <1>3, <1>4, MemoryLater

\* A change of one lifecycle, at a place the audit does not mind.
LEMMA ChangeIsTrue ==
  ASSUME MemoryInv, UNCHANGED <<today, audit, memory>>, NEW n \in DOMAIN lives, NEW l \in LifeRecord,
         lives' = [lives EXCEPT ![n] = l],
         l.id = n, l.opened = lives[n].opened, l.filled = lives[n].filled,
         lives[n].charged => l.charged,
         l.closed = lives[n].closed \/ (n = Len(lives) /\ lives[n].closed = Memory!Open
           /\ l.closed = today)
  PROVE  MemoryInv'
  <1>1. /\ lives' \in Seq(LifeRecord) /\ DOMAIN lives' = DOMAIN lives /\ Len(lives') = Len(lives)
        /\ lives'[n] = l /\ \A i \in DOMAIN lives : i # n => lives'[i] = lives[i]
    BY MemoryTypes
  <1>2. /\ today \in Nat /\ today >= 1 /\ LivesTrue(lives, today) /\ AuditTrue(lives, audit, today)
        /\ Newest \in Nat \ {0} /\ Len(lives) \in Nat /\ DOMAIN lives = 1..Len(lives)
    BY MemoryTypes
  <1>3. /\ \A i \in DOMAIN lives :
             /\ lives[i].id = i /\ lives[i].opened \in 1..today /\ lives[i].closed \in 0..today
             /\ lives[i].closed # Memory!Open => lives[i].opened <= lives[i].closed
             /\ lives[i].closed = Memory!Open => i = Len(lives)
        /\ \A i, j \in DOMAIN lives :
             i < j => lives[i].opened <= lives[j].opened /\ lives[i].closed <= lives[j].opened
    BY <1>2 DEF LivesTrue
  <1>4. ASSUME NEW i \in DOMAIN lives
        PROVE  /\ lives'[i].opened = lives[i].opened /\ lives'[i].filled = lives[i].filled
               /\ lives'[i].id = i /\ (lives[i].charged => lives'[i].charged)
               /\ \/ lives'[i].closed = lives[i].closed
                  \/ i = Len(lives) /\ lives[i].closed = Memory!Open /\ lives'[i].closed = today
    <2>1. CASE i = n BY <1>1, <2>1
    <2>2. CASE i # n BY <1>1, <1>3, <2>2
    <2> QED BY <2>1, <2>2
  <1>5. LivesTrue(lives', today)
    <2>1. ASSUME NEW i \in DOMAIN lives
          PROVE  /\ lives'[i].id = i /\ lives'[i].opened \in 1..today /\ lives'[i].closed \in 0..today
                 /\ lives'[i].closed # Memory!Open => lives'[i].opened <= lives'[i].closed
                 /\ lives'[i].closed = Memory!Open => i = Len(lives)
      BY <1>2, <1>3, <1>4 DEF Memory!Open
    <2>2. ASSUME NEW i \in DOMAIN lives, NEW j \in DOMAIN lives, i < j
          PROVE  lives'[i].opened <= lives'[j].opened /\ lives'[i].closed <= lives'[j].opened
      <3>1. i # Len(lives) BY <1>2, <2>2
      <3> QED BY <1>3, <1>4, <2>2, <3>1
    <2> QED BY <1>1, <2>1, <2>2 DEF LivesTrue
  <1>6. AuditTrue(lives', audit, today)
    <2>1. ASSUME NEW a \in audit, NEW i \in DOMAIN lives, lives'[i].opened > a \/ lives'[i].closed > a
          PROVE  Len(lives) - i < Newest
      <3>1. CASE i = Len(lives) BY <1>2, <3>1
      <3>2. CASE i # Len(lives)
        <4>1. lives[i].opened > a \/ lives[i].closed > a BY <1>4, <2>1, <3>2
        <4> QED BY <1>2, <4>1 DEF AuditTrue
      <3> QED BY <3>1, <3>2
    <2> QED BY <1>1, <1>2, <2>1 DEF AuditTrue
  <1>7. ASSUME NEW d \in Nat \ {0}
        PROVE  /\ SentOn(lives, d) \subseteq SentOn(lives', d)
               /\ SoldOn(lives, d) \subseteq SoldOn(lives', d)
               /\ BilledOn(lives, d) \subseteq BilledOn(lives', d)
    <2>1. \A i \in SoldOn(lives, d) : i \in SoldOn(lives', d)
      BY <1>1, <1>4, <1>7 DEF SoldOn, Memory!Open
    <2>2. \A i \in BilledOn(lives, d) : i \in BilledOn(lives', d) BY <1>4, <2>1 DEF BilledOn, SoldOn
    <2>3. \A i \in SentOn(lives, d) : i \in SentOn(lives', d) BY <1>1, <1>4 DEF SentOn
    <2> QED BY <2>1, <2>2, <2>3
  <1>8. today \in Memory!Days /\ today >= today BY <1>2 DEF MemoryInv
  <1> QED BY <1>5, <1>6, <1>7, <1>8, MemoryLater

LEMMA CloseIsTrue == MemoryInv /\ Memory!Close => MemoryInv'
  <1> SUFFICES ASSUME MemoryInv, Memory!Close PROVE MemoryInv' OBVIOUS
  <1> DEFINE n == Len(lives)
             l == [lives[n] EXCEPT !.closed = today]
  <1>1. n \in DOMAIN lives
    <2>1. lives # <<>> BY DEF Memory!Close, Memory!Holding
    <2> QED BY <2>1, MemoryTypes
  <1>2. lives' = [lives EXCEPT ![n] = l] /\ lives[n].closed = Memory!Open
          /\ UNCHANGED <<today, audit, memory>>
    BY DEF Memory!Close, Memory!Holding
  <1>3. lives[n] \in LifeRecord /\ lives[n].id = n /\ today \in Nat BY <1>1, MemoryTypes, LifeOf
  <1>4. /\ l \in LifeRecord /\ l.id = n /\ l.opened = lives[n].opened /\ l.filled = lives[n].filled
        /\ l.charged = lives[n].charged /\ l.closed = today
    BY <1>3 DEF LifeRecord
  <1> HIDE DEF l
  <1> QED BY <1>1, <1>2, <1>4, ChangeIsTrue

LEMMA ChargeIsTrue == ASSUME NEW n \in DOMAIN lives PROVE MemoryInv /\ Memory!Charge(n) => MemoryInv'
  <1> SUFFICES ASSUME MemoryInv, Memory!Charge(n) PROVE MemoryInv' OBVIOUS
  <1> DEFINE l == [lives[n] EXCEPT !.charged = TRUE]
  <1>2. lives' = [lives EXCEPT ![n] = l] /\ UNCHANGED <<today, audit, memory>>
    BY DEF Memory!Charge
  <1>3. lives[n] \in LifeRecord /\ lives[n].id = n BY MemoryTypes, LifeOf
  <1>4. /\ l \in LifeRecord /\ l.id = n /\ l.opened = lives[n].opened /\ l.filled = lives[n].filled
        /\ l.charged /\ l.closed = lives[n].closed
    BY <1>3 DEF LifeRecord
  <1> HIDE DEF l
  <1> QED BY <1>2, <1>4, ChangeIsTrue

\* With another lifecycle the window still holds those of after a health file's day.
LEMMA RoomForOneMore ==
  ASSUME MemoryInv, Memory!WithinWindow, NEW a \in audit, NEW i \in DOMAIN lives,
         lives[i].opened > a \/ lives[i].closed > a
  PROVE  Len(lives) + 1 - i < Newest
  <1> DEFINE m == Memory!Min(audit)
             n == Len(lives)
             P == {k \in DOMAIN lives : lives[k].opened >= m \/ lives[k].closed >= m}
  <1>1. /\ today \in Nat /\ LivesTrue(lives, today) /\ n \in Nat /\ DOMAIN lives = 1..n
        /\ audit \subseteq 1..today /\ Newest \in Nat /\ lives \in Seq(LifeRecord)
    BY MemoryTypes DEF AuditTrue
  <1>2. m \in Nat /\ a \in Nat /\ m <= a
    <2>1. audit \in SUBSET Nat /\ audit # {} BY <1>1
    <2>2. Memory!Min(audit) \in audit /\ \A x \in audit : Memory!Min(audit) <= x BY <2>1, LeastDay
    <2> QED BY <2>1, <2>2
  <1>3. Cardinality(P) < Newest
    <2>1. {l \in Memory!ToSet(lives) : l.opened >= m \/ l.closed >= m} = {lives[k] : k \in P}
      BY DEF Memory!ToSet
    <2>2. P \in SUBSET DOMAIN lives OBVIOUS
    <2>3. Cardinality({lives[k] : k \in P}) = Cardinality(P) BY <1>1, <2>2, LivesCounted
    <2>4. audit # {} OBVIOUS
    <2> QED BY <2>1, <2>3, <2>4, MemoryCount DEF Memory!WithinWindow
  <1>4. i..n \subseteq P
    <2> SUFFICES ASSUME NEW k \in i..n PROVE k \in P OBVIOUS
    <2>1. k \in DOMAIN lives /\ i \in Nat /\ k \in Nat /\ i <= k BY <1>1
    <2>2. lives[i].opened \in Nat /\ lives[i].closed \in Nat /\ lives[k].opened \in Nat
            /\ lives[k].closed \in Nat
      BY <1>1, <2>1, LifeOf
    <2>3. k = i \/ (lives[i].opened <= lives[k].opened /\ lives[i].closed <= lives[k].opened)
      BY <1>1, <2>1 DEF LivesTrue
    <2>4. k = i \/ lives[k].opened > a BY <1>2, <2>2, <2>3
    <2> HIDE DEF m
    <2>5. lives[k].opened >= m \/ lives[k].closed >= m BY <1>2, <2>2, <2>4
    <2> QED BY <2>1, <2>5
  <1> HIDE DEF P, m
  <1>5. IsFiniteSet(P) /\ Cardinality(P) \in Nat BY <1>1, PlacesAreFinite DEF P
  <1>6. i \in Nat /\ i <= n BY <1>1
  <1>7. Cardinality(i..n) = n - i + 1 BY <1>1, <1>6, FS_Interval
  <1>8. Cardinality(i..n) <= Cardinality(P) BY <1>4, <1>5, FS_Subset
  <1> QED BY <1>1, <1>3, <1>5, <1>6, <1>7, <1>8

LEMMA EnterIsTrue == ASSUME NEW filled \in BOOLEAN
      PROVE MemoryInv /\ Memory!Enter(filled) => MemoryInv'
  <1> SUFFICES ASSUME MemoryInv, Memory!Enter(filled) PROVE MemoryInv' OBVIOUS
  <1> DEFINE n == Len(lives)
             l == [id |-> n + 1, opened |-> today, filled |-> filled, charged |-> FALSE,
                   closed |-> IF filled THEN Memory!Open ELSE today]
  <1>1. lives' = Append(lives, l) /\ UNCHANGED <<today, audit, memory>> /\ ~Memory!Holding
          /\ Memory!WithinWindow
    BY DEF Memory!Enter
  <1>2. /\ today \in Nat /\ today >= 1 /\ LivesTrue(lives, today) /\ AuditTrue(lives, audit, today)
        /\ Newest \in Nat \ {0} /\ n \in Nat /\ DOMAIN lives = 1..n /\ lives \in Seq(LifeRecord)
    BY MemoryTypes
  <1>3. /\ l \in LifeRecord /\ l.id = n + 1 /\ l.opened = today /\ l.closed \in {0, today}
    BY <1>2 DEF LifeRecord, Memory!Open
  <1> HIDE DEF l
  <1>4. /\ lives' \in Seq(LifeRecord) /\ Len(lives') = n + 1 /\ DOMAIN lives' = 1..(n + 1)
        /\ lives'[n + 1] = l /\ \A i \in DOMAIN lives : lives'[i] = lives[i]
    BY <1>1, <1>2, <1>3
  <1>5. /\ \A i \in DOMAIN lives :
             /\ lives[i].id = i /\ lives[i].opened \in 1..today /\ lives[i].closed \in 0..today
             /\ lives[i].closed # Memory!Open => lives[i].opened <= lives[i].closed
             /\ lives[i].closed = Memory!Open => i = n
        /\ \A i, j \in DOMAIN lives :
             i < j => lives[i].opened <= lives[j].opened /\ lives[i].closed <= lives[j].opened
    BY <1>2 DEF LivesTrue
  <1>6. \A i \in DOMAIN lives : lives[i].closed # Memory!Open
    <2> SUFFICES ASSUME NEW i \in DOMAIN lives, lives[i].closed = Memory!Open PROVE FALSE OBVIOUS
    <2>1. i = n /\ lives # <<>> BY <1>2, <1>5
    <2> QED BY <1>1, <2>1 DEF Memory!Holding
  <1>7. LivesTrue(lives', today)
    <2>1. ASSUME NEW i \in DOMAIN lives'
          PROVE  /\ lives'[i].id = i /\ lives'[i].opened \in 1..today /\ lives'[i].closed \in 0..today
                 /\ lives'[i].closed # Memory!Open => lives'[i].opened <= lives'[i].closed
                 /\ lives'[i].closed = Memory!Open => i = Len(lives')
      <3>1. CASE i \in DOMAIN lives BY <1>2, <1>4, <1>5, <1>6, <3>1 DEF Memory!Open
      <3>2. CASE i \notin DOMAIN lives
        <4>1. i = n + 1 BY <1>2, <1>4, <3>2
        <4> QED BY <1>2, <1>3, <1>4, <4>1 DEF Memory!Open
      <3> QED BY <3>1, <3>2
    <2>2. ASSUME NEW i \in DOMAIN lives', NEW j \in DOMAIN lives', i < j
          PROVE  lives'[i].opened <= lives'[j].opened /\ lives'[i].closed <= lives'[j].opened
      <3>1. i \in DOMAIN lives /\ lives'[i] = lives[i] BY <1>2, <1>4, <2>2
      <3>2. CASE j \in DOMAIN lives BY <1>4, <1>5, <2>2, <3>1, <3>2
      <3>3. CASE j \notin DOMAIN lives
        <4>1. j = n + 1 BY <1>2, <1>4, <3>3
        <4>2. lives'[j].opened = today BY <1>3, <1>4, <4>1
        <4> QED BY <1>2, <1>5, <3>1, <4>2
      <3> QED BY <3>2, <3>3
    <2> QED BY <1>4, <2>1, <2>2 DEF LivesTrue
  <1>8. AuditTrue(lives', audit, today)
    <2>1. ASSUME NEW a \in audit, NEW i \in DOMAIN lives', lives'[i].opened > a \/ lives'[i].closed > a
          PROVE  Len(lives') - i < Newest
      <3>1. CASE i \in DOMAIN lives
        <4>1. lives[i].opened > a \/ lives[i].closed > a BY <1>4, <2>1, <3>1
        <4>2. n + 1 - i < Newest BY <1>1, <3>1, <4>1, RoomForOneMore
        <4> QED BY <1>4, <4>2
      <3>2. CASE i \notin DOMAIN lives BY <1>2, <1>4, <3>2
      <3> QED BY <3>1, <3>2
    <2> QED BY <1>2, <2>1 DEF AuditTrue
  <1>9. ASSUME NEW d \in Nat \ {0}
        PROVE  /\ SentOn(lives, d) \subseteq SentOn(lives', d)
               /\ SoldOn(lives, d) \subseteq SoldOn(lives', d)
               /\ BilledOn(lives, d) \subseteq BilledOn(lives', d)
    <2>1. DOMAIN lives \subseteq DOMAIN lives' BY <1>2, <1>4
    <2> QED BY <1>4, <2>1 DEF SentOn, SoldOn, BilledOn
  <1>10. today \in Memory!Days /\ today >= today BY <1>2 DEF MemoryInv
  <1> QED BY <1>1, <1>7, <1>8, <1>9, <1>10, MemoryLater

LEMMA MemoryStart == Memory!Init => MemoryInv
  <1> SUFFICES ASSUME Memory!Init PROVE MemoryInv OBVIOUS
  <1>1. today = 1 /\ lives = <<>> /\ audit = {} /\ memory = <<>> BY DEF Memory!Init
  <1>2. today \in Memory!Days BY <1>1, OperationsAssumption DEF Memory!Days
  <1>3. LivesTrue(lives, today) BY <1>1 DEF LivesTrue
  <1>4. AuditTrue(lives, audit, today) BY <1>1 DEF AuditTrue
  <1>5. DOMAIN memory = {} BY <1>1
  <1> QED BY <1>2, <1>3, <1>4, <1>5 DEF MemoryInv

LEMMA MemoryNext == MemoryInv /\ (Memory!Next \/ UNCHANGED history) => MemoryInv'
  <1> SUFFICES ASSUME MemoryInv, (Memory!Next \/ UNCHANGED history) PROVE MemoryInv' OBVIOUS
  <1>1. CASE Memory!Build BY <1>1, BuildIsTrue DEF Memory!Build
  <1>2. CASE Memory!BuildFails BY <1>2, BuildIsTrue DEF Memory!BuildFails
  <1>3. CASE Memory!Receipt
    <2>1. audit' \in SUBSET (audit \cup {today}) BY <1>3 DEF Memory!Receipt
    <2> QED BY <1>3, <2>1, AuditIsTrue DEF Memory!Receipt
  <1>4. CASE Memory!Kill
    <2>1. audit' \in SUBSET (audit \cup {today}) BY <1>4 DEF Memory!Kill
    <2> QED BY <1>4, <2>1, AuditIsTrue DEF Memory!Kill
  <1>5. CASE Memory!NewDay BY <1>5, NewDayIsTrue
  <1>6. CASE Memory!Close BY <1>6, CloseIsTrue
  <1>7. ASSUME NEW filled \in BOOLEAN, Memory!Enter(filled) PROVE MemoryInv' BY <1>7, EnterIsTrue
  <1>8. ASSUME NEW i \in DOMAIN lives, Memory!Charge(i) PROVE MemoryInv' BY <1>8, ChargeIsTrue
  <1>9. CASE UNCHANGED history BY <1>9 DEF history, MemoryInv
  <1> QED BY <1>1, <1>2, <1>3, <1>4, <1>5, <1>6, <1>7, <1>8, <1>9 DEF Memory!Next

LEMMA RememberedIsTrue == MemoryInv => Memory!MemoryIsTrue
  <1> SUFFICES ASSUME MemoryInv, NEW d \in DOMAIN memory
               PROVE  LET all == Memory!ReviewOf(Memory!ToSet(lives), d) IN
                      /\ memory[d].trades <= all.trades /\ memory[d].attempts <= all.attempts
                      /\ memory[d].net =>
                           Cardinality({l \in Memory!Trades(Memory!ToSet(lives),
                                   d) : l.charged}) >= memory[d].trades
    BY MemoryCount DEF Memory!MemoryIsTrue
  <1> DEFINE L == {lives[i] : i \in DOMAIN lives}
  <1>1. today \in Nat /\ LivesTrue(lives, today) /\ RowTrue(lives, memory[d], d)
    BY MemoryTypes DEF MemoryInv
  <1>2. Memory!ToSet(lives) = L BY DEF Memory!ToSet
  <1>3. /\ SoldOn(lives, d) \cap DOMAIN lives = SoldOn(lives, d)
        /\ SentOn(lives, d) \cap DOMAIN lives = SentOn(lives, d)
    BY DEF SoldOn, SentOn
  <1>4. /\ Memory!ReviewOf(L, d).trades = Cardinality(SoldOn(lives, d))
        /\ Memory!ReviewOf(L, d).attempts = Cardinality(SentOn(lives, d))
    <2> DEFINE row == Memory!ReviewOf(L, d)
    <2>0. DOMAIN lives \in SUBSET DOMAIN lives OBVIOUS
    <2>1. /\ row \in MemoryRow
          /\ row.trades = Cardinality(SoldOn(lives, d) \cap DOMAIN lives)
          /\ row.attempts = Cardinality(SentOn(lives, d) \cap DOMAIN lives)
          /\ row.net <=> SoldOn(lives, d) \cap DOMAIN lives # {}
                         /\ SoldOn(lives, d) \cap DOMAIN lives \subseteq BilledOn(lives, d)
          /\ Memory!Attempts(L, d) \cup Memory!Trades(L, d) = {} =>
               (SentOn(lives, d) \cup SoldOn(lives, d)) \cap DOMAIN lives = {}
      BY <1>1, <2>0, Reviews
    <2> HIDE DEF L
    <2> QED BY <1>3, <2>1
  <1>5. {l \in Memory!Trades(L, d) : l.charged} = {lives[i] : i \in BilledOn(lives, d)}
    BY DEF Memory!Trades, BilledOn, SoldOn
  <1>6. BilledOn(lives, d) \in SUBSET DOMAIN lives BY DEF BilledOn, SoldOn
  <1>7. Cardinality({lives[i] : i \in BilledOn(lives, d)}) = Cardinality(BilledOn(lives, d))
          /\ Cardinality(BilledOn(lives, d)) \in Nat
    BY <1>1, <1>6, LivesCounted, PlacesAreFinite
  <1>8. /\ memory[d].trades <= Cardinality(SoldOn(lives, d))
        /\ memory[d].attempts <= Cardinality(SentOn(lives, d))
        /\ memory[d].net => memory[d].trades <= Cardinality(BilledOn(lives, d))
        /\ memory[d].trades \in Nat
    BY <1>1 DEF RowTrue, MemoryRow
  <1> HIDE DEF L
  <1>9. memory[d].net => Cardinality({l \in Memory!Trades(L, d) : l.charged}) >= memory[d].trades
    BY <1>5, <1>7, <1>8
  <1> QED BY <1>2, <1>4, <1>8, <1>9

\* A step keeps what is remembered of a day.
LEMMA StepKeeps ==
  MemoryInv /\ (Memory!Next \/ UNCHANGED history) =>
       \A d \in DOMAIN memory : d \in DOMAIN memory' /\ Keeping(memory[d], memory'[d])
  <1> SUFFICES ASSUME MemoryInv, (Memory!Next \/ UNCHANGED history)
               PROVE  \A d \in DOMAIN memory : d \in DOMAIN memory' /\ Keeping(memory[d], memory'[d])
    OBVIOUS
  <1>1. CASE Memory!Build BY <1>1, BuildIsTrue DEF Memory!Build
  <1>2. CASE Memory!BuildFails BY <1>2, BuildIsTrue DEF Memory!BuildFails
  <1>3. CASE UNCHANGED memory
    <2>1. ASSUME NEW d \in DOMAIN memory PROVE Keeping(memory[d], memory[d])
      <3>1. memory[d].trades \in Nat /\ memory[d].attempts \in Nat
        BY DEF MemoryInv, RowTrue, MemoryRow
      <3> QED BY <3>1 DEF Keeping
    <2> QED BY <1>3, <2>1
  <1> QED
    BY <1>1, <1>2, <1>3 DEF Memory!Next, Memory!Receipt, Memory!Kill, Memory!NewDay, Memory!Close,
        Memory!Enter, Memory!Charge, history

-----------------------------------------------------------------------------
(* Recorder and Memory *)

LEMMA OneRecordStep ==
  [Step]_everything =>
    (Recorder!Next \/ UNCHANGED recording) /\ (Memory!Next \/ UNCHANGED history)
  BY DEF Step, everything

\* While positions may be opened, what was received for a log in a session is what is on
\* disk, in the batch and in the queue, in order, and the numbers of the journal tell of
\* every row that is missing between two (service.py 160-215, replay_journal.py). What is
\* remembered of a day happened, its net result is only called known when every charge is,
\* and no build takes back a trade, an attempt or a known result (dashboard/learning.py
\* 60-190, dashboard/session_audit.py).
THEOREM RecordsAreTrueHolds == Operations => RecordsAreTrue
  <1>1. Start => RecorderInv /\ MemoryInv BY RecorderStart, MemoryStart DEF Start
  <1>2. RecorderInv /\ MemoryInv /\ [Step]_everything => RecorderInv' /\ MemoryInv'
    BY OneRecordStep, RecorderNext, MemoryNext
  <1>3. RecorderInv /\ MemoryInv => Recorder!RecordingIsTrue /\ Memory!MemoryIsTrue
    BY RecorderIsTrue, RememberedIsTrue
  <1>4. MemoryInv /\ [Step]_everything =>
          [\A d \in DOMAIN memory :
             /\ d \in DOMAIN memory'
             /\ memory'[d].trades >= memory[d].trades
             /\ memory'[d].attempts >= memory[d].attempts
             /\ memory[d].net /\ memory'[d].trades = memory[d].trades => memory'[d].net]_(Memory!vars)
    BY OneRecordStep, StepKeeps DEF Keeping
  <1> QED BY <1>1, <1>2, <1>3, <1>4, PTL DEF Operations, RecordsAreTrue, Memory!DaysAreRemembered

=============================================================================
