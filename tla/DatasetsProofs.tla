--------------------------- MODULE DatasetsProofs ---------------------------
EXTENDS Datasets, FiniteSetTheorems, SequenceTheorems, WellFoundedInduction, TLAPS

\* A set of numbers has a least one.
LEMMA LeastNumber ==
  ASSUME NEW S, S \subseteq Nat, S # {}
  PROVE  \E n \in S : \A m \in S : n <= m
<1> DEFINE R == {p \in Nat \X Nat : p[1] < p[2]}
<1>1. R = OpToRel(<, Nat)
  BY DEF OpToRel
<1>2. IsWellFoundedOn(R, Nat)
  BY <1>1, NatLessThanWellFounded, Zenon
<1>3. \E n \in S : \A m \in S : ~(<<m, n>> \in R)
  <2> HIDE DEF R
  <2> QED  BY <1>2, WFMin
<1>4. PICK n \in S : \A m \in S : ~(<<m, n>> \in R)
  BY <1>3
<1>5. ASSUME NEW m \in S
      PROVE  n <= m
  <2>1. m \in Nat /\ n \in Nat /\ <<m, n>> \notin R
    BY <1>4
  <2>2. ~(m < n)
    BY <2>1
  <2> QED  BY <2>1, <2>2
<1> QED  BY <1>5

\* What is in hand before the first row of a batch.
Start == [ok |-> TRUE, rows |-> rows, births |-> births, inserted |-> 0]

\* What is in hand after each row of a batch.
Way(p, N, d, shape, mode, batch) ==
  p = [n \in 0..N |-> IF n = 0 THEN Start ELSE PutRow(d, shape, mode, p[n - 1], batch[n])]

LEMMA WayExists ==
  ASSUME NEW N \in Nat, NEW d, NEW shape, NEW mode, NEW batch
  PROVE  \E p : Way(p, N, d, shape, mode, batch)
<1> DEFINE Bad == {n \in Nat : ~ \E p : Way(p, n, d, shape, mode, batch)}
<1>1. SUFFICES ASSUME Bad # {} PROVE FALSE
  OBVIOUS
<1>2. PICK n \in Bad : \A m \in Bad : n <= m
  <2> HIDE DEF Bad
  <2>1. Bad \subseteq Nat BY DEF Bad
  <2> QED BY <1>1, <2>1, LeastNumber
<1>3. n # 0
  <2>1. Way([k \in 0..0 |-> Start], 0, d, shape, mode, batch)
    BY DEF Way
  <2> QED BY <2>1
<1>4. PICK p : Way(p, n - 1, d, shape, mode, batch)
  BY <1>2, <1>3
<1> DEFINE q == [k \in 0..n |-> IF k = n THEN PutRow(d, shape, mode, p[n - 1], batch[n]) ELSE p[k]]
<1>5. \A k \in 0..n : q[k] = IF k = 0 THEN Start ELSE PutRow(d, shape, mode, q[k - 1], batch[k])
  <2>1. TAKE k \in 0..n
  <2>2. CASE k = n
    BY <1>3, <2>2
  <2>3. CASE k # n
    <3>1. k \in 0..(n - 1) /\ (k # 0 => k - 1 \in 0..n /\ k - 1 # n)
      BY <2>3
    <3>2. p[k] = IF k = 0 THEN Start ELSE PutRow(d, shape, mode, p[k - 1], batch[k])
      BY <1>4, <3>1 DEF Way
    <3>3. q[k] = p[k] /\ (k # 0 => q[k - 1] = p[k - 1])
      BY <3>1, <2>3
    <3> HIDE DEF q
    <3> QED BY <3>2, <3>3
  <2> QED BY <2>2, <2>3
<1>6. Way(q, n, d, shape, mode, batch)
  BY <1>5, Zenon DEF Way
<1> QED BY <1>6, <1>2

LEMMA PutIsTheEnd ==
  ASSUME NEW d, NEW shape, NEW mode, NEW batch, Len(batch) \in Nat
  PROVE  \E p : /\ Way(p, Len(batch), d, shape, mode, batch)
                /\ Put(d, shape, mode, batch) = p[Len(batch)]
<1> DEFINE after == CHOOSE p : Way(p, Len(batch), d, shape, mode, batch)
<1>1. Way(after, Len(batch), d, shape, mode, batch)
  BY WayExists, Zenon
<1>2. Put(d, shape, mode, batch) = after[Len(batch)]
  BY DEF Put, Way, Start
<1> QED BY <1>1, <1>2

-----------------------------------------------------------------------------
(* One row of a batch, and a whole batch. *)

Cell == Vals \cup {Null}
Prints == UNION {[k -> Cell] : k \in SUBSET Cols}
Row == [id : Nat, ds : Datasets, vals : Values, print : Prints, birth : Nat]
RowsAre(rs, n) ==
    /\ rs \subseteq Row
    /\ \A r \in rs : r.birth = r.id /\ r.id \in 1..n
    /\ \A q, r \in rs : q.id = r.id => q = r
Form == [schema : Schema, key : SUBSET Cols]
Fits(shape, r) == Storable(shape, r.vals) /\ r.print = Mark(shape.key, r.vals)

\* What was in rs is still in qs, maybe with other values; what is new has a
\* number above n.
Stays(rs, qs, n) ==
    /\ \A r \in rs : \E q \in qs : q.id = r.id /\ q.ds = r.ds
    /\ \A q \in qs : q.id > n \/ \E r \in rs : q.id = r.id /\ q.ds = r.ds
Beside(d, rs, qs) == \A r \in Row : r.ds # d => (r \in rs <=> r \in qs)
Written(d, shape, rs, qs) == \A q \in qs : q \in rs \/ (q.ds = d /\ Fits(shape, q))

Hand == [ok : BOOLEAN, rows : SUBSET Row, births : Nat, inserted : Nat]

Follows(d, shape, acc, next) ==
    /\ next \in Hand /\ RowsAre(next.rows, next.births)
    /\ next.births \in {acc.births, acc.births + 1}
    /\ Stays(acc.rows, next.rows, acc.births)
    /\ Beside(d, acc.rows, next.rows)
    /\ Written(d, shape, acc.rows, next.rows)
    /\ \/ next.inserted = acc.inserted /\ Ids(d, next.rows) = Ids(d, acc.rows)
       \/ /\ next.inserted = acc.inserted + 1
          /\ Ids(d, next.rows) = Ids(d, acc.rows) \cup {acc.births + 1}

LEMMA MarkIsPrint ==
  ASSUME NEW key \in SUBSET Cols, NEW v \in Values
  PROVE  Mark(key, v) \in Prints
BY DEF Mark, Prints, Values, Cell

LEMMA PutRowStep ==
  ASSUME NEW d \in Datasets, NEW shape \in Form, NEW mode, NEW v \in Values,
         NEW acc \in Hand, RowsAre(acc.rows, acc.births),
         NEW next, next = PutRow(d, shape, mode, acc, v)
  PROVE  Follows(d, shape, acc, next)
<1> DEFINE print == Mark(shape.key, v)
           old == Clashing(d, print, acc.rows)
           up(r) == IF r \in old THEN [r EXCEPT !.vals = v] ELSE r
           new == [id |-> acc.births + 1, ds |-> d, vals |-> v, print |-> print,
                   birth |-> acc.births + 1]
<1>0. /\ acc.rows \subseteq Row /\ acc.births \in Nat /\ acc.inserted \in Nat
      /\ shape.key \in SUBSET Cols /\ print \in Prints
  BY MarkIsPrint DEF Hand, Form
<1>1. CASE ~acc.ok \/ ~Storable(shape, v) \/ (old # {} /\ mode = "insert")
  <2>1. next = [acc EXCEPT !.ok = FALSE]
    BY <1>1 DEF PutRow
  <2>2. next \in Hand /\ next.rows = acc.rows /\ next.births = acc.births /\ next.inserted = acc.inserted
    BY <2>1 DEF Hand
  <2> QED  BY <2>2, <1>0 DEF Follows, Stays, Beside, Written
<1>2. CASE ~(~acc.ok \/ ~Storable(shape, v) \/ (old # {} /\ mode = "insert")) /\ old # {}
  <2>1. next = [acc EXCEPT !.rows = {up(r) : r \in @}]
    BY <1>2 DEF PutRow
  <2>2. \A r \in acc.rows : /\ up(r) \in Row /\ up(r).id = r.id /\ up(r).ds = r.ds
                            /\ up(r).birth = r.birth
                            /\ (up(r) = r \/ (r.ds = d /\ up(r).vals = v /\ up(r).print = print))
    BY <1>0 DEF Row, Clashing
  <2>3. next.rows = {up(r) : r \in acc.rows} /\ next.births = acc.births /\ next.inserted = acc.inserted
        /\ next.ok = acc.ok
    BY <2>1 DEF Hand
  <2>4. next \in Hand
    <3>1. {up(r) : r \in acc.rows} \in SUBSET Row
      BY <2>2
    <3> QED  BY <3>1, <2>1 DEF Hand
  <2> HIDE DEF up, old, print
  <2>5. RowsAre(next.rows, next.births)
    <3>1. \A q \in next.rows : q.birth = q.id /\ q.id \in 1..next.births
      BY <2>2, <2>3 DEF RowsAre
    <3>2. \A q, r \in next.rows : q.id = r.id => q = r
      BY <2>2, <2>3 DEF RowsAre
    <3> QED  BY <3>1, <3>2, <2>4 DEF RowsAre, Hand
  <2>6. Stays(acc.rows, next.rows, acc.births)
    BY <2>2, <2>3 DEF Stays
  <2>7. Beside(d, acc.rows, next.rows)
    <3>2. SUFFICES ASSUME NEW r \in Row, r.ds # d PROVE r \in acc.rows <=> r \in next.rows
      BY DEF Beside
    <3>3. ASSUME r \in acc.rows PROVE r \in next.rows
      <4>1. up(r) = r
        BY <2>2, <3>2, <3>3
      <4> QED  BY <4>1, <3>3, <2>3
    <3>4. ASSUME r \in next.rows PROVE r \in acc.rows
      <4>1. PICK q \in acc.rows : r = up(q)
        BY <3>4, <2>3
      <4> QED  BY <4>1, <2>2, <3>2
    <3> QED  BY <3>3, <3>4
  <2>8. Written(d, shape, acc.rows, next.rows)
    <3>1. SUFFICES ASSUME NEW q \in next.rows PROVE q \in acc.rows \/ (q.ds = d /\ Fits(shape, q))
      BY DEF Written
    <3>2. PICK r \in acc.rows : q = up(r)
      BY <2>3
    <3>3. CASE up(r) = r
      BY <3>2, <3>3
    <3>4. CASE r.ds = d /\ up(r).vals = v /\ up(r).print = print
      BY <3>2, <3>4, <2>2, <1>2 DEF Fits, print
    <3> QED  BY <3>3, <3>4, <2>2
  <2>9. Ids(d, next.rows) = Ids(d, acc.rows)
    BY <2>2, <2>3 DEF Ids, RowsOf
  <2> QED  BY <2>3, <2>4, <2>5, <2>6, <2>7, <2>8, <2>9 DEF Follows
<1>3. CASE ~(~acc.ok \/ ~Storable(shape, v) \/ (old # {} /\ mode = "insert")) /\ old = {}
  <2>1. next = [acc EXCEPT !.rows = @ \cup {new}, !.births = @ + 1, !.inserted = @ + 1]
    BY <1>3 DEF PutRow, NextId
  <2>2. new \in Row
    BY <1>0 DEF Row
  <2>3. /\ next.rows = acc.rows \cup {new} /\ next.births = acc.births + 1
        /\ next.inserted = acc.inserted + 1 /\ next \in Hand
    <3> HIDE DEF new, old, print
    <3>1. acc.rows \cup {new} \in SUBSET Row
      BY <1>0, <2>2
    <3>2. acc = [ok |-> acc.ok, rows |-> acc.rows, births |-> acc.births, inserted |-> acc.inserted]
      BY DEF Hand
    <3>3. next = [ok |-> acc.ok, rows |-> acc.rows \cup {new}, births |-> acc.births + 1,
                  inserted |-> acc.inserted + 1]
      BY <2>1, <3>2
    <3>4. acc.ok \in BOOLEAN
      BY DEF Hand
    <3> QED  BY <3>1, <3>3, <3>4, <1>0 DEF Hand
  <2>4. /\ new.id = acc.births + 1 /\ new.birth = new.id /\ new.ds = d /\ new.vals = v
        /\ new.print = print
    OBVIOUS
  <2>5. Fits(shape, new)
    BY <2>4, <1>3 DEF Fits
  <2> HIDE DEF new, old, print
  <2>6. RowsAre(next.rows, next.births)
    BY <2>2, <2>3, <2>4, <1>0 DEF RowsAre
  <2>7. Stays(acc.rows, next.rows, acc.births)
    BY <2>3, <2>4, <1>0 DEF Stays
  <2>8. Beside(d, acc.rows, next.rows)
    BY <2>3, <2>4 DEF Beside
  <2>9. Written(d, shape, acc.rows, next.rows)
    BY <2>3, <2>4, <2>5 DEF Written
  <2>10. Ids(d, next.rows) = Ids(d, acc.rows) \cup {acc.births + 1}
    BY <2>3, <2>4 DEF Ids, RowsOf
  <2> QED  BY <2>3, <2>6, <2>7, <2>8, <2>9, <2>10 DEF Follows
<1> QED  BY <1>1, <1>2, <1>3

LEMMA NumbersAreFinite ==
  ASSUME NEW rs, NEW n \in Nat, RowsAre(rs, n), NEW d
  PROVE  /\ Ids(d, rs) \subseteq 1..n /\ IsFiniteSet(Ids(d, rs))
         /\ Cardinality(Ids(d, rs)) \in 0..n
<1>1. Ids(d, rs) \subseteq 1..n
  BY DEF Ids, RowsOf, RowsAre
<1>2. IsFiniteSet(1..n) /\ Cardinality(1..n) = n
  BY FS_Interval
<1>3. IsFiniteSet(Ids(d, rs)) /\ Cardinality(Ids(d, rs)) <= n
  BY <1>1, <1>2, FS_Subset
<1> QED  BY <1>1, <1>3, FS_CardinalityType

\* What holds all along a batch.
On(d, shape, acc, k) ==
    /\ acc \in Hand /\ RowsAre(acc.rows, acc.births)
    /\ births <= acc.births /\ acc.births <= births + k
    /\ Stays(rows, acc.rows, births)
    /\ Beside(d, rows, acc.rows)
    /\ Written(d, shape, rows, acc.rows)
    /\ Cardinality(Ids(d, acc.rows)) = Cardinality(Ids(d, rows)) + acc.inserted

LEMMA StartIsOn ==
  ASSUME NEW d \in Datasets, NEW shape \in Form, births \in Nat, RowsAre(rows, births)
  PROVE  On(d, shape, Start, 0)
<1>1. /\ Start \in Hand /\ Start.rows = rows /\ Start.births = births /\ Start.inserted = 0
  BY DEF Start, Hand, RowsAre
<1>2. Cardinality(Ids(d, rows)) \in Nat
  BY NumbersAreFinite
<1> QED  BY <1>1, <1>2 DEF On, Stays, Beside, Written

LEMMA OnGoesOn ==
  ASSUME NEW d \in Datasets, NEW shape \in Form, NEW mode, NEW v \in Values,
         births \in Nat, RowsAre(rows, births), NEW k \in Nat,
         NEW acc, On(d, shape, acc, k),
         NEW next, next = PutRow(d, shape, mode, acc, v)
  PROVE  On(d, shape, next, k + 1)
<1>1. acc \in Hand /\ RowsAre(acc.rows, acc.births)
  BY DEF On
<1>0. Follows(d, shape, acc, next)
  BY <1>1, PutRowStep
<1>2. /\ next \in Hand /\ RowsAre(next.rows, next.births)
      /\ next.births \in {acc.births, acc.births + 1}
      /\ Stays(acc.rows, next.rows, acc.births)
      /\ Beside(d, acc.rows, next.rows)
      /\ Written(d, shape, acc.rows, next.rows)
      /\ \/ next.inserted = acc.inserted /\ Ids(d, next.rows) = Ids(d, acc.rows)
         \/ /\ next.inserted = acc.inserted + 1
            /\ Ids(d, next.rows) = Ids(d, acc.rows) \cup {acc.births + 1}
  BY <1>0 DEF Follows
<1>3. acc.births \in Nat /\ acc.inserted \in Nat /\ next.births \in Nat
      /\ acc.rows \subseteq Row /\ next.rows \subseteq Row
  BY <1>1, <1>2 DEF Hand
<1>4. births <= next.births /\ next.births <= births + (k + 1)
  BY <1>2, <1>3 DEF On
<1>5. Stays(rows, next.rows, births)
  <2>1. Stays(rows, acc.rows, births) /\ births <= acc.births
    BY DEF On
  <2>2. ASSUME NEW q \in next.rows, ~(q.id > births)
        PROVE  \E r \in rows : q.id = r.id /\ q.ds = r.ds
    <3>1. q.id \in Nat
      BY <1>3 DEF Row
    <3>2. PICK p \in acc.rows : q.id = p.id /\ q.ds = p.ds
      BY <1>2, <1>3, <2>1, <2>2, <3>1 DEF Stays
    <3> QED  BY <3>2, <2>1, <2>2 DEF Stays
  <2>3. ASSUME NEW r \in rows
        PROVE  \E q \in next.rows : q.id = r.id /\ q.ds = r.ds
    <3>1. PICK p \in acc.rows : p.id = r.id /\ p.ds = r.ds
      BY <2>1 DEF Stays
    <3> QED  BY <3>1, <1>2 DEF Stays
  <2> QED  BY <2>2, <2>3 DEF Stays
<1>6. Beside(d, rows, next.rows)
  BY <1>2 DEF On, Beside
<1>7. Written(d, shape, rows, next.rows)
  BY <1>2 DEF On, Written
<1>8. Cardinality(Ids(d, next.rows)) = Cardinality(Ids(d, rows)) + next.inserted
  <2>1. Cardinality(Ids(d, acc.rows)) = Cardinality(Ids(d, rows)) + acc.inserted
        /\ Cardinality(Ids(d, rows)) \in Nat
    BY NumbersAreFinite DEF On
  <2>2. IsFiniteSet(Ids(d, acc.rows)) /\ acc.births + 1 \notin Ids(d, acc.rows)
    <3>1. IsFiniteSet(Ids(d, acc.rows)) /\ Ids(d, acc.rows) \subseteq 1..acc.births
      BY <1>1, <1>3, NumbersAreFinite
    <3> QED  BY <3>1, <1>3
  <2>3. Cardinality(Ids(d, acc.rows) \cup {acc.births + 1}) = Cardinality(Ids(d, acc.rows)) + 1
    BY <2>2, FS_AddElement
  <2>4. CASE next.inserted = acc.inserted /\ Ids(d, next.rows) = Ids(d, acc.rows)
    BY <2>1, <2>4
  <2>5. CASE /\ next.inserted = acc.inserted + 1
             /\ Ids(d, next.rows) = Ids(d, acc.rows) \cup {acc.births + 1}
    <3>1. Cardinality(Ids(d, next.rows)) = Cardinality(Ids(d, acc.rows)) + 1
      BY <2>3, <2>5, Zenon
    <3> QED  BY <3>1, <2>1, <2>5, <1>3
  <2> QED  BY <2>4, <2>5, <1>2
<1> QED  BY <1>2, <1>4, <1>5, <1>6, <1>7, <1>8 DEF On

\* A batch as a whole.
LEMMA BatchIsPut ==
  ASSUME NEW d \in Datasets, NEW shape \in Form, NEW mode, NEW batch \in Seq(Values),
         births \in Nat, RowsAre(rows, births)
  PROVE  On(d, shape, Put(d, shape, mode, batch), Len(batch))
<1> DEFINE N == Len(batch)
<1>0. N \in Nat /\ \A k \in 1..N : batch[k] \in Values
  OBVIOUS
<1>1. PICK p : Way(p, N, d, shape, mode, batch) /\ Put(d, shape, mode, batch) = p[N]
  BY <1>0, PutIsTheEnd
<1> HIDE DEF N
<1>2. p[0] = Start /\ \A k \in 1..N : p[k] = PutRow(d, shape, mode, p[k - 1], batch[k])
  BY <1>0, <1>1 DEF Way
<1> DEFINE Bad == {k \in 0..N : ~On(d, shape, p[k], k)}
<1>3. ASSUME Bad # {} PROVE FALSE
  <2>1. PICK k \in Bad : \A j \in Bad : k <= j
    <3>1. Bad \subseteq Nat
      BY <1>0
    <3> HIDE DEF Bad
    <3> QED  BY <1>3, <3>1, LeastNumber
  <2>2. k # 0
    BY <1>2, StartIsOn
  <2>3. k - 1 \in 0..N /\ k \in 1..N /\ k - 1 \in Nat /\ k - 1 \notin Bad
    BY <2>1, <2>2, <1>0
  <2>4. On(d, shape, p[k - 1], k - 1)
    BY <2>3
  <2>5. PICK j \in Nat : j = k - 1
    BY <2>3
  <2>6. On(d, shape, p[k], j + 1)
    <3>1. batch[k] \in Values /\ On(d, shape, p[j], j) /\ p[k] = PutRow(d, shape, mode, p[j], batch[k])
      BY <2>3, <2>4, <2>5, <1>0, <1>2
    <3> HIDE DEF Bad
    <3> QED  BY <3>1, OnGoesOn
  <2>7. j + 1 = k
    BY <2>5, <2>3
  <2> QED  BY <2>1, <2>6, <2>7
<1>4. N \in 0..N
  BY <1>0
<1>5. On(d, shape, p[N], N)
  BY <1>3, <1>4
<1> QED  BY <1>1, <1>5 DEF N

-----------------------------------------------------------------------------
(* The tables: types, the counts kept by hand, rows that fit. *)

Tabled == [Datasets -> [state : {"absent", "live", "deleted"}, slug : Slugs, schema : Schema,
                        key : SUBSET Cols, count : Nat]]
TableTypes ==
    /\ datasets \in Tabled
    /\ births \in 0..MaxRows
    /\ RowsAre(rows, births)
    /\ \A r \in rows : datasets[r.ds].state # "absent"
    /\ \A d \in Datasets : Wellformed(Shape(d))
Counted == \A d \in Datasets : datasets[d].count = Cardinality(Ids(d, rows))
Fitting ==
    \A d \in Datasets \ overtaken :
       /\ \A r \in rows : r.ds = d => Fits(Shape(d), r)
       /\ datasets[d].schema = NoSchema => \A r \in rows : r.ds # d
TableInv == TableTypes /\ Counted /\ Fitting

\* What a table step may do to the rows: keep, change and add, or take away.
Grows == births <= births' /\ Stays(rows, rows', births)
Loses(d, id) == rows' = rows \ RowAt(d, id) /\ births' = births

LEMMA FormOf ==
  ASSUME TableTypes, NEW d \in Datasets
  PROVE  /\ Shape(d) \in Form /\ Shape(d).schema = datasets[d].schema
         /\ Shape(d).key = datasets[d].key
         /\ datasets[d].schema \in Schema /\ datasets[d].key \in SUBSET Cols
         /\ datasets[d].count \in Nat
BY DEF TableTypes, Tabled, Shape, Form

LEMMA SchemaIsForm ==
  ASSUME NEW shape \in Form, Wellformed(shape), NEW batch
  PROVE  /\ WithSchema(shape, batch) \in Form /\ Wellformed(WithSchema(shape, batch))
         /\ WithSchema(shape, batch).key = shape.key
         /\ shape.schema # NoSchema => WithSchema(shape, batch) = shape
<1>1. Inferred(batch) \in Schema
  BY DEF Inferred, Schema
<1>2. CASE shape.schema = NoSchema
  <2>1. \A c \in shape.key : c \in Cols
    BY DEF Form
  <2>2. shape.key = {}
    BY <1>2, <2>1 DEF Wellformed, NoSchema
  <2>3. WithSchema(shape, batch) = [shape EXCEPT !.schema = Inferred(batch)]
    BY <1>2 DEF WithSchema
  <2>4. WithSchema(shape, batch).key = shape.key /\ WithSchema(shape, batch) \in Form
    BY <2>3, <1>1 DEF Form
  <2> QED  BY <2>2, <2>4, <1>2 DEF Wellformed
<1>3. CASE shape.schema # NoSchema
  BY <1>3 DEF WithSchema
<1> QED  BY <1>2, <1>3

\* A batch leaves the rows of other datasets as they are.
LEMMA OthersStay ==
  ASSUME TableTypes, NEW d \in Datasets, NEW shape, NEW acc, NEW n, On(d, shape, acc, n)
  PROVE  \A e \in Datasets \ {d} : /\ Ids(e, acc.rows) = Ids(e, rows)
                                   /\ \A r \in acc.rows : r.ds = e => r \in rows
<1>1. TAKE e \in Datasets \ {d}
<1>2. rows \subseteq Row /\ acc.rows \subseteq Row
  BY DEF TableTypes, RowsAre, On, Hand
<1>3. \A r \in Row : r.ds = e => (r \in rows <=> r \in acc.rows)
  BY DEF On, Beside
<1> QED  BY <1>2, <1>3 DEF Ids, RowsOf

\* The tables after a batch was put into d.
LEMMA BatchKeepsTables ==
  ASSUME TableInv, NEW d \in Datasets, NEW shape \in Form, Wellformed(shape),
         NEW put, NEW n \in Nat, On(d, shape, put, n), births + n <= MaxRows,
         MaxRows \in Nat,
         rows' = put.rows, births' = put.births, overtaken' = overtaken,
         datasets' \in Tabled,
         datasets'[d].state = "live", datasets'[d].schema = shape.schema,
         datasets'[d].key = shape.key,
         datasets'[d].count = Cardinality(Ids(d, rows)) + put.inserted,
         \A e \in Datasets \ {d} : datasets'[e] = datasets[e],
         shape.schema = NoSchema => \A r \in put.rows : r.ds # d,
         d \notin overtaken => \A r \in rows : r.ds = d => Fits(shape, r)
  PROVE  TableInv' /\ Grows
<1>1. births \in Nat /\ put.births \in Nat /\ put.inserted \in Nat /\ put.rows \subseteq Row
  BY DEF TableInv, TableTypes, On, Hand
<1>2. datasets \in Tabled /\ RowsAre(rows, births)
  BY DEF TableInv, TableTypes
<1>3. datasets'[d].count = Cardinality(Ids(d, put.rows))
  BY DEF On
<1>4. \A e \in Datasets \ {d} : datasets'[e] = datasets[e]
  OBVIOUS
<1>5. \A e \in Datasets \ {d} : /\ Ids(e, put.rows) = Ids(e, rows)
                                /\ \A r \in put.rows : r.ds = e => r \in rows
  BY OthersStay DEF TableInv
<1>6. Shape(d)' = shape /\ \A e \in Datasets \ {d} : Shape(e)' = Shape(e)
  <2>1. shape = [schema |-> shape.schema, key |-> shape.key]
    BY DEF Form
  <2> QED  BY <1>4, <2>1 DEF Shape
<1>7. TableTypes'
  <2>1. births' \in 0..MaxRows
    BY <1>1 DEF On
  <2>2. RowsAre(rows', births')
    BY DEF On
  <2>3. \A r \in rows' : datasets'[r.ds].state # "absent"
    <3>1. \A r \in rows' : r.ds \in Datasets
      BY <1>1 DEF Row
    <3>2. \A r \in rows : datasets[r.ds].state # "absent"
      BY DEF TableInv, TableTypes
    <3> QED  BY <3>1, <3>2, <1>4, <1>5
  <2>4. \A e \in Datasets : Wellformed(Shape(e))'
    <3>1. \A e \in Datasets : Wellformed(Shape(e))
      BY DEF TableInv, TableTypes
    <3> QED  BY <3>1, <1>6 DEF Wellformed
  <2> QED  BY <1>4, <2>1, <2>2, <2>3, <2>4 DEF TableTypes
<1>8. Counted'
  <2>1. \A e \in Datasets : datasets[e].count = Cardinality(Ids(e, rows))
    BY DEF TableInv, Counted
  <2>2. \A e \in Datasets : datasets'[e].count = Cardinality(Ids(e, rows'))
    <3>1. TAKE e \in Datasets
    <3>2. CASE e = d
      BY <3>2, <1>3, <1>4
    <3>3. CASE e # d
      <4>1. Ids(e, rows') = Ids(e, rows) /\ datasets'[e] = datasets[e]
        BY <3>3, <1>4, <1>5
      <4> QED  BY <4>1, <2>1
    <3> QED  BY <3>2, <3>3
  <2> QED  BY <2>2 DEF Counted, Ids, RowsOf
<1>9. Fitting'
  <2>1. SUFFICES ASSUME NEW e \in Datasets \ overtaken
                 PROVE  /\ \A r \in rows' : r.ds = e => Fits(Shape(e)', r)
                        /\ datasets'[e].schema = NoSchema => \A r \in rows' : r.ds # e
    BY DEF Fitting, Fits, Storable, Conforms, Encodable, Mark, NoSchema
  <2>2. CASE e = d
    <3>1. \A r \in put.rows : r \in rows \/ Fits(shape, r)
      BY DEF On, Written
    <3> QED  BY <2>2, <3>1, <1>4, <1>6
  <2>3. CASE e # d
    <3>1. /\ \A r \in rows : r.ds = e => Fits(Shape(e), r)
          /\ datasets[e].schema = NoSchema => \A r \in rows : r.ds # e
      BY DEF TableInv, Fitting
    <3> QED  BY <2>3, <3>1, <1>4, <1>5, <1>6
  <2> QED  BY <2>2, <2>3
<1>10. Grows
  BY DEF Grows, On
<1> QED  BY <1>7, <1>8, <1>9, <1>10 DEF TableInv

LEMMA CreateKeepsTables ==
  ASSUME TableInv, MaxRows \in Nat, CanName,
         NEW x, x.slug \in Slugs, x.shape \in Form, Wellformed(x.shape), x.batch \in Seq(Values),
         CanCreate(x), DoCreate(x), births + Len(x.batch) <= MaxRows, overtaken' = overtaken
  PROVE  TableInv' /\ Grows
<1>1. PICK d : d = NewId
  OBVIOUS
<1>2. d \in Datasets /\ datasets[d].state = "absent"
  BY <1>1 DEF CanName, NewId
<1>3. PICK batch \in Seq(Values) : batch = x.batch
  OBVIOUS
<1>4. PICK shape : shape = IF x.batch = <<>> THEN x.shape ELSE WithSchema(x.shape, x.batch)
  OBVIOUS
<1>5. shape \in Form /\ Wellformed(shape)
  BY <1>4, SchemaIsForm
<1>6. PICK put : put = Put(d, shape, "insert", batch)
  OBVIOUS
<1>7. births \in Nat /\ RowsAre(rows, births) /\ Len(batch) \in Nat
  BY <1>3 DEF TableInv, TableTypes
<1>8. On(d, shape, put, Len(batch))
  BY <1>2, <1>5, <1>6, <1>7, BatchIsPut
<1>9. /\ datasets' = [datasets EXCEPT ![d] = [state |-> "live", slug |-> x.slug,
                         schema |-> shape.schema, key |-> shape.key, count |-> put.inserted]]
      /\ rows' = put.rows /\ births' = put.births
  BY <1>1, <1>3, <1>4, <1>6 DEF DoCreate
<1>10. \A r \in rows : r.ds # d
  BY <1>2 DEF TableInv, TableTypes
<1>11. Cardinality(Ids(d, rows)) = 0
  <2>1. Ids(d, rows) = {}
    BY <1>10 DEF Ids, RowsOf
  <2> QED  BY <2>1, FS_EmptySet
<1>12. ASSUME shape.schema = NoSchema, NEW r \in put.rows, r.ds = d
       PROVE  FALSE
  <2>1. batch = <<>>
    BY <1>3, <1>4, <1>12 DEF CanCreate, Described
  <2>2. put.births = births
    <3>1. Len(batch) = 0
      BY <2>1
    <3>2. births <= put.births /\ put.births <= births + 0 /\ put.births \in Nat
      BY <1>8, <3>1 DEF On, Hand
    <3> QED  BY <3>2, <1>7
  <2>3. r.id \in 1..births
    BY <1>8, <1>12, <2>2 DEF On, RowsAre
  <2>4. r.id > births \/ \E q \in rows : r.id = q.id /\ r.ds = q.ds
    BY <1>8, <1>12 DEF On, Stays
  <2> QED  BY <2>3, <2>4, <1>7, <1>10, <1>12
<1>13. put.inserted = Cardinality(Ids(d, rows)) + put.inserted
  BY <1>8, <1>11 DEF On, Hand
<1>14. births + Len(batch) <= MaxRows
  BY <1>3
<1>15. /\ datasets' \in Tabled
       /\ datasets'[d].state = "live" /\ datasets'[d].schema = shape.schema
       /\ datasets'[d].key = shape.key
       /\ datasets'[d].count = Cardinality(Ids(d, rows)) + put.inserted
       /\ \A e \in Datasets \ {d} : datasets'[e] = datasets[e]
  <2>1. put.inserted \in Nat /\ shape.schema \in Schema /\ shape.key \in SUBSET Cols
    BY <1>5, <1>8 DEF On, Hand, Form
  <2>2. datasets \in Tabled
    BY DEF TableInv, TableTypes
  <2> QED  BY <2>1, <2>2, <1>2, <1>9, <1>13 DEF Tabled
<1> QED  BY <1>2, <1>5, <1>7, <1>8, <1>9, <1>10, <1>12, <1>14, <1>15, BatchKeepsTables

LEMMA BulkKeepsTables ==
  ASSUME TableInv, MaxRows \in Nat, NEW d \in Datasets, NEW mode, NEW batch \in Seq(Values),
         CanBulk(d, mode, batch), DoBulk(d, mode, batch),
         births + Len(batch) <= MaxRows, overtaken' = overtaken
  PROVE  TableInv' /\ Grows
<1>1. PICK shape : shape = WithSchema(Shape(d), batch)
  OBVIOUS
<1>2. PICK put : put = Put(d, shape, mode, batch)
  OBVIOUS
<1>3. births \in Nat /\ RowsAre(rows, births) /\ Len(batch) \in Nat /\ TableTypes
      /\ datasets \in Tabled
  BY DEF TableInv, TableTypes
<1>4. /\ Shape(d) \in Form /\ Wellformed(Shape(d)) /\ Shape(d).schema = datasets[d].schema
      /\ datasets[d].count \in Nat /\ Shape(d).key = datasets[d].key
  BY <1>3, FormOf DEF TableTypes
<1>5. shape \in Form /\ Wellformed(shape) /\ (Shape(d).schema # NoSchema => shape = Shape(d))
      /\ shape.key = datasets[d].key
  BY <1>1, <1>4, SchemaIsForm
<1>6. On(d, shape, put, Len(batch))
  BY <1>2, <1>3, <1>5, BatchIsPut
<1>7. shape.schema # NoSchema /\ datasets[d].state = "live"
  BY <1>1 DEF CanBulk, Described, Live
<1>8. put.inserted \in Nat /\ shape.schema \in Schema
  BY <1>5, <1>6 DEF On, Hand, Form
<1>9. /\ datasets' = [datasets EXCEPT ![d].schema = shape.schema, ![d].count = @ + put.inserted]
      /\ rows' = put.rows /\ births' = put.births
  BY <1>1, <1>2 DEF DoBulk
<1>10. /\ datasets' \in Tabled
       /\ datasets'[d].state = "live" /\ datasets'[d].schema = shape.schema
       /\ datasets'[d].key = shape.key /\ datasets'[d].count = datasets[d].count + put.inserted
       /\ \A e \in Datasets \ {d} : datasets'[e] = datasets[e]
  <2>1. PICK mid : mid = [datasets EXCEPT ![d].schema = shape.schema]
    OBVIOUS
  <2>2. /\ mid \in Tabled /\ mid[d].state = "live" /\ mid[d].schema = shape.schema
        /\ mid[d].key = shape.key /\ mid[d].count = datasets[d].count
        /\ \A e \in Datasets \ {d} : mid[e] = datasets[e]
    BY <1>3, <1>5, <1>7, <1>8, <2>1 DEF Tabled
  <2>3. datasets' = [mid EXCEPT ![d].count = @ + put.inserted]
    BY <1>9, <2>1
  <2>4. mid[d].count + put.inserted \in Nat
    BY <1>4, <1>8, <2>2
  <2> QED  BY <2>2, <2>3, <2>4 DEF Tabled
<1>11. datasets'[d].count = Cardinality(Ids(d, rows)) + put.inserted
  BY <1>10 DEF TableInv, Counted
<1>12. d \notin overtaken => \A r \in rows : r.ds = d => Fits(shape, r)
  BY <1>4, <1>5 DEF TableInv, Fitting
<1> QED  BY <1>3, <1>5, <1>6, <1>7, <1>9, <1>10, <1>11, <1>12, BatchKeepsTables

\* The row that an update or a deletion names.
LEMMA TheRow ==
  ASSUME TableTypes, NEW d \in Datasets, NEW id, NEW r \in RowAt(d, id)
  PROVE  /\ r \in rows /\ r \in Row /\ r.ds = d /\ r.id = id /\ r.birth = id /\ id \in 1..births
         /\ RowAt(d, id) = {r} /\ Live(d)
         /\ \A q \in rows : q.id = id => q = r
BY DEF TableTypes, RowsAre, RowAt

LEMMA UpdateKeepsTables ==
  ASSUME TableInv, NEW d \in Datasets, NEW id,
         NEW change, \E columns \in SUBSET Cols : change \in [columns -> Cell],
         CanUpdate(d, id, change), DoUpdate(d, id, change), overtaken' = overtaken
  PROVE  TableInv' /\ Grows
<1>1. PICK r \in RowAt(d, id) : Storable(Shape(d), Merged(r, change))
  BY DEF CanUpdate
<1>2. TableTypes /\ births \in Nat /\ RowsAre(rows, births) /\ datasets \in Tabled
  BY DEF TableInv, TableTypes
<1>3. /\ r \in rows /\ r \in Row /\ r.ds = d /\ r.id = id /\ r.birth = id
      /\ RowAt(d, id) = {r}
  BY <1>2, TheRow
<1>4. PICK v : v = Merged(r, change)
  OBVIOUS
<1>5. v \in Values
  BY <1>3, <1>4 DEF Merged, Values, Row, Cell
<1>6. PICK new : new = [r EXCEPT !.vals = v, !.print = Mark(datasets[d].key, v)]
  OBVIOUS
<1>7. /\ new \in Row /\ new.id = r.id /\ new.ds = d /\ new.birth = r.birth /\ new.vals = v
      /\ new.print = Mark(datasets[d].key, v)
  <2>1. Mark(datasets[d].key, v) \in Prints
    BY <1>2, <1>5, FormOf, MarkIsPrint
  <2> QED  BY <1>3, <1>5, <1>6, <2>1 DEF Row
<1>8. rows' = {IF q = r THEN new ELSE q : q \in rows} /\ datasets' = datasets /\ births' = births
  BY <1>3, <1>4, <1>6 DEF DoUpdate
<1>9. rows' = (rows \ {r}) \cup {new}
  BY <1>3, <1>8
<1>10. Fits(Shape(d), new)
  BY <1>1, <1>4, <1>7, <1>2, FormOf DEF Fits
<1>11. \A e \in Datasets : Ids(e, rows') = Ids(e, rows)
  BY <1>3, <1>7, <1>9 DEF Ids, RowsOf
<1>12. TableTypes'
  <2>1. RowsAre(rows', births')
    BY <1>2, <1>3, <1>7, <1>8, <1>9 DEF RowsAre
  <2>2. \A q \in rows' : datasets'[q.ds].state # "absent"
    BY <1>2, <1>3, <1>7, <1>8, <1>9 DEF TableTypes
  <2> QED  BY <1>2, <1>8, <2>1, <2>2 DEF TableTypes, Shape, Wellformed
<1>13. Counted'
  BY <1>8, <1>11 DEF TableInv, Counted, Ids, RowsOf
<1>14. Fitting'
  <2>1. \A e \in Datasets \ overtaken : /\ \A q \in rows : q.ds = e => Fits(Shape(e), q)
                                        /\ datasets[e].schema = NoSchema => \A q \in rows : q.ds # e
    BY DEF TableInv, Fitting
  <2>2. \A e : Shape(e)' = Shape(e)
    BY <1>8 DEF Shape
  <2>3. \A e \in Datasets \ overtaken :
            /\ \A q \in rows' : q.ds = e => Fits(Shape(e)', q)
            /\ datasets'[e].schema = NoSchema => \A q \in rows' : q.ds # e
    BY <2>1, <2>2, <1>3, <1>7, <1>8, <1>9, <1>10
  <2> QED  BY <2>3 DEF Fitting, Fits, Storable, Conforms, Encodable, Mark, NoSchema
<1>15. Grows
  BY <1>2, <1>3, <1>7, <1>8, <1>9 DEF Grows, Stays
<1> QED  BY <1>12, <1>13, <1>14, <1>15 DEF TableInv

LEMMA DeleteKeepsTables ==
  ASSUME TableInv, NEW d \in Datasets, NEW id, NEW by,
         RowAt(d, id) # {}, DoDelete(d, id, by), overtaken' = overtaken
  PROVE  TableInv' /\ Loses(d, id)
<1>1. PICK r : r \in RowAt(d, id)
  OBVIOUS
<1>2. TableTypes /\ births \in Nat /\ RowsAre(rows, births) /\ datasets \in Tabled
  BY DEF TableInv, TableTypes
<1>3. /\ r \in rows /\ r.ds = d /\ r.id = id /\ RowAt(d, id) = {r}
      /\ \A q \in rows : q.id = id => q = r
  BY <1>1, <1>2, TheRow
<1>4. /\ rows' = rows \ {r} /\ births' = births
      /\ datasets' = [datasets EXCEPT ![d].count = @ - 1]
  BY <1>3 DEF DoDelete
<1>5. Ids(d, rows') = Ids(d, rows) \ {id} /\ id \in Ids(d, rows)
  BY <1>3, <1>4 DEF Ids, RowsOf
<1>6. \A e \in Datasets \ {d} : Ids(e, rows') = Ids(e, rows)
  BY <1>3, <1>4 DEF Ids, RowsOf
<1>7. /\ Cardinality(Ids(d, rows')) = datasets[d].count - 1
      /\ datasets[d].count - 1 \in Nat
  <2>1. IsFiniteSet(Ids(d, rows)) /\ datasets[d].count = Cardinality(Ids(d, rows))
    BY <1>2, NumbersAreFinite DEF TableInv, Counted
  <2>2. IsFiniteSet(Ids(d, rows) \ {id})
        /\ Cardinality(Ids(d, rows) \ {id}) = Cardinality(Ids(d, rows)) - 1
    BY <2>1, <1>5, FS_RemoveElement
  <2>3. Cardinality(Ids(d, rows) \ {id}) \in Nat
    BY <2>2, FS_CardinalityType
  <2> QED  BY <2>1, <2>2, <2>3, <1>5
<1>8. /\ datasets' \in Tabled
      /\ \A e \in Datasets : /\ datasets'[e].state = datasets[e].state
                              /\ datasets'[e].schema = datasets[e].schema
                              /\ datasets'[e].key = datasets[e].key
                              /\ datasets'[e].count = IF e = d THEN datasets[e].count - 1
                                                     ELSE datasets[e].count
  BY <1>2, <1>4, <1>7 DEF Tabled
<1>9. \A e \in Datasets : Shape(e)' = Shape(e)
  BY <1>8 DEF Shape
<1>10. TableTypes'
  <2>1. RowsAre(rows', births')
    BY <1>2, <1>4 DEF RowsAre
  <2>2. \A q \in rows' : datasets'[q.ds].state # "absent"
    BY <1>2, <1>4, <1>8 DEF TableTypes, RowsAre, Row
  <2>3. \A e \in Datasets : Wellformed(Shape(e))'
    BY <1>2, <1>9 DEF TableTypes, Wellformed
  <2>4. births' \in 0..MaxRows
    BY <1>2, <1>4 DEF TableTypes
  <2> QED  BY <1>8, <2>1, <2>2, <2>3, <2>4 DEF TableTypes
<1>11. Counted'
  <2>1. \A e \in Datasets : datasets'[e].count = Cardinality(Ids(e, rows'))
    BY <1>6, <1>7, <1>8 DEF TableInv, Counted
  <2> QED  BY <2>1 DEF Counted, Ids, RowsOf
<1>12. Fitting'
  <2>1. \A e \in Datasets \ overtaken : /\ \A q \in rows : q.ds = e => Fits(Shape(e), q)
                                        /\ datasets[e].schema = NoSchema => \A q \in rows : q.ds # e
    BY DEF TableInv, Fitting
  <2>2. \A e \in Datasets \ overtaken :
            /\ \A q \in rows' : q.ds = e => Fits(Shape(e)', q)
            /\ datasets'[e].schema = NoSchema => \A q \in rows' : q.ds # e
    BY <2>1, <1>4, <1>8, <1>9
  <2> QED  BY <2>2 DEF Fitting, Fits, Storable, Conforms, Encodable, Mark, NoSchema
<1> QED  BY <1>3, <1>4, <1>10, <1>11, <1>12 DEF TableInv, Loses

\* A dataset is deleted or restored, or its metadata are written over.
LEMMA StateKeepsTables ==
  ASSUME TableInv, NEW d \in Datasets, datasets[d].state # "absent",
         NEW state \in {"live", "deleted"},
         datasets' = [datasets EXCEPT ![d].state = state],
         UNCHANGED <<rows, births, overtaken>>
  PROVE  TableInv'
<1>1. /\ datasets' \in Tabled /\ datasets \in Tabled /\ TableTypes
      /\ \A e \in Datasets : /\ datasets'[e].schema = datasets[e].schema
                              /\ datasets'[e].key = datasets[e].key
                              /\ datasets'[e].count = datasets[e].count
                              /\ datasets[e].state # "absent" => datasets'[e].state # "absent"
  BY DEF TableInv, TableTypes, Tabled
<1>2. \A e \in Datasets : Shape(e)' = Shape(e)
  BY <1>1 DEF Shape
<1>3. TableTypes'
  <2>1. \A q \in rows' : datasets'[q.ds].state # "absent"
    BY <1>1 DEF TableTypes, RowsAre, Row
  <2>2. \A e \in Datasets : Wellformed(Shape(e))'
    BY <1>1, <1>2 DEF TableTypes, Wellformed
  <2> QED  BY <1>1, <2>1, <2>2 DEF TableTypes, RowsAre
<1>4. Counted'
  <2>1. \A e \in Datasets : datasets'[e].count = Cardinality(Ids(e, rows))
    BY <1>1 DEF TableInv, Counted
  <2> QED  BY <2>1 DEF Counted, Ids, RowsOf
<1>5. Fitting'
  <2>1. \A e \in Datasets \ overtaken :
            /\ \A q \in rows' : q.ds = e => Fits(Shape(e)', q)
            /\ datasets'[e].schema = NoSchema => \A q \in rows' : q.ds # e
    BY <1>1, <1>2 DEF TableInv, Fitting
  <2> QED  BY <2>1 DEF Fitting, Fits, Storable, Conforms, Encodable, Mark, NoSchema
<1> QED  BY <1>3, <1>4, <1>5 DEF TableInv

LEMMA EditKeepsTables ==
  ASSUME TableInv, NEW d \in Datasets, NEW shape \in Form, Wellformed(shape),
         datasets' = [datasets EXCEPT ![d].schema = shape.schema, ![d].key = shape.key],
         overtaken' = IF Additive(Seen(d), shape) THEN overtaken ELSE overtaken \cup {d},
         UNCHANGED <<rows, births>>
  PROVE  TableInv'
<1>1. datasets \in Tabled /\ TableTypes /\ births \in Nat /\ RowsAre(rows, births)
      /\ shape.schema \in Schema /\ shape.key \in SUBSET Cols
  BY DEF TableInv, TableTypes, Form
<1>2. PICK mid : mid = [datasets EXCEPT ![d].schema = shape.schema]
  OBVIOUS
<1>3. /\ mid \in Tabled
      /\ mid[d].schema = shape.schema /\ mid[d].key = datasets[d].key
      /\ mid[d].count = datasets[d].count /\ mid[d].state = datasets[d].state
      /\ \A e \in Datasets \ {d} : mid[e] = datasets[e]
  BY <1>1, <1>2 DEF Tabled
<1>4. datasets' = [mid EXCEPT ![d].key = shape.key]
  BY <1>2
<1>5. /\ datasets' \in Tabled
      /\ datasets'[d].schema = shape.schema /\ datasets'[d].key = shape.key
      /\ datasets'[d].count = datasets[d].count /\ datasets'[d].state = datasets[d].state
      /\ \A e \in Datasets \ {d} : datasets'[e] = datasets[e]
  <2>1. shape.key \in SUBSET Cols
    BY <1>1
  <2>2. datasets' \in Tabled
    <3>1. PICK key \in SUBSET Cols : key = shape.key
      BY <2>1
    <3>2. mid \in Tabled /\ datasets' = [mid EXCEPT ![d].key = key]
      BY <3>1, <1>3, <1>4
    <3> QED  BY <3>2 DEF Tabled
  <2>3. \A e \in Datasets \ {d} : datasets'[e] = mid[e]
    BY <1>3, <1>4 DEF Tabled
  <2>4. datasets'[d] = [mid[d] EXCEPT !.key = shape.key]
    BY <1>3, <1>4 DEF Tabled
  <2>5. /\ datasets'[d].schema = mid[d].schema /\ datasets'[d].key = shape.key
        /\ datasets'[d].count = mid[d].count /\ datasets'[d].state = mid[d].state
    BY <2>4, <1>3 DEF Tabled
  <2> QED  BY <2>2, <2>3, <2>5, <1>3
<1>6. Shape(d)' = shape /\ \A e \in Datasets \ {d} : Shape(e)' = Shape(e)
  <2>1. shape = [schema |-> shape.schema, key |-> shape.key]
    BY DEF Form
  <2> QED  BY <1>5, <2>1 DEF Shape
<1>7. TableTypes'
  <2>1. \A q \in rows' : datasets'[q.ds].state # "absent"
    <3>1. \A q \in rows : q.ds \in Datasets /\ datasets[q.ds].state # "absent"
      BY <1>1 DEF TableTypes, RowsAre, Row
    <3> QED  BY <3>1, <1>5
  <2>2. \A e \in Datasets : Wellformed(Shape(e))'
    BY <1>1, <1>6 DEF TableTypes, Wellformed
  <2> QED  BY <1>1, <1>5, <2>1, <2>2 DEF TableTypes, RowsAre
<1>8. Counted'
  <2>1. \A e \in Datasets : datasets'[e].count = Cardinality(Ids(e, rows))
    BY <1>5 DEF TableInv, Counted
  <2> QED  BY <2>1 DEF Counted, Ids, RowsOf
<1>9. Fitting'
  <2>1. \A e \in Datasets \ overtaken : /\ \A q \in rows : q.ds = e => Fits(Shape(e), q)
                                        /\ datasets[e].schema = NoSchema => \A q \in rows : q.ds # e
    BY DEF TableInv, Fitting
  <2>2. ASSUME d \notin overtaken'
        PROVE  /\ \A q \in rows : q.ds = d => Fits(shape, q)
               /\ shape.schema = NoSchema => \A q \in rows : q.ds # d
    <3>1. d \notin overtaken /\ Additive(Seen(d), shape)
      BY <2>2
    <3>2. /\ \A q \in rows : q.ds = d => Fits(Shape(d), q)
          /\ datasets[d].schema = NoSchema => \A q \in rows : q.ds # d
      BY <2>1, <3>1
    <3>3. CASE datasets[d].count = 0
      <4>1. Ids(d, rows) = {}
        <5>1. IsFiniteSet(Ids(d, rows)) /\ Cardinality(Ids(d, rows)) = 0
          BY <3>3, <1>1, NumbersAreFinite DEF TableInv, Counted
        <5> QED  BY <5>1, FS_EmptySet
      <4>2. \A q \in rows : q.ds # d
        BY <4>1 DEF Ids, RowsOf
      <4> QED  BY <4>2
    <3>4. CASE datasets[d].count # 0
      <4>1. /\ \A c \in Cols : IF datasets[d].schema[c] = "none"
                                THEN shape.schema[c] \in {"none", "nullable"}
                                ELSE shape.schema[c] = datasets[d].schema[c]
            /\ shape.key = datasets[d].key
        BY <3>1, <3>4 DEF Additive, Seen
      <4>2. ASSUME NEW q \in rows, q.ds = d PROVE Fits(shape, q)
        <5>1. Fits(Shape(d), q)
          BY <3>2, <4>2
        <5>2. Conforms(datasets[d].schema, q.vals) /\ Encodable(datasets[d].key, q.vals)
              /\ q.print = Mark(datasets[d].key, q.vals)
          BY <5>1 DEF Fits, Storable, Shape
        <5>3. Conforms(shape.schema, q.vals)
          BY <5>2, <4>1 DEF Conforms
        <5> QED  BY <5>2, <5>3, <4>1 DEF Fits, Storable
      <4>3. ASSUME shape.schema = NoSchema, NEW q \in rows, q.ds = d PROVE FALSE
        <5>1. \A c \in Cols : datasets[d].schema[c] = "none"
          BY <4>1, <4>3 DEF NoSchema
        <5>2. datasets[d].schema \in [Cols -> {"none", "required", "nullable"}]
          BY <1>1 DEF Tabled, Schema
        <5>3. datasets[d].schema = NoSchema
          BY <5>1, <5>2 DEF NoSchema
        <5> QED  BY <5>3, <3>2, <4>3
      <4> QED  BY <4>2, <4>3
    <3> QED  BY <3>3, <3>4
  <2>3. \A e \in Datasets \ overtaken' :
            /\ \A q \in rows' : q.ds = e => Fits(Shape(e)', q)
            /\ datasets'[e].schema = NoSchema => \A q \in rows' : q.ds # e
    <3>1. TAKE e \in Datasets \ overtaken'
    <3>2. e \notin overtaken
      OBVIOUS
    <3>3. CASE e = d
      BY <3>3, <2>2, <1>5, <1>6
    <3>4. CASE e # d
      BY <3>2, <3>4, <2>1, <1>5, <1>6
    <3> QED  BY <3>3, <3>4
  <2> QED  BY <2>3 DEF Fitting, Fits, Storable, Conforms, Encodable, Mark, NoSchema
<1> QED  BY <1>7, <1>8, <1>9 DEF TableInv

-----------------------------------------------------------------------------
(* The goroutines: types. *)

Places == [ds : Datasets, id : Nat, birth : Nat]
Ends == {"none", "refused", "done", "gone", "rows", "unique key", "live slug", "deleted slug"}
Tasks == Workers \cup {Chat}
Working == [pc : {"idle", "validate", "apply"}, writes : Seq(Writes), at : Nat,
            asked : Seq(Places), end : Ends, clean : BOOLEAN]
WorkTypes ==
    /\ work \in [Tasks -> Working]
    /\ \A w \in Tasks : work[w].at \in 1..(Len(work[w].writes) + 1)
EditTypes ==
    /\ edit \in [Editors -> [pc : {"idle", "check", "write"}, ds : Datasets \cup {NoDataset},
                             shape : Form, seen : [schema : Schema, key : SUBSET Cols, count : Nat]]]
    /\ \A e \in Editors : /\ edit[e].pc # "idle" => edit[e].ds \in Datasets
                          /\ edit[e].pc = "write" => Wellformed(edit[e].shape)

LEMMA WriteOf ==
  ASSUME NEW x \in Writes
  PROVE  /\ x.op \in {"create", "upsert", "update", "delete"}
         /\ x.op = "create" => /\ x.slug \in Slugs /\ x.shape \in Form /\ Wellformed(x.shape)
                               /\ x.batch \in Seq(Values) /\ Size(x) = Len(x.batch)
         /\ x.op = "upsert" => /\ x.ds \in Datasets /\ x.batch \in Seq(Values)
                               /\ Size(x) = Len(x.batch)
         /\ x.op = "update" => x.ds \in Datasets /\ x.id \in 1..MaxRows /\ x.change \in Changes
         /\ x.op = "delete" => x.ds \in Datasets /\ x.id \in 1..MaxRows
<1>1. Shapes \subseteq Form /\ (\A s \in Shapes : Wellformed(s)) /\ Batches \subseteq Seq(Values)
      /\ <<>> \in Seq(Values)
  BY DatasetsAssumption DEF Form
<1>2. CASE x \in [op : {"create"}, slug : Slugs, shape : Shapes, batch : Batches \cup {<<>>}]
  <2>1. x.op = "create" /\ x.slug \in Slugs /\ x.shape \in Shapes /\ x.batch \in Batches \cup {<<>>}
    BY <1>2
  <2> QED  BY <2>1, <1>1 DEF Size
<1>3. CASE x \in [op : {"upsert"}, ds : Datasets, batch : Batches]
  <2>1. x.op = "upsert" /\ x.ds \in Datasets /\ x.batch \in Batches
    BY <1>3
  <2> QED  BY <2>1, <1>1 DEF Size
<1>4. CASE x \in [op : {"update"}, ds : Datasets, id : 1..MaxRows, change : Changes]
  BY <1>4
<1>5. CASE x \in [op : {"delete"}, ds : Datasets, id : 1..MaxRows]
  BY <1>5
<1> QED  BY <1>2, <1>3, <1>4, <1>5 DEF Writes

\* A write of a task or of Chat.
LEMMA ApplyKeepsTables ==
  ASSUME TableInv, NEW x \in Writes, Nameable(x), Room(Size(x)), CanApply(x), DoApply(x),
         overtaken' = overtaken
  PROVE  TableInv' /\ Grows
<1>1. MaxRows \in Nat /\ TableTypes
  BY DatasetsAssumption DEF TableInv
<1>2. CASE x.op = "create"
  <2>1. x.slug \in Slugs /\ x.shape \in Form /\ Wellformed(x.shape) /\ x.batch \in Seq(Values)
        /\ Size(x) = Len(x.batch)
    BY <1>2, WriteOf
  <2>2. CanName /\ births + Len(x.batch) <= MaxRows /\ CanCreate(x) /\ DoCreate(x)
    BY <1>2, <2>1 DEF Nameable, Room, CanApply, DoApply
  <2> QED  BY <1>1, <2>1, <2>2, CreateKeepsTables
<1>3. CASE x.op = "upsert"
  <2>1. x.ds \in Datasets /\ x.batch \in Seq(Values) /\ Size(x) = Len(x.batch)
    BY <1>3, WriteOf
  <2>2. /\ births + Len(x.batch) <= MaxRows
        /\ CanBulk(x.ds, "upsert", x.batch) /\ DoBulk(x.ds, "upsert", x.batch)
    BY <1>3, <2>1 DEF Room, CanApply, DoApply
  <2> QED  BY <1>1, <2>1, <2>2, BulkKeepsTables
<1>4. CASE x.op = "update"
  <2>1. x.ds \in Datasets /\ x.change \in Changes
    BY <1>4, WriteOf
  <2>2. CanUpdate(x.ds, x.id, x.change) /\ DoUpdate(x.ds, x.id, x.change)
    BY <1>4 DEF CanApply, DoApply
  <2>3. \E columns \in SUBSET Cols : x.change \in [columns -> Cell]
    BY <2>1, DatasetsAssumption DEF Cell
  <2> QED  BY <2>1, <2>2, <2>3, UpdateKeepsTables
<1>5. CASE x.op = "delete"
  <2>1. UNCHANGED <<datasets, rows, births, overtaken>>
    BY <1>5 DEF DoApply, table
  <2>2. TableInv'
    BY <2>1 DEF TableInv, TableTypes, Counted, Fitting, RowsAre, Shape, Wellformed, Ids, RowsOf,
                Fits, Storable, Conforms, Encodable, Mark, NoSchema
  <2>3. Grows
    BY <1>1, <2>1 DEF Grows, Stays, TableTypes
  <2> QED  BY <2>2, <2>3
<1> QED  BY <1>2, <1>3, <1>4, <1>5, WriteOf

LEMMA NoWorkIsWorking == NoWork \in Working /\ NoWork.at = 1 /\ Len(NoWork.writes) = 0
BY DEF NoWork, Working, Ends

LEMMA UncleanWork ==
  ASSUME WorkTypes, NEW a
  PROVE  /\ Unclean(a) \in [Tasks -> Working]
         /\ \A w \in Tasks : /\ Unclean(a)[w].pc = work[w].pc
                             /\ Unclean(a)[w].writes = work[w].writes
                             /\ Unclean(a)[w].at = work[w].at
                             /\ Unclean(a)[w].asked = work[w].asked
                             /\ Unclean(a)[w].end = work[w].end
                             /\ Unclean(a)[w].clean = IF w # a /\ work[w].pc # "idle" THEN FALSE
                                                     ELSE work[w].clean
<1>1. DOMAIN work = Tasks /\ \A w \in Tasks : work[w] \in Working
  BY DEF WorkTypes
<1>2. Unclean(a) = [w \in Tasks |-> IF w # a /\ work[w].pc # "idle" THEN [work[w] EXCEPT !.clean = FALSE]
                                   ELSE work[w]]
  BY <1>1 DEF Unclean
<1> QED  BY <1>1, <1>2 DEF Working

\* The steps of one goroutine that writes.
WorkMove(w) ==
    \/ Begin(w) \/ Validate(w) \/ RefuseBatch(w) \/ StartApply(w)
    \/ Apply(w) \/ Cut(w) \/ LookUp(w) \/ AskApproval(w)

LEMMA WorkKeepsTypes ==
  ASSUME WorkTypes, TableTypes, NEW w \in Tasks, WorkMove(w)
  PROVE  WorkTypes'
<1>1. /\ work \in [Tasks -> Working] /\ work[w] \in Working
      /\ \A a \in Tasks : work[a].at \in 1..(Len(work[a].writes) + 1)
  BY DEF WorkTypes
<1>2. /\ work[w].pc \in {"idle", "validate", "apply"} /\ work[w].writes \in Seq(Writes)
      /\ work[w].at \in Nat /\ work[w].asked \in Seq(Places) /\ Len(work[w].writes) \in Nat
  BY <1>1 DEF Working
<1>3. ASSUME NEW new \in Working, work' = [work EXCEPT ![w] = new],
             new.at \in 1..(Len(new.writes) + 1)
      PROVE  WorkTypes'
  BY <1>1, <1>3 DEF WorkTypes
<1>4. CASE Begin(w)
  <2>1. PICK new : new = [NoWork EXCEPT !.pc = "validate"]
    OBVIOUS
  <2>2. new \in Working /\ new.at = 1 /\ Len(new.writes) = 0
    BY <2>1, NoWorkIsWorking DEF Working
  <2>3. new.at \in 1..(Len(new.writes) + 1) /\ work' = [work EXCEPT ![w] = new]
    BY <1>4, <2>1, <2>2 DEF Begin
  <2> QED  BY <2>2, <2>3, <1>3
<1>5. CASE Validate(w)
  <2>1. PICK x \in Writes : work' = [work EXCEPT ![w].writes = Append(@, x)]
    BY <1>5 DEF Validate
  <2>2. PICK all : all = Append(work[w].writes, x)
    OBVIOUS
  <2>3. all \in Seq(Writes) /\ Len(all) = Len(work[w].writes) + 1
    BY <1>2, <2>2
  <2>4. PICK new : new = [work[w] EXCEPT !.writes = all]
    OBVIOUS
  <2>5. new \in Working /\ new.writes = all /\ new.at = work[w].at
    BY <1>1, <2>3, <2>4 DEF Working
  <2>6. work' = [work EXCEPT ![w] = new]
    BY <2>1, <2>2, <2>4
  <2>7. new.at \in 1..(Len(new.writes) + 1)
    BY <1>1, <1>2, <2>3, <2>5
  <2> QED  BY <2>5, <2>6, <2>7, <1>3
<1>6. CASE RefuseBatch(w)
  <2>1. PICK new : new = [NoWork EXCEPT !.end = "refused"]
    OBVIOUS
  <2>2. new \in Working /\ new.at = 1 /\ Len(new.writes) = 0
    BY <2>1, NoWorkIsWorking DEF Working, Ends
  <2>3. new.at \in 1..(Len(new.writes) + 1) /\ work' = [work EXCEPT ![w] = new]
    BY <1>6, <2>1, <2>2 DEF RefuseBatch
  <2> QED  BY <2>2, <2>3, <1>3
<1>7. CASE StartApply(w)
  <2>1. PICK new : new = [work[w] EXCEPT !.pc = "apply"]
    OBVIOUS
  <2>2. new \in Working /\ new.at = work[w].at /\ new.writes = work[w].writes
    BY <1>1, <2>1 DEF Working
  <2> QED  BY <1>1, <1>7, <2>1, <2>2, <1>3 DEF StartApply
<1>8. CASE Apply(w)
  <2>1. work' = [Unclean(w) EXCEPT ![w].at = @ + 1] /\ work[w].at <= Len(work[w].writes)
    BY <1>8 DEF Apply
  <2>2. /\ Unclean(w) \in [Tasks -> Working]
        /\ \A a \in Tasks : Unclean(w)[a].writes = work[a].writes /\ Unclean(w)[a].at = work[a].at
    BY UncleanWork
  <2>3. PICK mid : mid = Unclean(w)
    OBVIOUS
  <2>4. work' = [mid EXCEPT ![w].at = @ + 1]
    BY <2>1, <2>3
  <2>5. mid[w].at + 1 \in Nat /\ mid[w] \in Working
    BY <2>2, <2>3, <1>2
  <2>6. PICK new : new = [mid[w] EXCEPT !.at = @ + 1]
    OBVIOUS
  <2>7. new \in Working /\ new.at = work[w].at + 1 /\ new.writes = work[w].writes
    BY <2>2, <2>3, <2>5, <2>6 DEF Working
  <2>8. work' = [mid EXCEPT ![w] = new]
    BY <2>4, <2>6
  <2>9. new.at \in 1..(Len(new.writes) + 1)
    BY <1>1, <1>2, <2>1, <2>7
  <2>10. work' \in [Tasks -> Working]
    BY <2>2, <2>3, <2>7, <2>8
  <2>11. \A a \in Tasks : work'[a].at \in 1..(Len(work'[a].writes) + 1)
    <3>1. TAKE a \in Tasks
    <3>2. CASE a = w
      BY <3>2, <2>2, <2>3, <2>8, <2>9
    <3>3. CASE a # w
      BY <3>3, <1>1, <2>2, <2>3, <2>8
    <3> QED  BY <3>2, <3>3
  <2> QED  BY <2>10, <2>11 DEF WorkTypes
<1>9. CASE Cut(w)
  <2>1. PICK end : end = Reason(Current(w))
    OBVIOUS
  <2>2. end \in Ends
    BY <2>1 DEF Reason, Ends
  <2>3. PICK new : new = [work[w] EXCEPT !.pc = "idle", !.end = end]
    OBVIOUS
  <2>4. new \in Working /\ new.at = work[w].at /\ new.writes = work[w].writes
    BY <1>1, <2>2, <2>3 DEF Working
  <2>5. work' = [work EXCEPT ![w] = new]
    BY <1>9, <2>1, <2>3 DEF Cut
  <2> QED  BY <1>1, <2>4, <2>5, <1>3
<1>10. CASE LookUp(w)
  <2>1. PICK i \in Deletions(w) : work' = [work EXCEPT ![w] = LookedUp(w, work[w].writes[i])]
    BY <1>10 DEF LookUp
  <2>2. PICK x : x = work[w].writes[i]
    OBVIOUS
  <2>3. x.ds \in Datasets /\ x.id \in 1..MaxRows /\ x \in Writes
    <3>1. x \in Writes /\ x.op = "delete"
      BY <1>2, <2>2 DEF Deletions
    <3> QED  BY <3>1, WriteOf
  <2>4. CASE RowAt(x.ds, x.id) # {}
    <3>1. PICK r : r = Got(x.ds, x.id)
      OBVIOUS
    <3>2. r \in RowAt(x.ds, x.id)
      BY <3>1, <2>4 DEF Got
    <3>3. r.birth \in Nat
      BY <3>2, <2>3, TheRow
    <3>4. PICK place : place = [ds |-> x.ds, id |-> x.id, birth |-> r.birth]
      OBVIOUS
    <3>5. place \in Places
      BY <2>3, <3>3, <3>4 DEF Places
    <3>6. PICK asked : asked = Append(work[w].asked, place)
      OBVIOUS
    <3>7. asked \in Seq(Places)
      BY <1>2, <3>5, <3>6
    <3>8. PICK new : new = [work[w] EXCEPT !.asked = asked]
      OBVIOUS
    <3>9. new \in Working /\ new.at = work[w].at /\ new.writes = work[w].writes
      BY <1>1, <3>7, <3>8 DEF Working
    <3>10. new = LookedUp(w, x)
      BY <2>4, <3>1, <3>4, <3>6, <3>8 DEF LookedUp
    <3>11. work' = [work EXCEPT ![w] = new]
      BY <2>1, <2>2, <3>10
    <3> QED  BY <1>1, <3>9, <3>11, <1>3
  <2>5. CASE RowAt(x.ds, x.id) = {}
    <3>1. PICK new : new = [work[w] EXCEPT !.pc = "idle", !.end = "gone"]
      OBVIOUS
    <3>2. new \in Working /\ new.at = work[w].at /\ new.writes = work[w].writes
      BY <1>1, <3>1 DEF Working, Ends
    <3>3. work' = [work EXCEPT ![w] = new]
      BY <2>1, <2>2, <2>5, <3>1 DEF LookedUp
    <3> QED  BY <1>1, <3>2, <3>3, <1>3
  <2> QED  BY <2>4, <2>5
<1>11. CASE AskApproval(w)
  <2>1. PICK new : new = [work[w] EXCEPT !.pc = "idle", !.end = "done"]
    OBVIOUS
  <2>2. new \in Working /\ new.at = work[w].at /\ new.writes = work[w].writes
    BY <1>1, <2>1 DEF Working, Ends
  <2>3. work' = [work EXCEPT ![w] = new]
    BY <1>11, <2>1 DEF AskApproval
  <2> QED  BY <1>1, <2>2, <2>3, <1>3
<1> QED  BY <1>4, <1>5, <1>6, <1>7, <1>8, <1>9, <1>10, <1>11 DEF WorkMove

-----------------------------------------------------------------------------
(* The tables through every step. *)

LEMMA StillTables ==
  ASSUME TableInv, UNCHANGED <<table, overtaken>>
  PROVE  TableInv' /\ Grows
<1>1. UNCHANGED <<datasets, rows, births, overtaken>>
  BY DEF table
<1>2. TableInv'
  BY <1>1 DEF TableInv, TableTypes, Counted, Fitting, RowsAre, Shape, Wellformed, Ids, RowsOf,
              Fits, Storable, Conforms, Encodable, Mark, NoSchema
<1>3. Grows
  BY <1>1 DEF Grows, Stays, TableInv, TableTypes
<1> QED  BY <1>2, <1>3

DataInv == TableInv /\ WorkTypes /\ EditTypes

LEMMA InitData ==
  ASSUME Init
  PROVE  DataInv
<1>1. /\ datasets = [d \in Datasets |-> [state |-> "absent", slug |-> CHOOSE s \in Slugs : TRUE,
                                         schema |-> NoSchema, key |-> {}, count |-> 0]]
      /\ rows = {} /\ births = 0
      /\ work = [w \in Tasks |-> NoWork] /\ edit = [e \in Editors |-> NoEdit]
  BY DEF Init, Tasks
<1>2. (CHOOSE s \in Slugs : TRUE) \in Slugs /\ MaxRows \in Nat
  BY DatasetsAssumption
<1>3. NoSchema \in Schema
  BY DEF NoSchema, Schema
<1>4. TableTypes
  <2>1. datasets \in Tabled
    BY <1>1, <1>2, <1>3 DEF Tabled
  <2>2. \A d \in Datasets : Wellformed(Shape(d))
    BY <1>1 DEF Wellformed, Shape
  <2> QED  BY <2>1, <2>2, <1>1, <1>2 DEF TableTypes, RowsAre
<1>5. Counted
  <2>1. \A d \in Datasets : Ids(d, rows) = {}
    BY <1>1 DEF Ids, RowsOf
  <2> QED  BY <2>1, <1>1, FS_EmptySet DEF Counted
<1>6. Fitting
  BY <1>1 DEF Fitting
<1>7. WorkTypes
  BY <1>1, NoWorkIsWorking DEF WorkTypes
<1>8. EditTypes
  BY <1>1, <1>3 DEF EditTypes, NoEdit, Form
<1> QED  BY <1>4, <1>5, <1>6, <1>7, <1>8 DEF DataInv, TableInv

LEMMA IdleKeepsTypes ==
  ASSUME WorkTypes
  PROVE  /\ work' = work => WorkTypes'
         /\ \A a : work' = Unclean(a) => WorkTypes'
         /\ work' = [w \in DOMAIN work |-> NoWork] => WorkTypes'
<1>1. work' = work => WorkTypes'
  BY DEF WorkTypes
<1>2. ASSUME NEW a, work' = Unclean(a)
      PROVE  WorkTypes'
  BY <1>2, UncleanWork DEF WorkTypes
<1>3. ASSUME work' = [w \in DOMAIN work |-> NoWork]
      PROVE  WorkTypes'
  BY <1>3, NoWorkIsWorking DEF WorkTypes
<1> QED  BY <1>1, <1>2, <1>3

LEMMA EditSteps ==
  ASSUME TableTypes, EditTypes, NEW e \in Editors, LoadEdit(e) \/ CheckEdit(e) \/ WriteEdit(e)
  PROVE  EditTypes'
<1>1. NoEdit \in [pc : {"idle", "check", "write"}, ds : Datasets \cup {NoDataset},
                  shape : Form, seen : [schema : Schema, key : SUBSET Cols, count : Nat]]
      /\ NoEdit.pc = "idle"
  BY DEF NoEdit, Form, NoSchema, Schema
<1>2. ASSUME NEW new \in [pc : {"idle", "check", "write"}, ds : Datasets \cup {NoDataset},
                  shape : Form, seen : [schema : Schema, key : SUBSET Cols, count : Nat]],
             new.pc # "idle" => new.ds \in Datasets,
             new.pc = "write" => Wellformed(new.shape),
             edit' = [edit EXCEPT ![e] = new]
      PROVE  EditTypes'
  <2>1. edit' \in [Editors -> [pc : {"idle", "check", "write"}, ds : Datasets \cup {NoDataset},
                  shape : Form, seen : [schema : Schema, key : SUBSET Cols, count : Nat]]]
    BY <1>2 DEF EditTypes
  <2>2. \A a \in Editors : edit'[a] = IF a = e THEN new ELSE edit[a]
    BY <1>2 DEF EditTypes
  <2>3. \A a \in Editors : /\ edit'[a].pc # "idle" => edit'[a].ds \in Datasets
                           /\ edit'[a].pc = "write" => Wellformed(edit'[a].shape)
    BY <2>2, <1>2 DEF EditTypes
  <2> QED  BY <2>1, <2>3 DEF EditTypes, Wellformed
<1>3. CASE LoadEdit(e)
  <2>1. PICK d \in Datasets, shape \in Shapes, fields \in {{"schema"}, {"key"}, {"schema", "key"}} :
           edit' = [edit EXCEPT ![e] = [NoEdit EXCEPT !.pc = "check", !.ds = d,
                      !.shape = [schema |-> IF "schema" \in fields THEN shape.schema
                                            ELSE datasets[d].schema,
                                 key |-> IF "key" \in fields THEN shape.key
                                         ELSE datasets[d].key]]]
    BY <1>3 DEF LoadEdit
  <2>2. shape \in Form
    BY DatasetsAssumption DEF Form
  <2>3. PICK form : form = [schema |-> IF "schema" \in fields THEN shape.schema
                                       ELSE datasets[d].schema,
                            key |-> IF "key" \in fields THEN shape.key ELSE datasets[d].key]
    OBVIOUS
  <2>4. form \in Form
    BY <2>2, <2>3, FormOf DEF Form
  <2>5. PICK new : new = [NoEdit EXCEPT !.pc = "check", !.ds = d, !.shape = form]
    OBVIOUS
  <2>6. new \in [pc : {"idle", "check", "write"}, ds : Datasets \cup {NoDataset},
                  shape : Form, seen : [schema : Schema, key : SUBSET Cols, count : Nat]]
        /\ new.pc = "check" /\ new.ds = d
    BY <1>1, <2>4, <2>5
  <2>7. edit' = [edit EXCEPT ![e] = new]
    BY <2>1, <2>3, <2>5
  <2> QED  BY <2>6, <2>7, <1>2
<1>4. CASE CheckEdit(e)
  <2>1. PICK new : new = IF Live(edit[e].ds) /\ Wellformed(edit[e].shape)
                            /\ Additive(Seen(edit[e].ds), edit[e].shape)
                         THEN [edit[e] EXCEPT !.pc = "write", !.seen = Seen(edit[e].ds)]
                         ELSE NoEdit
    OBVIOUS
  <2>2. edit' = [edit EXCEPT ![e] = new] /\ edit[e].pc = "check"
    BY <1>4, <2>1 DEF CheckEdit
  <2>3. edit[e].ds \in Datasets
    BY <2>2 DEF EditTypes
  <2>4. Seen(edit[e].ds) \in [schema : Schema, key : SUBSET Cols, count : Nat]
    BY <2>3, FormOf DEF Seen
  <2>5. new \in [pc : {"idle", "check", "write"}, ds : Datasets \cup {NoDataset},
                  shape : Form, seen : [schema : Schema, key : SUBSET Cols, count : Nat]]
        /\ (new.pc # "idle" => new.ds \in Datasets)
        /\ (new.pc = "write" => Wellformed(new.shape))
    BY <1>1, <2>1, <2>3, <2>4 DEF EditTypes
  <2> QED  BY <2>2, <2>5, <1>2
<1>5. CASE WriteEdit(e)
  BY <1>1, <1>2, <1>5 DEF WriteEdit
<1> QED  BY <1>3, <1>4, <1>5

LEMMA WriteEditKeepsTables ==
  ASSUME TableInv, EditTypes, NEW e \in Editors, WriteEdit(e)
  PROVE  TableInv' /\ Grows
<1>1. edit[e].pc = "write" /\ edit[e].ds \in Datasets /\ edit[e].shape \in Form
      /\ Wellformed(edit[e].shape)
  BY DEF WriteEdit, EditTypes
<1>2. PICK d \in Datasets, shape \in Form : d = edit[e].ds /\ shape = edit[e].shape
  BY <1>1
<1>3. CASE Live(d)
  <2>1. /\ datasets' = [datasets EXCEPT ![d].schema = shape.schema, ![d].key = shape.key]
        /\ overtaken' = IF Additive(Seen(d), shape) THEN overtaken ELSE overtaken \cup {d}
        /\ UNCHANGED <<rows, births>>
    BY <1>2, <1>3 DEF WriteEdit
  <2>2. Grows
    BY <2>1 DEF Grows, Stays, TableInv, TableTypes
  <2> QED  BY <1>1, <1>2, <2>1, <2>2, EditKeepsTables
<1>4. CASE ~Live(d)
  <2>1. UNCHANGED <<table, overtaken>>
    BY <1>2, <1>4 DEF WriteEdit, table
  <2> QED  BY <2>1, StillTables
<1> QED  BY <1>3, <1>4

\* The steps that leave the tables alone.
Quiet ==
    \/ \E w \in Tasks : \/ Begin(w) \/ Validate(w) \/ RefuseBatch(w) \/ StartApply(w)
                       \/ Cut(w) \/ LookUp(w) \/ AskApproval(w)
    \/ ChatEffect
    \/ \E e \in Editors : LoadEdit(e) \/ CheckEdit(e)
    \/ \E p \in Approvers : Resolve(p) \/ Look(p) \/ Respond(p)
    \/ \E d \in Datasets : StartExport(d)
    \/ Page \/ CloseExport \/ Crash

LEMMA QuietIsStill ==
  ASSUME Quiet
  PROVE  UNCHANGED <<table, overtaken>>
BY DEF Quiet, Begin, Validate, RefuseBatch, StartApply, Cut, LookUp, AskApproval, ChatEffect,
       LoadEdit, CheckEdit, Resolve, Look, Respond, StartExport, Page, CloseExport, Crash

\* A step that takes a row away.
Takes(d, id, by) ==
    /\ RowAt(d, id) # {} /\ DoDelete(d, id, by)
    /\ work' = Unclean(NoDataset) /\ export' = Shrink(d) /\ overtaken' = overtaken

Adds ==
    \/ \E w \in Tasks : Apply(w)
    \/ CreateDataset
    \/ \E d \in Datasets : BulkDatasetRows(d) \/ UpdateDatasetRow(d)
    \/ \E d \in Datasets : DeleteDataset(d) \/ RestoreDataset(d)
    \/ \E e \in Editors : WriteEdit(e)

LEMMA ApplyDoes ==
  ASSUME WorkTypes, NEW w \in Tasks, work[w].pc = "apply", work[w].at <= Len(work[w].writes)
  PROVE  Current(w) \in Writes
<1>1. work[w].writes \in Seq(Writes) /\ work[w].at \in 1..(Len(work[w].writes) + 1)
  BY DEF WorkTypes, Working
<1>2. work[w].at \in 1..Len(work[w].writes)
  BY <1>1
<1> QED  BY <1>1, <1>2 DEF Current

LEMMA AddsKeepTables ==
  ASSUME DataInv, Adds
  PROVE  TableInv' /\ Grows
<1>1. TableInv /\ WorkTypes /\ EditTypes /\ MaxRows \in Nat
  BY DatasetsAssumption DEF DataInv
<1>2. ASSUME NEW w \in Tasks, Apply(w)
      PROVE  TableInv' /\ Grows
  <2>1. Current(w) \in Writes
    BY <1>1, <1>2, ApplyDoes DEF Apply
  <2>2. PICK x \in Writes : x = Current(w)
    BY <2>1
  <2>3. Nameable(x) /\ Room(Size(x)) /\ CanApply(x) /\ DoApply(x) /\ overtaken' = overtaken
    BY <1>2, <2>2 DEF Apply
  <2> QED  BY <1>1, <2>3, ApplyKeepsTables
<1>3. CASE CreateDataset
  <2>0. PICK slug \in Slugs, shape \in Shapes :
           /\ CanCreate([slug |-> slug, shape |-> shape, batch |-> <<>>])
           /\ DoCreate([slug |-> slug, shape |-> shape, batch |-> <<>>])
    BY <1>3 DEF CreateDataset
  <2>1. PICK x : x = [slug |-> slug, shape |-> shape, batch |-> <<>>] /\ CanCreate(x) /\ DoCreate(x)
    BY <2>0
  <2>2. /\ x.slug \in Slugs /\ x.shape \in Form /\ Wellformed(x.shape)
        /\ x.batch \in Seq(Values) /\ Len(x.batch) = 0
    BY <2>1, DatasetsAssumption DEF Form
  <2>3. births + Len(x.batch) <= MaxRows
    BY <1>1, <2>2 DEF TableInv, TableTypes
  <2> QED  BY <1>1, <1>3, <2>1, <2>2, <2>3, CreateKeepsTables DEF CreateDataset
<1>4. ASSUME NEW d \in Datasets, BulkDatasetRows(d)
      PROVE  TableInv' /\ Grows
  <2>1. PICK mode \in {"insert", "upsert"}, batch \in Batches :
           Room(Len(batch)) /\ CanBulk(d, mode, batch) /\ DoBulk(d, mode, batch)
    BY <1>4 DEF BulkDatasetRows
  <2>2. batch \in Seq(Values) /\ births + Len(batch) <= MaxRows /\ overtaken' = overtaken
    BY <1>4, <2>1, DatasetsAssumption DEF Room, BulkDatasetRows
  <2> QED  BY <1>1, <2>1, <2>2, BulkKeepsTables
<1>5. ASSUME NEW d \in Datasets, UpdateDatasetRow(d)
      PROVE  TableInv' /\ Grows
  <2>1. PICK id \in 1..MaxRows, change \in Changes :
           CanUpdate(d, id, change) /\ DoUpdate(d, id, change)
    BY <1>5 DEF UpdateDatasetRow
  <2>2. (\E columns \in SUBSET Cols : change \in [columns -> Cell]) /\ overtaken' = overtaken
    BY <1>5, <2>1, DatasetsAssumption DEF Cell, UpdateDatasetRow
  <2> QED  BY <1>1, <2>1, <2>2, UpdateKeepsTables
<1>6. ASSUME NEW d \in Datasets, DeleteDataset(d) \/ RestoreDataset(d)
      PROVE  TableInv' /\ Grows
  <2>1. PICK state \in {"live", "deleted"} :
           /\ datasets' = [datasets EXCEPT ![d].state = state]
           /\ datasets[d].state # "absent"
           /\ UNCHANGED <<rows, births, overtaken>>
    BY <1>6 DEF DeleteDataset, RestoreDataset, Live
  <2>2. Grows
    BY <1>1, <2>1 DEF Grows, Stays, TableInv, TableTypes
  <2> QED  BY <1>1, <2>1, <2>2, StateKeepsTables
<1>7. ASSUME NEW e \in Editors, WriteEdit(e)
      PROVE  TableInv' /\ Grows
  BY <1>1, <1>7, WriteEditKeepsTables
<1> QED  BY <1>2, <1>3, <1>4, <1>5, <1>6, <1>7 DEF Adds

\* Every step leaves the tables alone, adds to them or takes one row away.
LEMMA Kinds ==
  ASSUME Next
  PROVE  \/ Quiet /\ UNCHANGED erased
         \/ Adds /\ UNCHANGED <<export, erased, approvals, decide>>
         \/ \E d \in Datasets, id \in Nat : DeleteDatasetRow(d) /\ Takes(d, id, 0)
         \/ \E p \in Approvers : Execute(p)
<1>1. ASSUME NEW w \in Tasks, Begin(w) \/ Validate(w) \/ RefuseBatch(w) \/ StartApply(w)
      PROVE  Quiet /\ UNCHANGED erased
  BY <1>1 DEF Quiet, Begin, Validate, RefuseBatch, StartApply
<1>13. ASSUME NEW w \in Tasks, Cut(w) \/ LookUp(w) \/ AskApproval(w)
       PROVE  Quiet /\ UNCHANGED erased
  BY <1>13 DEF Quiet, Cut, LookUp, AskApproval
<1>14. ASSUME NEW w \in Tasks, Apply(w)
       PROVE  Adds /\ UNCHANGED <<export, erased, approvals, decide>>
  BY <1>14 DEF Adds, Apply
<1>2. ChatEffect \/ Page \/ CloseExport \/ Crash => Quiet /\ UNCHANGED erased
  BY DEF Quiet, ChatEffect, Page, CloseExport, Crash
<1>3. CreateDataset => Adds /\ UNCHANGED <<export, erased, approvals, decide>>
  BY DEF Adds, CreateDataset
<1>4. \A d \in Datasets :
         /\ StartExport(d) => Quiet /\ UNCHANGED erased
         /\ BulkDatasetRows(d) \/ UpdateDatasetRow(d) \/ DeleteDataset(d) \/ RestoreDataset(d)
              => Adds /\ UNCHANGED <<export, erased, approvals, decide>>
  BY DEF Quiet, Adds, StartExport, BulkDatasetRows, UpdateDatasetRow, DeleteDataset, RestoreDataset
<1>5. ASSUME NEW d \in Datasets, DeleteDatasetRow(d)
      PROVE  \E id \in Nat : Takes(d, id, 0)
  <2>1. \A id \in 1..MaxRows : id \in Nat
    BY DatasetsAssumption
  <2> QED  BY <1>5, <2>1 DEF DeleteDatasetRow, Takes
<1>6. \A e \in Editors : /\ LoadEdit(e) \/ CheckEdit(e) => Quiet /\ UNCHANGED erased
                         /\ WriteEdit(e) => Adds /\ UNCHANGED <<export, erased, approvals, decide>>
  BY DEF Quiet, Adds, LoadEdit, CheckEdit, WriteEdit
<1>7. \A p \in Approvers : Resolve(p) \/ Look(p) \/ Respond(p) => Quiet /\ UNCHANGED erased
  BY DEF Quiet, Resolve, Look, Respond
<1>8. CASE \E w \in Workers : Begin(w) \/ Validate(w) \/ RefuseBatch(w) \/ StartApply(w)
  <2>1. PICK w \in Tasks : Begin(w) \/ Validate(w) \/ RefuseBatch(w) \/ StartApply(w)
    BY <1>8 DEF Tasks
  <2> QED  BY <2>1, <1>1
<1>9. CASE \E w \in Workers \cup {Chat} : Apply(w) \/ Cut(w) \/ LookUp(w) \/ AskApproval(w)
  <2>1. PICK w \in Tasks : Apply(w) \/ Cut(w) \/ LookUp(w) \/ AskApproval(w)
    BY <1>9 DEF Tasks
  <2> QED  BY <2>1, <1>13, <1>14
<1>10. CASE \E d \in Datasets : \/ BulkDatasetRows(d) \/ UpdateDatasetRow(d) \/ DeleteDatasetRow(d)
                              \/ DeleteDataset(d) \/ RestoreDataset(d) \/ StartExport(d)
  BY <1>4, <1>5, <1>10
<1>11. CASE \E e \in Editors : LoadEdit(e) \/ CheckEdit(e) \/ WriteEdit(e)
  BY <1>6, <1>11
<1>12. CASE \E p \in Approvers : Resolve(p) \/ Look(p) \/ Execute(p) \/ Respond(p)
  BY <1>7, <1>12
<1> QED  BY <1>2, <1>3, <1>8, <1>9, <1>10, <1>11, <1>12 DEF Next

\* What a step may do to the goroutines that write: one of them moves, Chat begins,
\* all of them die, or the tables change under their hands.
LEMMA Workings ==
  ASSUME Next
  PROVE  \/ \E w \in Tasks : WorkMove(w)
         \/ ChatEffect \/ Crash
         \/ work' = Unclean(NoDataset)
         \/ work' = work
<1>1. CASE \E w \in Workers : Begin(w) \/ Validate(w) \/ RefuseBatch(w) \/ StartApply(w)
  BY <1>1 DEF WorkMove, Tasks
<1>2. CASE \E w \in Workers \cup {Chat} : Apply(w) \/ Cut(w) \/ LookUp(w) \/ AskApproval(w)
  BY <1>2 DEF WorkMove, Tasks
<1>3. CASE CreateDataset
  BY <1>3 DEF CreateDataset
<1>4. CASE \E d \in Datasets : \/ BulkDatasetRows(d) \/ UpdateDatasetRow(d) \/ DeleteDatasetRow(d)
                              \/ DeleteDataset(d) \/ RestoreDataset(d) \/ StartExport(d)
  BY <1>4 DEF BulkDatasetRows, UpdateDatasetRow, DeleteDatasetRow, DeleteDataset, RestoreDataset,
              StartExport
<1>5. CASE \E e \in Editors : LoadEdit(e) \/ CheckEdit(e) \/ WriteEdit(e)
  BY <1>5 DEF LoadEdit, CheckEdit, WriteEdit
<1>6. CASE \E p \in Approvers : Resolve(p) \/ Look(p) \/ Execute(p) \/ Respond(p)
  BY <1>6 DEF Resolve, Look, Execute, Respond
<1>7. CASE Page \/ CloseExport
  BY <1>7 DEF Page, CloseExport
<1> QED  BY <1>1, <1>2, <1>3, <1>4, <1>5, <1>6, <1>7 DEF Next

LEMMA ChatTypes ==
  ASSUME WorkTypes, ChatEffect
  PROVE  WorkTypes'
<1>1. PICK x \in Writes : work' = [work EXCEPT ![Chat] = [NoWork EXCEPT !.pc = "apply", !.writes = <<x>>]]
  BY DEF ChatEffect
<1>2. PICK new : new = [NoWork EXCEPT !.pc = "apply", !.writes = <<x>>]
  OBVIOUS
<1>3. new \in Working /\ new.at = 1 /\ new.writes = <<x>>
  <2>1. PICK one : one = <<x>>
    OBVIOUS
  <2>2. one \in Seq(Writes)
    BY <2>1
  <2>3. new = [NoWork EXCEPT !.pc = "apply", !.writes = one]
    BY <1>2, <2>1
  <2> QED  BY <2>1, <2>2, <2>3, NoWorkIsWorking DEF Working
<1>4. work' = [work EXCEPT ![Chat] = new] /\ new.at \in 1..(Len(new.writes) + 1)
  BY <1>1, <1>2, <1>3
<1> QED  BY <1>3, <1>4 DEF WorkTypes

LEMMA WorkTypesStep ==
  ASSUME WorkTypes, TableTypes, [Next]_vars
  PROVE  WorkTypes'
<1>1. CASE UNCHANGED vars
  BY <1>1, IdleKeepsTypes DEF vars
<1>2. CASE Next
  <2>1. CASE Crash
    BY <2>1, IdleKeepsTypes DEF Crash
  <2> QED  BY <1>2, <2>1, Workings, WorkKeepsTypes, ChatTypes, IdleKeepsTypes
<1> QED  BY <1>1, <1>2

LEMMA EditTypesStep ==
  ASSUME EditTypes, TableTypes, [Next]_vars
  PROVE  EditTypes'
<1>1. ASSUME edit' = edit
      PROVE  EditTypes'
  BY <1>1 DEF EditTypes, Wellformed
<1>2. CASE UNCHANGED vars
  BY <1>1, <1>2 DEF vars
<1>3. CASE \E w \in Workers : Begin(w) \/ Validate(w) \/ RefuseBatch(w) \/ StartApply(w)
  BY <1>1, <1>3 DEF Begin, Validate, RefuseBatch, StartApply
<1>4. CASE \E w \in Workers \cup {Chat} : Apply(w) \/ Cut(w) \/ LookUp(w) \/ AskApproval(w)
  BY <1>1, <1>4 DEF Apply, Cut, LookUp, AskApproval
<1>5. CASE ChatEffect \/ CreateDataset \/ Page \/ CloseExport
  BY <1>1, <1>5 DEF ChatEffect, CreateDataset, Page, CloseExport
<1>6. CASE \E d \in Datasets : \/ BulkDatasetRows(d) \/ UpdateDatasetRow(d) \/ DeleteDatasetRow(d)
                              \/ DeleteDataset(d) \/ RestoreDataset(d) \/ StartExport(d)
  BY <1>1, <1>6 DEF BulkDatasetRows, UpdateDatasetRow, DeleteDatasetRow, DeleteDataset,
                    RestoreDataset, StartExport
<1>7. CASE \E e \in Editors : LoadEdit(e) \/ CheckEdit(e) \/ WriteEdit(e)
  BY <1>7, EditSteps
<1>8. CASE \E p \in Approvers : Resolve(p) \/ Look(p) \/ Execute(p) \/ Respond(p)
  BY <1>1, <1>8 DEF Resolve, Look, Execute, Respond
<1>9. CASE Crash
  <2>1. edit' = [e \in Editors |-> NoEdit]
    BY <1>9 DEF Crash
  <2>2. NoEdit \in [pc : {"idle", "check", "write"}, ds : Datasets \cup {NoDataset},
                    shape : Form, seen : [schema : Schema, key : SUBSET Cols, count : Nat]]
        /\ NoEdit.pc = "idle"
    BY DEF NoEdit, Form, NoSchema, Schema
  <2> QED  BY <2>1, <2>2 DEF EditTypes, Wellformed
<1> QED  BY <1>2, <1>3, <1>4, <1>5, <1>6, <1>7, <1>8, <1>9 DEF Next

-----------------------------------------------------------------------------
(* Approvals and the deletions that follow them. *)

\* A place that was looked up: its number was given out and belongs to one row for ever.
Named(place) == place.ds \in Datasets /\ place.id \in 1..births /\ place.birth = place.id
Gone(place) == \A r \in rows : r.id # place.id
NamedAfter(place) == place.ds \in Datasets /\ place.id \in 1..births' /\ place.birth = place.id
GoneAfter(place) == \A r \in rows' : r.id # place.id

Asked == [status : {"pending", "approved", "rejected"}, targets : Seq(Places)]
Deciding == [pc : {"idle", "look", "delete", "done", "failed"}, id : Nat, at : Nat]

AskedWell == \A w \in Tasks : \A k \in DOMAIN work[w].asked : Named(work[w].asked[k])
ListedWell ==
    /\ approvals \in Seq(Asked)
    /\ \A i \in DOMAIN approvals :
          /\ approvals[i].targets # <<>>
          /\ \A k \in DOMAIN approvals[i].targets : Named(approvals[i].targets[k])
DecidedWell ==
    /\ decide \in [Approvers -> Deciding]
    /\ \A p \in Approvers : decide[p].pc # "idle" =>
          /\ decide[p].id \in DOMAIN approvals
          /\ approvals[decide[p].id].status = "approved"
          /\ decide[p].at \in DOMAIN approvals[decide[p].id].targets
          /\ \A k \in DOMAIN approvals[decide[p].id].targets :
                \/ decide[p].pc = "delete" /\ k < decide[p].at
                \/ decide[p].pc = "done"
                => Gone(approvals[decide[p].id].targets[k])
ErasedWell ==
    \A x \in erased : x.by # 0 =>
        /\ x.by \in DOMAIN approvals
        /\ approvals[x.by].status = "approved"
        /\ \E i \in DOMAIN approvals[x.by].targets : approvals[x.by].targets[i].birth = x.birth
DeletionInv == AskedWell /\ ListedWell /\ DecidedWell /\ ErasedWell

\* What a step does to the rows.
Moves ==
    \/ Grows
    \/ \E d \in Datasets, id \in Nat : RowAt(d, id) # {} /\ Loses(d, id)

LEMMA TargetIsNamed ==
  ASSUME DeletionInv, NEW p \in Approvers, decide[p].pc # "idle"
  PROVE  /\ Named(Target(p)) /\ Target(p).ds \in Datasets /\ Target(p).id \in Nat
         /\ Target(p) \in Places
<1>1. /\ decide[p].id \in DOMAIN approvals
      /\ decide[p].at \in DOMAIN approvals[decide[p].id].targets
  BY DEF DeletionInv, DecidedWell
<1>2. PICK i \in DOMAIN approvals : i = decide[p].id
  BY <1>1
<1>3. approvals[i] \in Asked
  BY DEF DeletionInv, ListedWell
<1>4. approvals[i].targets \in Seq(Places)
  BY <1>3 DEF Asked
<1>5. Target(p) \in Places
  BY <1>1, <1>2, <1>4 DEF Target
<1>6. Named(Target(p))
  BY <1>1, <1>2 DEF DeletionInv, ListedWell, Target
<1> QED  BY <1>5, <1>6 DEF Places

LEMMA TablesStep ==
  ASSUME DataInv, DeletionInv, [Next]_vars
  PROVE  DataInv' /\ Moves
<1>1. TableInv /\ WorkTypes /\ EditTypes /\ TableTypes
  BY DEF DataInv, TableInv
<1>2. WorkTypes' /\ EditTypes'
  BY <1>1, WorkTypesStep, EditTypesStep
<1>3. TableInv' /\ Moves
  <2>1. CASE UNCHANGED vars
    <3>1. UNCHANGED <<table, overtaken>>
      BY <2>1 DEF vars, table
    <3> QED  BY <1>1, <3>1, StillTables DEF Moves
  <2>2. CASE Quiet
    BY <1>1, <2>2, QuietIsStill, StillTables DEF Moves
  <2>3. CASE Adds
    BY <2>3, AddsKeepTables DEF Moves
  <2>4. ASSUME NEW d \in Datasets, NEW id \in Nat, NEW by, Takes(d, id, by)
        PROVE  TableInv' /\ Moves
    <3>1. RowAt(d, id) # {} /\ DoDelete(d, id, by) /\ overtaken' = overtaken
      BY <2>4 DEF Takes
    <3> QED  BY <1>1, <3>1, DeleteKeepsTables DEF Moves
  <2>5. ASSUME NEW p \in Approvers, Execute(p)
        PROVE  TableInv' /\ Moves
    <3>1. PICK t : t = Target(p)
      OBVIOUS
    <3>2. t.ds \in Datasets /\ t.id \in Nat
      BY <2>5, <3>1, TargetIsNamed DEF Execute
    <3>3. CASE RowAt(t.ds, t.id) # {}
      <4>1. Takes(t.ds, t.id, decide[p].id)
        BY <2>5, <3>1, <3>3 DEF Execute, Takes
      <4> QED  BY <3>2, <4>1, <2>4
    <3>4. CASE RowAt(t.ds, t.id) = {}
      <4>1. UNCHANGED <<table, overtaken>>
        BY <2>5, <3>1, <3>4 DEF Execute
      <4> QED  BY <1>1, <4>1, StillTables DEF Moves
    <3> QED  BY <3>3, <3>4
  <2> QED  BY <2>1, <2>2, <2>3, <2>4, <2>5, Kinds
<1> QED  BY <1>2, <1>3 DEF DataInv

\* A number that was given out stays given out, and a row that is gone stays gone.
LEMMA NamedForEver ==
  ASSUME DataInv, Moves, births' \in Nat, NEW place, Named(place)
  PROVE  NamedAfter(place) /\ (Gone(place) => GoneAfter(place))
<1>1. TableTypes /\ births \in Nat /\ RowsAre(rows, births)
  BY DEF DataInv, TableInv, TableTypes
<1>2. CASE Grows
  BY <1>1, <1>2 DEF Grows, Stays, Named, NamedAfter, Gone, GoneAfter
<1>3. ASSUME NEW d \in Datasets, NEW id \in Nat, Loses(d, id)
      PROVE  NamedAfter(place) /\ (Gone(place) => GoneAfter(place))
  BY <1>1, <1>3 DEF Loses, Named, NamedAfter, Gone, GoneAfter
<1> QED  BY <1>2, <1>3 DEF Moves

LEMMA AskedStep ==
  ASSUME DataInv, AskedWell, [Next]_vars
  PROVE  \A w \in Tasks : \A k \in DOMAIN work'[w].asked : Named(work'[w].asked[k])
<1>1. WorkTypes /\ TableTypes /\ work \in [Tasks -> Working]
  BY DEF DataInv, TableInv, WorkTypes
<1>2. ASSUME \A w \in Tasks : work'[w].asked \in {work[w].asked, <<>>}
      PROVE  \A w \in Tasks : \A k \in DOMAIN work'[w].asked : Named(work'[w].asked[k])
  BY <1>2 DEF AskedWell
<1>3. ASSUME NEW w \in Tasks, NEW new, work' = [work EXCEPT ![w] = new],
             new.asked \in {work[w].asked, <<>>}
      PROVE  \A a \in Tasks : work'[a].asked \in {work[a].asked, <<>>}
  BY <1>1, <1>3
<1>4. CASE UNCHANGED vars
  BY <1>2, <1>4 DEF vars
<1>5. CASE work' = work
  BY <1>2, <1>5
<1>6. CASE work' = Unclean(NoDataset)
  BY <1>1, <1>2, <1>6, UncleanWork
<1>7. CASE Crash
  BY <1>1, <1>2, <1>7 DEF Crash, NoWork
<1>8. CASE ChatEffect
  <2>1. PICK x \in Writes : work' = [work EXCEPT ![Chat] = [NoWork EXCEPT !.pc = "apply", !.writes = <<x>>]]
    BY <1>8 DEF ChatEffect
  <2>2. Chat \in Tasks /\ [NoWork EXCEPT !.pc = "apply", !.writes = <<x>>].asked = <<>>
    BY DEF Tasks, NoWork
  <2> QED  BY <2>1, <2>2, <1>2, <1>3
<1>9. ASSUME NEW w \in Tasks, WorkMove(w)
      PROVE  \A a \in Tasks : \A k \in DOMAIN work'[a].asked : Named(work'[a].asked[k])
  <2>0. work[w] \in Working /\ work[w].asked \in Seq(Places) /\ work[w].writes \in Seq(Writes)
    BY <1>1 DEF Working
  <2>1. CASE Begin(w)
    BY <1>2, <1>3, <2>1 DEF Begin, NoWork
  <2>2. CASE Validate(w)
    <3>1. PICK x \in Writes : work' = [work EXCEPT ![w].writes = Append(@, x)]
      BY <2>2 DEF Validate
    <3>2. PICK all : all = Append(work[w].writes, x)
      OBVIOUS
    <3>3. PICK new : new = [work[w] EXCEPT !.writes = all]
      OBVIOUS
    <3>4. new.asked = work[w].asked
      BY <2>0, <3>3 DEF Working
    <3>5. work' = [work EXCEPT ![w] = new]
      BY <3>1, <3>2, <3>3
    <3> QED  BY <3>4, <3>5, <1>2, <1>3
  <2>3. CASE RefuseBatch(w)
    BY <1>2, <1>3, <2>3 DEF RefuseBatch, NoWork
  <2>4. CASE StartApply(w)
    BY <1>1, <1>2, <2>4 DEF StartApply, Working
  <2>5. CASE Apply(w)
    <3>1. PICK mid : mid = Unclean(w)
      OBVIOUS
    <3>2. mid \in [Tasks -> Working] /\ \A a \in Tasks : mid[a].asked = work[a].asked
      BY <1>1, <3>1, UncleanWork
    <3>3. work' = [mid EXCEPT ![w].at = @ + 1]
      BY <2>5, <3>1 DEF Apply
    <3>4. \A a \in Tasks : work'[a].asked = mid[a].asked
      BY <3>2, <3>3 DEF Working
    <3> QED  BY <3>2, <3>4, <1>2
  <2>6. CASE Cut(w)
    <3>1. PICK end : end = Reason(Current(w))
      OBVIOUS
    <3>2. work' = [work EXCEPT ![w].pc = "idle", ![w].end = end]
      BY <2>6, <3>1 DEF Cut
    <3>3. \A a \in Tasks : work'[a].asked = work[a].asked
      BY <1>1, <3>2 DEF Working
    <3> QED  BY <3>3, <1>2
  <2>7. CASE LookUp(w)
    <3>1. PICK i \in Deletions(w) : work' = [work EXCEPT ![w] = LookedUp(w, work[w].writes[i])]
      BY <2>7 DEF LookUp
    <3>2. PICK x : x = work[w].writes[i]
      OBVIOUS
    <3>3. x.ds \in Datasets
      <4>1. x \in Writes /\ x.op = "delete"
        BY <2>0, <3>2 DEF Deletions
      <4> QED  BY <4>1, WriteOf
    <3>4. CASE RowAt(x.ds, x.id) = {}
      <4>1. PICK new : new = [work[w] EXCEPT !.pc = "idle", !.end = "gone"]
        OBVIOUS
      <4>2. new.asked = work[w].asked /\ work' = [work EXCEPT ![w] = new]
        BY <2>0, <3>1, <3>2, <3>4, <4>1 DEF LookedUp, Working
      <4> QED  BY <4>2, <1>2, <1>3
    <3>5. CASE RowAt(x.ds, x.id) # {}
      <4>1. PICK r \in RowAt(x.ds, x.id) : r = Got(x.ds, x.id)
        BY <3>5 DEF Got
      <4>2. r.birth = x.id /\ x.id \in 1..births
        BY <1>1, <3>3, <4>1, TheRow
      <4>3. PICK place : place = [ds |-> x.ds, id |-> x.id, birth |-> r.birth]
        OBVIOUS
      <4>4. Named(place) /\ place \in Places
        BY <3>3, <4>2, <4>3, <1>1 DEF Named, Places, TableTypes
      <4>5. PICK new : new = [work[w] EXCEPT !.asked = Append(@, place)]
        OBVIOUS
      <4>6. new = LookedUp(w, x) /\ work' = [work EXCEPT ![w] = new]
        BY <3>1, <3>2, <3>5, <4>1, <4>3, <4>5 DEF LookedUp
      <4>7. new.asked = Append(work[w].asked, place)
        BY <2>0, <4>5 DEF Working
      <4>8. \A k \in DOMAIN new.asked : Named(new.asked[k])
        <5>1. \A k \in DOMAIN work[w].asked : Named(work[w].asked[k])
          BY DEF AskedWell
        <5>2. PICK old \in Seq(Places) : old = work[w].asked
          BY <2>0
        <5>3. \A k \in 1..Len(old) : Named(old[k])
          BY <5>1, <5>2
        <5>4. \A k \in 1..(Len(old) + 1) :
                 Append(old, place)[k] = place \/ (k \in 1..Len(old) /\ Append(old, place)[k] = old[k])
          BY <4>4
        <5>5. new.asked = Append(old, place) /\ DOMAIN new.asked = 1..(Len(old) + 1)
          BY <4>4, <4>7, <5>2
        <5> QED  BY <4>4, <5>3, <5>4, <5>5
      <4>9. \A a \in Tasks \ {w} : work'[a] = work[a]
        BY <1>1, <4>6
      <4>10. work'[w] = new
        BY <1>1, <4>6
      <4> QED  BY <4>8, <4>9, <4>10 DEF AskedWell
    <3> QED  BY <3>4, <3>5
  <2>8. CASE AskApproval(w)
    <3>1. \A a \in Tasks : work'[a].asked = work[a].asked
      BY <1>1, <2>8 DEF AskApproval, Working
    <3> QED  BY <3>1, <1>2
  <2> QED  BY <1>9, <2>1, <2>2, <2>3, <2>4, <2>5, <2>6, <2>7, <2>8 DEF WorkMove
<1> QED  BY <1>4, <1>5, <1>6, <1>7, <1>8, <1>9, Workings

\* What a step may do to the approvals and to the requests that decide on them.
LEMMA Decidings ==
  ASSUME Next
  PROVE  /\ \/ \E w \in Tasks : AskApproval(w)
            \/ \E p \in Approvers : Resolve(p)
            \/ approvals' = approvals
         /\ \/ \E p \in Approvers : Resolve(p) \/ Look(p) \/ Execute(p) \/ Respond(p)
            \/ Crash
            \/ decide' = decide
         /\ \/ \E d \in Datasets : DeleteDatasetRow(d)
            \/ \E p \in Approvers : Execute(p)
            \/ erased' = erased
<1>1. CASE \E w \in Workers : Begin(w) \/ Validate(w) \/ RefuseBatch(w) \/ StartApply(w)
  BY <1>1 DEF Begin, Validate, RefuseBatch, StartApply
<1>2. CASE \E w \in Workers \cup {Chat} : Apply(w) \/ Cut(w) \/ LookUp(w) \/ AskApproval(w)
  BY <1>2 DEF Tasks, Apply, Cut, LookUp, AskApproval
<1>3. CASE ChatEffect \/ CreateDataset \/ Page \/ CloseExport \/ Crash
  BY <1>3 DEF ChatEffect, CreateDataset, Page, CloseExport, Crash
<1>4. CASE \E d \in Datasets : \/ BulkDatasetRows(d) \/ UpdateDatasetRow(d) \/ DeleteDatasetRow(d)
                              \/ DeleteDataset(d) \/ RestoreDataset(d) \/ StartExport(d)
  BY <1>4 DEF BulkDatasetRows, UpdateDatasetRow, DeleteDatasetRow, DeleteDataset, RestoreDataset,
              StartExport
<1>5. CASE \E e \in Editors : LoadEdit(e) \/ CheckEdit(e) \/ WriteEdit(e)
  BY <1>5 DEF LoadEdit, CheckEdit, WriteEdit
<1>6. CASE \E p \in Approvers : Resolve(p) \/ Look(p) \/ Execute(p) \/ Respond(p)
  BY <1>6 DEF Resolve, Look, Execute, Respond
<1> QED  BY <1>1, <1>2, <1>3, <1>4, <1>5, <1>6 DEF Next

\* An approval keeps its targets, and one that was given stays given.
Kept ==
    \A i \in DOMAIN approvals :
       /\ i \in DOMAIN approvals' /\ approvals'[i].targets = approvals[i].targets
       /\ approvals[i].status = "approved" => approvals'[i].status = "approved"

LEMMA ListedParts ==
  ASSUME DeletionInv
  PROVE  /\ approvals \in Seq(Asked)
         /\ \A i \in DOMAIN approvals :
               /\ i \in Nat /\ approvals[i] \in Asked /\ approvals[i].targets \in Seq(Places)
               /\ approvals[i].targets # <<>>
               /\ \A k \in DOMAIN approvals[i].targets : Named(approvals[i].targets[k])
<1>1. approvals \in Seq(Asked)
  BY DEF DeletionInv, ListedWell
<1>2. \A i \in DOMAIN approvals : i \in Nat /\ approvals[i] \in Asked
  BY <1>1
<1>3. \A i \in DOMAIN approvals : approvals[i].targets \in Seq(Places)
  BY <1>2 DEF Asked
<1> QED  BY <1>1, <1>2, <1>3 DEF DeletionInv, ListedWell

LEMMA ListedStep ==
  ASSUME DataInv, DeletionInv, [Next]_vars, Moves, births' \in Nat
  PROVE  ListedWell' /\ Kept
<1>1. /\ approvals \in Seq(Asked)
      /\ \A i \in DOMAIN approvals :
            /\ approvals[i] \in Asked /\ approvals[i].targets \in Seq(Places)
            /\ approvals[i].targets # <<>>
            /\ \A k \in DOMAIN approvals[i].targets : Named(approvals[i].targets[k])
  BY ListedParts
<1>2. ASSUME approvals' \in Seq(Asked),
             \A i \in DOMAIN approvals' :
                /\ approvals'[i].targets # <<>>
                /\ \A k \in DOMAIN approvals'[i].targets : Named(approvals'[i].targets[k])
      PROVE  ListedWell'
  <2>1. \A i \in DOMAIN approvals' : \A k \in DOMAIN approvals'[i].targets :
           NamedAfter(approvals'[i].targets[k])
    BY <1>2, NamedForEver
  <2> QED  BY <1>2, <2>1 DEF ListedWell, Named, NamedAfter
<1>3. CASE approvals' = approvals
  BY <1>1, <1>2, <1>3 DEF Kept
<1>4. ASSUME NEW w \in Tasks, AskApproval(w)
      PROVE  ListedWell' /\ Kept
  <2>1. work[w].asked \in Seq(Places) /\ \A k \in DOMAIN work[w].asked : Named(work[w].asked[k])
    BY DEF DataInv, WorkTypes, Working, DeletionInv, AskedWell
  <2>2. CASE work[w].asked = <<>>
    BY <1>3, <1>4, <2>2 DEF AskApproval
  <2>3. CASE work[w].asked # <<>>
    <3>1. PICK new : new = [status |-> "pending", targets |-> work[w].asked]
      OBVIOUS
    <3>2. new \in Asked /\ new.targets = work[w].asked
      BY <2>1, <3>1 DEF Asked
    <3>3. approvals' = Append(approvals, new)
      BY <1>4, <2>3, <3>1 DEF AskApproval
    <3>4. /\ approvals' \in Seq(Asked) /\ DOMAIN approvals' = 1..(Len(approvals) + 1)
          /\ \A i \in 1..Len(approvals) : approvals'[i] = approvals[i]
          /\ approvals'[Len(approvals) + 1] = new
      BY <1>1, <3>2, <3>3
    <3>5. DOMAIN approvals = 1..Len(approvals) /\ Len(approvals) \in Nat
      BY <1>1
    <3>6. \A i \in DOMAIN approvals' : i \in DOMAIN approvals \/ i = Len(approvals) + 1
      BY <3>4, <3>5
    <3>7. Kept
      BY <3>4, <3>5 DEF Kept
    <3>8. \A i \in DOMAIN approvals' :
             /\ approvals'[i].targets # <<>>
             /\ \A k \in DOMAIN approvals'[i].targets : Named(approvals'[i].targets[k])
      <4>1. TAKE i \in DOMAIN approvals'
      <4>2. CASE i = Len(approvals) + 1
        BY <4>2, <3>2, <3>4, <2>1, <2>3
      <4>3. CASE i \in DOMAIN approvals
        BY <4>3, <3>4, <3>5, <1>1
      <4> QED  BY <4>2, <4>3, <3>6
    <3> QED  BY <1>2, <3>4, <3>7, <3>8
  <2> QED  BY <2>2, <2>3
<1>5. ASSUME NEW p \in Approvers, Resolve(p)
      PROVE  ListedWell' /\ Kept
  <2>1. PICK i \in DOMAIN approvals, to \in {"approved", "rejected"} :
           approvals[i].status = "pending" /\ approvals' = [approvals EXCEPT ![i].status = to]
    BY <1>5 DEF Resolve
  <2>2. PICK new : new = [approvals[i] EXCEPT !.status = to]
    OBVIOUS
  <2>3. new \in Asked /\ new.targets = approvals[i].targets
    BY <1>1, <2>1, <2>2 DEF Asked
  <2>4. approvals' = [approvals EXCEPT ![i] = new]
    BY <2>1, <2>2
  <2>5. /\ approvals' \in Seq(Asked) /\ DOMAIN approvals' = DOMAIN approvals
        /\ approvals'[i] = new /\ \A j \in DOMAIN approvals \ {i} : approvals'[j] = approvals[j]
    BY <1>1, <2>3, <2>4
  <2>6. \A j \in DOMAIN approvals' : approvals'[j].targets = approvals[j].targets
    BY <2>3, <2>5
  <2>7. Kept
    BY <2>1, <2>5, <2>6 DEF Kept
  <2> QED  BY <1>1, <1>2, <2>5, <2>6, <2>7
<1>6. CASE UNCHANGED vars
  BY <1>3, <1>6 DEF vars
<1> QED  BY <1>3, <1>4, <1>5, <1>6, Decidings

LEMMA DecidedStep ==
  ASSUME DataInv, DeletionInv, [Next]_vars, Moves, births' \in Nat
  PROVE  DecidedWell'
<1>1. Kept
  BY ListedStep
<1>2. /\ decide \in [Approvers -> Deciding]
      /\ \A p \in Approvers : decide[p].pc # "idle" =>
            /\ decide[p].id \in DOMAIN approvals
            /\ approvals[decide[p].id].status = "approved"
            /\ decide[p].at \in DOMAIN approvals[decide[p].id].targets
            /\ \A k \in DOMAIN approvals[decide[p].id].targets :
                  \/ decide[p].pc = "delete" /\ k < decide[p].at
                  \/ decide[p].pc = "done"
                  => Gone(approvals[decide[p].id].targets[k])
  BY DEF DeletionInv, DecidedWell
<1>3. \A i \in DOMAIN approvals :
         /\ i \in Nat /\ approvals[i].targets \in Seq(Places)
         /\ approvals[i].targets # <<>>
         /\ \A k \in DOMAIN approvals[i].targets :
               /\ Named(approvals[i].targets[k])
               /\ Gone(approvals[i].targets[k]) => GoneAfter(approvals[i].targets[k])
  BY ListedParts, NamedForEver
<1> DEFINE Well(new) ==
      new.pc # "idle" =>
            /\ new.id \in DOMAIN approvals'
            /\ approvals'[new.id].status = "approved"
            /\ new.at \in DOMAIN approvals'[new.id].targets
            /\ \A k \in DOMAIN approvals'[new.id].targets :
                  \/ new.pc = "delete" /\ k < new.at
                  \/ new.pc = "done"
                  => GoneAfter(approvals'[new.id].targets[k])
<1>4. \A p \in Approvers : Well(decide[p])
  BY <1>1, <1>2, <1>3 DEF Kept
<1>5. ASSUME NEW p \in Approvers, NEW new \in Deciding, Well(new), decide' = [decide EXCEPT ![p] = new]
      PROVE  DecidedWell'
  <2>1. decide' \in [Approvers -> Deciding] /\ \A a \in Approvers : Well(decide'[a])
    <3> HIDE DEF Well
    <3> QED  BY <1>2, <1>4, <1>5
  <2> QED  BY <2>1 DEF DecidedWell, Gone, GoneAfter
<1>6. NoDecision \in Deciding /\ NoDecision.pc = "idle"
  BY DEF NoDecision, Deciding
<1>7. CASE decide' = decide
  <2>1. decide' \in [Approvers -> Deciding] /\ \A a \in Approvers : Well(decide'[a])
    BY <1>2, <1>4, <1>7
  <2> QED  BY <2>1 DEF DecidedWell, Gone, GoneAfter
<1>8. CASE Crash
  <2>1. decide' = [p \in Approvers |-> NoDecision]
    BY <1>8 DEF Crash
  <2>2. decide' \in [Approvers -> Deciding] /\ \A a \in Approvers : Well(decide'[a])
    BY <1>6, <2>1
  <2> QED  BY <2>2 DEF DecidedWell, Gone, GoneAfter
<1>9. ASSUME NEW p \in Approvers, Resolve(p)
      PROVE  DecidedWell'
  <2>1. PICK i \in DOMAIN approvals, to \in {"approved", "rejected"} :
           /\ approvals[i].status = "pending" /\ approvals' = [approvals EXCEPT ![i].status = to]
           /\ decide' = [decide EXCEPT ![p] =
                IF to = "approved" THEN [pc |-> "look", id |-> i, at |-> 1] ELSE NoDecision]
    BY <1>9 DEF Resolve
  <2>2. PICK new : new = IF to = "approved" THEN [pc |-> "look", id |-> i, at |-> 1] ELSE NoDecision
    OBVIOUS
  <2>3. approvals \in Seq(Asked)
    BY DEF DeletionInv, ListedWell
  <2>4. new \in Deciding
    BY <2>2, <1>3, <1>6 DEF Deciding
  <2>5. CASE to = "approved"
    <3>1. new.pc = "look" /\ new.id = i /\ new.at = 1
      BY <2>2, <2>5
    <3>2. i \in DOMAIN approvals' /\ approvals'[i].status = "approved"
          /\ approvals'[i].targets = approvals[i].targets
      <4>1. approvals[i] \in Asked
        BY ListedParts
      <4>2. PICK asked : asked = [approvals[i] EXCEPT !.status = "approved"]
        OBVIOUS
      <4>3. asked.status = "approved"
        BY <4>1, <4>2 DEF Asked
      <4>4. approvals'[i] = asked
        BY <2>1, <2>3, <2>5, <4>2
      <4> QED  BY <1>1, <4>3, <4>4 DEF Kept
    <3>3. 1 \in DOMAIN approvals[i].targets
      <4>1. approvals[i].targets \in Seq(Places) /\ approvals[i].targets # <<>>
        BY <1>3
      <4> QED  BY <4>1
    <3>4. Well(new)
      BY <3>1, <3>2, <3>3
    <3> QED  BY <1>5, <2>1, <2>2, <2>4, <3>4
  <2>6. CASE to # "approved"
    BY <1>5, <1>6, <2>1, <2>6
  <2> QED  BY <2>5, <2>6
<1>10. ASSUME NEW p \in Approvers, Respond(p)
       PROVE  DecidedWell'
  BY <1>5, <1>6, <1>10 DEF Respond
<1>11. ASSUME NEW p \in Approvers, decide[p].pc # "idle"
       PROVE  /\ decide[p] \in Deciding /\ decide[p].id \in DOMAIN approvals /\ decide[p].id \in Nat
              /\ decide[p].at \in 1..Len(approvals[decide[p].id].targets)
              /\ Len(approvals[decide[p].id].targets) \in Nat
              /\ AtLast(p) <=> decide[p].at = Len(approvals[decide[p].id].targets)
              /\ DOMAIN approvals[decide[p].id].targets = 1..Len(approvals[decide[p].id].targets)
  <2>1. decide[p].id \in DOMAIN approvals /\ decide[p].at \in DOMAIN approvals[decide[p].id].targets
        /\ decide[p] \in Deciding
    BY <1>2, <1>11
  <2>2. PICK targets \in Seq(Places) : targets = approvals[decide[p].id].targets
    BY <1>3, <2>1
  <2>3. DOMAIN targets = 1..Len(targets) /\ Len(targets) \in Nat
    BY <2>2
  <2> QED  BY <2>1, <2>2, <2>3, <1>3 DEF AtLast
<1>12. ASSUME NEW p \in Approvers, Look(p)
       PROVE  DecidedWell'
  <2>1. decide[p].pc = "look" /\ approvals' = approvals
    BY <1>12 DEF Look
  <2>2. PICK n \in Nat : n = Len(approvals[decide[p].id].targets)
    BY <1>11, <2>1
  <2>3. /\ decide[p] \in Deciding /\ decide[p].id \in DOMAIN approvals
        /\ decide[p].at \in 1..n
        /\ approvals[decide[p].id].status = "approved"
        /\ DOMAIN approvals[decide[p].id].targets = 1..n
        /\ AtLast(p) <=> decide[p].at = n
    BY <1>2, <1>11, <2>1, <2>2
  <2>4. CASE RowAt(Target(p).ds, Target(p).id) = {}
    <3>1. PICK new : new = [decide[p] EXCEPT !.pc = "failed"]
      OBVIOUS
    <3>2. decide' = [decide EXCEPT ![p] = new]
      BY <1>12, <2>4, <3>1 DEF Look
    <3>3. new \in Deciding /\ new.id = decide[p].id /\ new.at = decide[p].at /\ new.pc = "failed"
      BY <2>3, <3>1 DEF Deciding
    <3> QED  BY <1>5, <2>1, <2>3, <3>2, <3>3
  <2>5. CASE RowAt(Target(p).ds, Target(p).id) # {} /\ AtLast(p)
    <3>1. PICK new : new = [decide[p] EXCEPT !.pc = "delete", !.at = 1]
      OBVIOUS
    <3>2. decide' = [decide EXCEPT ![p] = new]
      BY <1>12, <2>5, <3>1 DEF Look
    <3>3. new \in Deciding /\ new.id = decide[p].id /\ new.at = 1 /\ new.pc = "delete"
      BY <2>3, <3>1 DEF Deciding
    <3>4. 1 \in 1..n /\ \A k \in 1..n : ~(k < 1)
      BY <2>3
    <3> QED  BY <1>5, <2>1, <2>3, <3>2, <3>3, <3>4
  <2>6. CASE RowAt(Target(p).ds, Target(p).id) # {} /\ ~AtLast(p)
    <3>1. PICK new : new = [decide[p] EXCEPT !.at = @ + 1]
      OBVIOUS
    <3>2. decide' = [decide EXCEPT ![p] = new]
      BY <1>12, <2>6, <3>1 DEF Look, Onward
    <3>3. new \in Deciding /\ new.id = decide[p].id /\ new.at = decide[p].at + 1 /\ new.pc = "look"
      BY <2>1, <2>3, <3>1 DEF Deciding
    <3>4. decide[p].at + 1 \in 1..n
      BY <2>3, <2>6
    <3> QED  BY <1>5, <2>1, <2>3, <3>2, <3>3, <3>4
  <2> QED  BY <2>4, <2>5, <2>6
<1>13. ASSUME NEW p \in Approvers, Execute(p)
       PROVE  DecidedWell'
  <2>1. decide[p].pc = "delete" /\ approvals' = approvals
    BY <1>13 DEF Execute
  <2>2. PICK n \in Nat : n = Len(approvals[decide[p].id].targets)
    BY <1>11, <2>1
  <2>3. /\ decide[p] \in Deciding /\ decide[p].id \in DOMAIN approvals
        /\ decide[p].at \in 1..n
        /\ approvals[decide[p].id].status = "approved"
        /\ DOMAIN approvals[decide[p].id].targets = 1..n
        /\ AtLast(p) <=> decide[p].at = n
        /\ \A k \in 1..n : k < decide[p].at => GoneAfter(approvals[decide[p].id].targets[k])
    BY <1>2, <1>3, <1>11, <2>1, <2>2
  <2>4. PICK t : t = Target(p)
    OBVIOUS
  <2>5. CASE RowAt(t.ds, t.id) = {}
    <3>1. PICK new : new = [decide[p] EXCEPT !.pc = "failed"]
      OBVIOUS
    <3>2. decide' = [decide EXCEPT ![p] = new]
      BY <1>13, <2>4, <2>5, <3>1 DEF Execute
    <3>3. new \in Deciding /\ new.id = decide[p].id /\ new.at = decide[p].at /\ new.pc = "failed"
      BY <2>3, <3>1 DEF Deciding
    <3> QED  BY <1>5, <2>1, <2>3, <3>2, <3>3
  <2>6. CASE RowAt(t.ds, t.id) # {}
    <3>1. GoneAfter(t)
      <4>1. PICK r : r \in RowAt(t.ds, t.id)
        BY <2>6
      <4>2. t.ds \in Datasets /\ t.id \in Nat /\ TableTypes
        BY <2>1, <2>4, TargetIsNamed DEF DataInv, TableInv
      <4>3. RowAt(t.ds, t.id) = {r} /\ \A q \in rows : q.id = t.id => q = r
        BY <4>1, <4>2, TheRow
      <4>4. rows' = rows \ {r}
        BY <1>13, <2>4, <2>6, <4>3 DEF Execute, DoDelete
      <4> QED  BY <4>3, <4>4 DEF GoneAfter
    <3>2. GoneAfter(approvals[decide[p].id].targets[decide[p].at])
      BY <3>1, <2>4 DEF Target
    <3>3. \A k \in 1..n : k <= decide[p].at => GoneAfter(approvals[decide[p].id].targets[k])
      <4>1. \A k \in 1..n : k <= decide[p].at => k < decide[p].at \/ k = decide[p].at
        BY <2>3
      <4> QED  BY <4>1, <3>2, <2>3
    <3>4. CASE AtLast(p)
      <4>1. PICK new : new = [decide[p] EXCEPT !.pc = "done"]
        OBVIOUS
      <4>2. decide' = [decide EXCEPT ![p] = new]
        BY <1>13, <2>4, <2>6, <3>4, <4>1 DEF Execute
      <4>3. new \in Deciding /\ new.id = decide[p].id /\ new.at = decide[p].at /\ new.pc = "done"
        BY <2>3, <4>1 DEF Deciding
      <4>4. \A k \in 1..n : GoneAfter(approvals[decide[p].id].targets[k])
        BY <2>3, <3>3, <3>4
      <4> QED  BY <1>5, <2>1, <2>3, <4>2, <4>3, <4>4
    <3>5. CASE ~AtLast(p)
      <4>1. PICK new : new = [decide[p] EXCEPT !.at = @ + 1]
        OBVIOUS
      <4>2. decide' = [decide EXCEPT ![p] = new]
        BY <1>13, <2>4, <2>6, <3>5, <4>1 DEF Execute, Onward
      <4>3. new \in Deciding /\ new.id = decide[p].id /\ new.at = decide[p].at + 1 /\ new.pc = "delete"
        BY <2>1, <2>3, <4>1 DEF Deciding
      <4>4. decide[p].at + 1 \in 1..n /\ \A k \in 1..n : k < decide[p].at + 1 => k <= decide[p].at
        BY <2>3, <3>5
      <4> QED  BY <1>5, <2>1, <2>3, <3>3, <4>2, <4>3, <4>4
    <3> QED  BY <3>4, <3>5
  <2> QED  BY <2>5, <2>6
<1>14. CASE UNCHANGED vars
  BY <1>7, <1>14 DEF vars
<1> QED  BY <1>7, <1>8, <1>9, <1>10, <1>12, <1>13, <1>14, Decidings

LEMMA ErasedStep ==
  ASSUME DataInv, DeletionInv, [Next]_vars, Moves, births' \in Nat
  PROVE  ErasedWell'
<1>1. Kept
  BY ListedStep
<1>2. \A x \in erased : x.by # 0 =>
        /\ x.by \in DOMAIN approvals
        /\ approvals[x.by].status = "approved"
        /\ \E i \in DOMAIN approvals[x.by].targets : approvals[x.by].targets[i].birth = x.birth
  BY DEF DeletionInv, ErasedWell
<1>3. \A x \in erased : x.by # 0 =>
        /\ x.by \in DOMAIN approvals'
        /\ approvals'[x.by].status = "approved"
        /\ \E i \in DOMAIN approvals'[x.by].targets : approvals'[x.by].targets[i].birth = x.birth
  BY <1>1, <1>2 DEF Kept
<1>4. CASE erased' = erased
  BY <1>3, <1>4 DEF ErasedWell
<1>5. ASSUME NEW d \in Datasets, DeleteDatasetRow(d)
      PROVE  ErasedWell'
  <2>1. PICK id \in 1..MaxRows : DoDelete(d, id, 0)
    BY <1>5 DEF DeleteDatasetRow
  <2>2. \A x \in erased' : x \in erased \/ x.by = 0
    BY <2>1 DEF DoDelete
  <2> QED  BY <1>3, <2>2 DEF ErasedWell
<1>6. ASSUME NEW p \in Approvers, Execute(p)
      PROVE  ErasedWell'
  <2>1. PICK t : t = Target(p)
    OBVIOUS
  <2>2. CASE RowAt(t.ds, t.id) = {}
    BY <1>4, <1>6, <2>1, <2>2 DEF Execute
  <2>3. CASE RowAt(t.ds, t.id) # {}
    <3>1. /\ Named(t) /\ t.ds \in Datasets /\ decide[p].id \in DOMAIN approvals
          /\ approvals[decide[p].id].status = "approved"
          /\ decide[p].at \in DOMAIN approvals[decide[p].id].targets
          /\ t = approvals[decide[p].id].targets[decide[p].at]
      BY <1>6, <2>1, TargetIsNamed DEF Execute, DeletionInv, DecidedWell, Target
    <3>2. \A r \in RowAt(t.ds, t.id) : r.birth = t.birth
      BY <3>1, TheRow DEF Named, DataInv, TableInv
    <3>3. erased' = erased \cup {[birth |-> r.birth, by |-> decide[p].id] : r \in RowAt(t.ds, t.id)}
          /\ approvals' = approvals
      BY <1>6, <2>1, <2>3 DEF Execute, DoDelete
    <3>4. \A x \in erased' : x \in erased \/ (x.by = decide[p].id /\ x.birth = t.birth)
      BY <3>2, <3>3
    <3>5. \A x \in erased' : x.by # 0 =>
             /\ x.by \in DOMAIN approvals /\ approvals[x.by].status = "approved"
             /\ \E i \in DOMAIN approvals[x.by].targets : approvals[x.by].targets[i].birth = x.birth
      <4>1. TAKE x \in erased'
      <4>2. CASE x \in erased
        BY <4>2, <1>2
      <4>3. CASE x.by = decide[p].id /\ x.birth = t.birth
        BY <4>3, <3>1
      <4> QED  BY <4>2, <4>3, <3>4
    <3> QED  BY <3>3, <3>5 DEF ErasedWell
  <2> QED  BY <2>2, <2>3
<1>7. CASE UNCHANGED vars
  BY <1>4, <1>7 DEF vars
<1> QED  BY <1>4, <1>5, <1>6, <1>7, Decidings

LEMMA DeletionStep ==
  ASSUME DataInv, DeletionInv, [Next]_vars
  PROVE  DeletionInv'
<1>1. DataInv' /\ Moves
  BY TablesStep
<1>2. births' \in Nat
  BY <1>1 DEF DataInv, TableInv, TableTypes
<1>3. AskedWell'
  <2>1. \A w \in Tasks : \A k \in DOMAIN work'[w].asked : Named(work'[w].asked[k])
    BY AskedStep DEF DeletionInv
  <2>2. \A w \in Tasks : \A k \in DOMAIN work'[w].asked : NamedAfter(work'[w].asked[k])
    BY <1>1, <1>2, <2>1, NamedForEver
  <2> QED  BY <2>2 DEF AskedWell, Named, NamedAfter
<1> QED  BY <1>1, <1>2, <1>3, ListedStep, DecidedStep, ErasedStep DEF DeletionInv

LEMMA InitDeletion ==
  ASSUME Init
  PROVE  DeletionInv
<1>1. approvals = <<>> /\ erased = {} /\ work = [w \in Tasks |-> NoWork]
      /\ decide = [p \in Approvers |-> NoDecision]
  BY DEF Init, Tasks
<1> QED  BY <1>1 DEF DeletionInv, AskedWell, ListedWell, DecidedWell, ErasedWell, NoWork,
                     NoDecision, Deciding

-----------------------------------------------------------------------------
(* The theorems about the tables and the approved deletions. *)

\* The tables, the goroutines and the deletions stay sound: what the theorems follow from.
LEMMA DataIsInductive == Spec => [](DataInv /\ DeletionInv)
<1>1. Init => DataInv /\ DeletionInv
  BY InitData, InitDeletion
<1>2. DataInv /\ DeletionInv /\ [Next]_vars => (DataInv /\ DeletionInv)'
  BY TablesStep, DeletionStep
<1> QED  BY <1>1, <1>2, PTL DEF Spec

LEMMA RowsAreTheirNumbers ==
  ASSUME DataInv, NEW d \in Datasets
  PROVE  Cardinality(RowsOf(d, rows)) = Cardinality(Ids(d, rows))
<1>1. TableTypes /\ RowsAre(rows, births) /\ births \in Nat
  BY DEF DataInv, TableInv, TableTypes
<1>2. IsFiniteSet(Ids(d, rows))
  BY <1>1, NumbersAreFinite
<1> DEFINE f == [i \in Ids(d, rows) |-> CHOOSE r \in RowsOf(d, rows) : r.id = i]
<1>3. \A i \in Ids(d, rows) : f[i] \in RowsOf(d, rows) /\ f[i].id = i
  BY DEF Ids
<1>4. \A r \in RowsOf(d, rows) : r.id \in Ids(d, rows) /\ f[r.id] = r
  BY <1>1, <1>3 DEF Ids, RowsOf, RowsAre
<1>5. f \in Bijection(Ids(d, rows), RowsOf(d, rows))
  <2>1. f \in [Ids(d, rows) -> RowsOf(d, rows)]
    BY <1>3
  <2>2. f \in Injection(Ids(d, rows), RowsOf(d, rows))
    <3> HIDE DEF f
    <3> QED  BY <1>3, <2>1 DEF Injection, IsInjective
  <2>3. f \in Surjection(Ids(d, rows), RowsOf(d, rows))
    <3> HIDE DEF f
    <3> QED  BY <1>4, <2>1 DEF Surjection
  <2> QED  BY <2>2, <2>3 DEF Bijection
<1>6. ExistsBijection(Ids(d, rows), RowsOf(d, rows))
  <2> HIDE DEF f
  <2> QED  BY <1>5 DEF ExistsBijection
<1> QED  BY <1>2, <1>6, FS_Bijection

\* After every transaction of the store the count a dataset keeps by hand is the number of
\* its rows, and every row fits the schema and carries its fingerprint, unless an edit of the
\* schema was written over what it had not seen (internal/store/datasets.go); for any
\* number of datasets, writers and editors and batches of any length.
THEOREM RowsStaySound == Spec => []RowsAreSound
<1>1. ASSUME DataInv PROVE RowsAreSound
  <2>1. TableTypes /\ WorkTypes /\ RowsAre(rows, births) /\ births \in 0..MaxRows /\ MaxRows \in Nat
    BY <1>1, DatasetsAssumption DEF DataInv, TableInv, TableTypes
  <2>2. \A d \in Datasets : datasets[d].count = Cardinality(Ids(d, rows))
                            /\ datasets[d].count \in 0..MaxRows
    <3>1. TAKE d \in Datasets
    <3>2. datasets[d].count = Cardinality(Ids(d, rows))
      BY <1>1 DEF DataInv, TableInv, Counted
    <3>3. Cardinality(Ids(d, rows)) \in 0..births
      BY <2>1, NumbersAreFinite
    <3> QED  BY <2>1, <3>2, <3>3
  <2>3. TypeOK
    <3>1. \A d \in Datasets :
             datasets[d] \in [state : {"absent", "live", "deleted"}, slug : Slugs, schema : Schema,
                              key : SUBSET Cols, count : 0..MaxRows]
      BY <2>1, <2>2 DEF TableTypes, Tabled
    <3>2. \A r \in rows : /\ r.id \in 1..births /\ r.ds \in Datasets /\ r.vals \in Values
                          /\ r.birth \in 1..births
      BY <2>1 DEF RowsAre, Row
    <3> QED  BY <2>1, <3>1, <3>2 DEF TypeOK, WorkTypes, Tasks
  <2>4. CountsMatch
    BY <1>1, <2>2, RowsAreTheirNumbers DEF CountsMatch
  <2>5. RowsFit
    <3>1. ASSUME NEW d \in Datasets \ overtaken, NEW r \in RowsOf(d, rows)
          PROVE  Storable(Shape(d), r.vals) /\ r.print = Mark(datasets[d].key, r.vals)
      <4>1. r \in rows /\ r.ds = d
        BY DEF RowsOf
      <4>2. Fits(Shape(d), r)
        BY <1>1, <4>1 DEF DataInv, TableInv, Fitting
      <4> QED  BY <2>1, <4>2, FormOf DEF Fits
    <3> QED  BY <3>1 DEF RowsFit
  <2> QED  BY <2>3, <2>4, <2>5 DEF RowsAreSound
<1> QED  BY <1>1, DataIsInductive, PTL

\* An approved deletion (operator/dataset_approvals.go) removes only rows that the approval
\* lists and that were the same rows when it was asked for, and reports success only when none
\* of them is left, whatever tasks, Chat and the owner do in between.
THEOREM DeletionsAreAsApproved == Spec => []DeletionIsAsApproved
<1>1. ASSUME DataInv, DeletionInv PROVE DeletionIsAsApproved
  <2>1. DeletedAsAsked
    BY <1>1 DEF DeletionInv, ErasedWell, DeletedAsAsked
  <2>2. SuccessIsDone
    <3>1. SUFFICES ASSUME NEW p \in Approvers, decide[p].pc = "done",
                          NEW i \in DOMAIN approvals[decide[p].id].targets, NEW r \in rows,
                          r.birth = approvals[decide[p].id].targets[i].birth
                   PROVE  FALSE
      BY DEF SuccessIsDone
    <3>2. decide[p].id \in DOMAIN approvals /\ Gone(approvals[decide[p].id].targets[i])
      BY <1>1, <3>1 DEF DeletionInv, DecidedWell
    <3>3. Named(approvals[decide[p].id].targets[i])
      BY <1>1, <3>2 DEF DeletionInv, ListedWell
    <3>4. r.birth = r.id
      BY <1>1 DEF DataInv, TableInv, TableTypes, RowsAre
    <3> QED  BY <3>1, <3>2, <3>3, <3>4 DEF Gone, Named
  <2> QED  BY <2>1, <2>2 DEF DeletionIsAsApproved
<1> QED  BY <1>1, DataIsInductive, PTL

-----------------------------------------------------------------------------
(* A batch that was validated: what the validation accepts, the transactions take. *)

\* Every row of the batch is taken when all can be stored and none meets another.
LEMMA PutIsOk ==
  ASSUME NEW d \in Datasets, NEW shape \in Form, NEW mode, NEW batch \in Seq(Values),
         \A i \in DOMAIN batch : Storable(shape, batch[i]),
         \/ mode # "insert"
         \/ /\ \A r \in rows : r.ds # d
            /\ shape.key # {} => \A i, j \in DOMAIN batch :
                  i # j => Mark(shape.key, batch[i]) # Mark(shape.key, batch[j])
  PROVE  Put(d, shape, mode, batch).ok
<1> DEFINE N == Len(batch)
<1>0. N \in Nat /\ DOMAIN batch = 1..N
  OBVIOUS
<1>1. PICK p : Way(p, N, d, shape, mode, batch) /\ Put(d, shape, mode, batch) = p[N]
  BY <1>0, PutIsTheEnd
<1> HIDE DEF N
<1>2. p[0] = Start /\ \A k \in 1..N : p[k] = PutRow(d, shape, mode, p[k - 1], batch[k])
  BY <1>0, <1>1 DEF Way
<1> DEFINE Good(k) ==
      /\ p[k].ok
      /\ p[k] = [ok |-> p[k].ok, rows |-> p[k].rows, births |-> p[k].births,
                 inserted |-> p[k].inserted]
      /\ mode = "insert" => \A r \in p[k].rows : r.ds = d =>
            \E j \in 1..N : j <= k /\ r.print = Mark(shape.key, batch[j])
<1>3. Good(0)
  BY <1>2 DEF Start
<1>4. ASSUME NEW j \in Nat, NEW k \in 1..N, k = j + 1, Good(j)
      PROVE  Good(k)
  <2>1. PICK acc, v, print, old :
           /\ acc = p[j] /\ v = batch[k] /\ print = Mark(shape.key, v)
           /\ old = Clashing(d, print, acc.rows)
    OBVIOUS
  <2>2. p[k] = PutRow(d, shape, mode, acc, v)
    <3>1. k - 1 = j
      BY <1>0, <1>4
    <3> QED  BY <3>1, <2>1, <1>2
  <2>3. acc.ok /\ Storable(shape, v)
    BY <2>1, <1>0, <1>4
  <2>4. mode = "insert" => old = {}
    <3>1. SUFFICES ASSUME mode = "insert", NEW r \in old PROVE FALSE
      OBVIOUS
    <3>2. r \in acc.rows /\ r.ds = d /\ DOMAIN r.print # {} /\ r.print = print
      BY <2>1 DEF Clashing
    <3>3. PICK i \in 1..N : i <= j /\ print = Mark(shape.key, batch[i])
      BY <3>1, <3>2, <2>1, <1>4
    <3>4. DOMAIN print = shape.key
      BY <2>1 DEF Mark
    <3>5. i # k /\ i \in DOMAIN batch /\ k \in DOMAIN batch
      BY <3>3, <1>0, <1>4
    <3>6. Mark(shape.key, batch[i]) = Mark(shape.key, batch[k])
      BY <3>3, <2>1
    <3> QED  BY <3>1, <3>2, <3>4, <3>5, <3>6
  <2>5. acc = [ok |-> acc.ok, rows |-> acc.rows, births |-> acc.births, inserted |-> acc.inserted]
        /\ (mode = "insert" => \A r \in acc.rows : r.ds = d =>
               \E i \in 1..N : i <= j /\ r.print = Mark(shape.key, batch[i]))
    BY <2>1, <1>4
  <2>6. CASE old # {}
    <3>1. PICK new : new = {IF r \in old THEN [r EXCEPT !.vals = v] ELSE r : r \in acc.rows}
      OBVIOUS
    <3>2. p[k] = [acc EXCEPT !.rows = new]
      BY <2>1, <2>2, <2>3, <2>4, <2>6, <3>1 DEF PutRow
    <3>3. /\ p[k].ok = acc.ok
          /\ p[k] = [ok |-> acc.ok, rows |-> new, births |-> acc.births, inserted |-> acc.inserted]
      BY <3>2, <2>5
    <3> QED  BY <3>3, <2>3, <2>4, <2>6
  <2>7. CASE old = {}
    <3>1. PICK row : row = [id |-> NextId(acc.rows, acc.births), ds |-> d, vals |-> v,
                            print |-> print, birth |-> acc.births + 1]
      OBVIOUS
    <3>2. p[k] = [acc EXCEPT !.rows = @ \cup {row}, !.births = @ + 1, !.inserted = @ + 1]
      BY <2>1, <2>2, <2>3, <2>7, <3>1 DEF PutRow
    <3>3. p[k] = [ok |-> acc.ok, rows |-> acc.rows \cup {row}, births |-> acc.births + 1,
                  inserted |-> acc.inserted + 1]
      BY <3>2, <2>5
    <3>4. /\ p[k].ok = acc.ok /\ p[k].rows = acc.rows \cup {row}
          /\ p[k] = [ok |-> p[k].ok, rows |-> p[k].rows, births |-> p[k].births,
                     inserted |-> p[k].inserted]
      BY <3>3
    <3>5. row.print = Mark(shape.key, batch[k])
      BY <3>1, <2>1
    <3>6. \A i \in 1..N : i <= j => i <= k
      BY <1>0, <1>4
    <3>7. k <= k
      BY <1>0
    <3> QED  BY <3>4, <3>5, <3>6, <3>7, <2>3, <2>5
  <2> QED  BY <2>6, <2>7
<1> DEFINE Bad == {k \in 0..N : ~Good(k)}
<1> HIDE DEF Good
<1>5. ASSUME Bad # {} PROVE FALSE
  <2>1. PICK k \in Bad : \A j \in Bad : k <= j
    <3>1. Bad \subseteq Nat
      BY <1>0
    <3> HIDE DEF Bad
    <3> QED  BY <1>5, <3>1, LeastNumber
  <2>2. k # 0
    BY <1>3, <2>1
  <2>3. PICK j \in Nat : k = j + 1 /\ j \notin Bad /\ j \in 0..N /\ k \in 1..N
    <3>1. k - 1 \in Nat /\ k = (k - 1) + 1 /\ k - 1 \notin Bad /\ k - 1 \in 0..N /\ k \in 1..N
      BY <1>0, <2>1, <2>2
    <3> QED  BY <3>1
  <2> QED  BY <2>1, <2>3, <1>4
<1>6. Good(N)
  BY <1>0, <1>5
<1> QED  BY <1>1, <1>6 DEF Good

\* What a validated write needs of the tables when its turn comes.
NewRowsFit(x) ==
    x.batch # <<>> =>
       /\ WithSchema(x.shape, x.batch).schema # NoSchema
       /\ \A i \in DOMAIN x.batch : Storable(WithSchema(x.shape, x.batch), x.batch[i])
       /\ WithSchema(x.shape, x.batch).key # {} => \A i, j \in DOMAIN x.batch :
             i # j => Mark(WithSchema(x.shape, x.batch).key, x.batch[i])
                        # Mark(WithSchema(x.shape, x.batch).key, x.batch[j])
Ready(x) ==
    /\ x.op = "create" => ~SlugLive(x.slug) /\ NewRowsFit(x)
    /\ x.op = "upsert" =>
          /\ Live(x.ds) /\ datasets[x.ds].schema # NoSchema /\ datasets[x.ds].key # {}
          /\ \A i \in DOMAIN x.batch : Storable(Shape(x.ds), x.batch[i])
    /\ x.op = "update" =>
          /\ datasets[x.ds].schema # NoSchema
          /\ \E r \in RowAt(x.ds, x.id) : Storable(Shape(x.ds), Merged(r, x.change))
    /\ x.op = "delete" => RowAt(x.ds, x.id) # {}

LEMMA ValidIsReady ==
  ASSUME NEW w, NEW x \in Writes, Valid(w, x)
  PROVE  Ready(x) /\ (x.op = "create" => x.slug \notin Created(w))
<1>1. CASE x.op = "create"
  <2>1. ValidNew(w, x)
    BY <1>1 DEF Valid
  <2> QED  BY <1>1, <2>1 DEF ValidNew, Ready, NewRowsFit
<1>2. CASE x.op = "upsert"
  <2>1. ValidRows(x.ds, "upsert", x.batch)
    BY <1>2 DEF Valid
  <2> QED  BY <1>2, <2>1 DEF ValidRows, Ready
<1>3. CASE x.op = "update"
  <2>1. PICK r \in RowAt(x.ds, x.id) : ValidRows(x.ds, "insert", <<Merged(r, x.change)>>)
    BY <1>3 DEF Valid
  <2>2. PICK one : one = <<Merged(r, x.change)>>
    OBVIOUS
  <2>3. 1 \in DOMAIN one /\ one[1] = Merged(r, x.change)
    BY <2>2
  <2>4. datasets[x.ds].schema # NoSchema /\ Storable(Shape(x.ds), one[1])
    BY <2>1, <2>2, <2>3 DEF ValidRows
  <2> QED  BY <1>3, <2>3, <2>4 DEF Ready
<1>4. CASE x.op = "delete"
  <2>1. RowAt(x.ds, x.id) # {}
    BY <1>4 DEF Valid
  <2> QED  BY <1>4, <2>1 DEF Ready
<1> QED  BY <1>1, <1>2, <1>3, <1>4, WriteOf

\* A write that is ready and cannot be applied meets what no validation looks at.
LEMMA ReadyReason ==
  ASSUME DataInv, NEW x \in Writes, Ready(x), Nameable(x), ~CanApply(x)
  PROVE  Reason(x) \in {"deleted slug", "unique key"}
<1>1. TableTypes /\ births \in Nat
  BY DEF DataInv, TableInv, TableTypes
<1>2. CASE x.op = "create"
  <2>1. ~CanCreate(x) /\ ~SlugLive(x.slug) /\ NewRowsFit(x) /\ CanName
    BY <1>2 DEF CanApply, Ready, Nameable
  <2>2. CASE SlugTaken(x.slug)
    BY <1>2, <2>1, <2>2 DEF Reason
  <2>3. CASE ~SlugTaken(x.slug)
    <3>1. x.batch # <<>>
      BY <2>1, <2>3 DEF CanCreate
    <3>2. PICK d, shape, batch : d = NewId /\ shape = WithSchema(x.shape, x.batch) /\ batch = x.batch
      OBVIOUS
    <3>3. d \in Datasets /\ datasets[d].state = "absent"
      BY <2>1, <3>2 DEF CanName, NewId
    <3>4. batch \in Seq(Values) /\ x.shape \in Form /\ Wellformed(x.shape)
      BY <1>2, <3>2, WriteOf
    <3>5. shape \in Form
      BY <3>2, <3>4, SchemaIsForm
    <3>6. \A r \in rows : r.ds # d
      BY <1>1, <3>3 DEF TableTypes
    <3>7. /\ \A i \in DOMAIN batch : Storable(shape, batch[i])
          /\ shape.key # {} => \A i, j \in DOMAIN batch :
                i # j => Mark(shape.key, batch[i]) # Mark(shape.key, batch[j])
          /\ shape.schema # NoSchema
      BY <2>1, <3>1, <3>2 DEF NewRowsFit
    <3>8. Put(d, shape, "insert", batch).ok
      BY <3>3, <3>4, <3>5, <3>6, <3>7, PutIsOk
    <3>9. CanCreate(x)
      BY <2>3, <3>2, <3>7, <3>8 DEF CanCreate, Described
    <3> QED  BY <2>1, <3>9
  <2> QED  BY <2>2, <2>3
<1>3. CASE x.op = "upsert"
  <2>1. PICK d, batch : d = x.ds /\ batch = x.batch
    OBVIOUS
  <2>2. d \in Datasets /\ batch \in Seq(Values)
    BY <1>3, <2>1, WriteOf
  <2>3. /\ Live(d) /\ datasets[d].schema # NoSchema /\ datasets[d].key # {}
        /\ \A i \in DOMAIN batch : Storable(Shape(d), batch[i])
    BY <1>3, <2>1 DEF Ready
  <2>4. Shape(d) \in Form /\ Shape(d).schema = datasets[d].schema /\ WithSchema(Shape(d), batch) = Shape(d)
    BY <1>1, <2>2, <2>3, FormOf DEF WithSchema
  <2>5. Put(d, Shape(d), "upsert", batch).ok
    BY <2>2, <2>3, <2>4, PutIsOk
  <2>6. CanBulk(d, "upsert", batch)
    BY <2>3, <2>4, <2>5 DEF CanBulk, Described
  <2> QED  BY <1>3, <2>1, <2>6 DEF CanApply
<1>4. CASE x.op = "update"
  <2>1. PICK r \in RowAt(x.ds, x.id) : Storable(Shape(x.ds), Merged(r, x.change))
    BY <1>4 DEF Ready
  <2> QED  BY <1>4, <2>1 DEF Reason
<1>5. CASE x.op = "delete"
  BY <1>5 DEF CanApply
<1> QED  BY <1>2, <1>3, <1>4, <1>5, WriteOf

\* What the writes of one batch do to the rest of the batch: live datasets stay live and
\* keep their schemas, no slug appears but that of x, and a row is the same or can be stored.
Kindly(x) ==
    /\ \A e \in Datasets : Live(e) => /\ datasets'[e].state = "live"
                                      /\ datasets'[e].schema = datasets[e].schema
                                      /\ datasets'[e].key = datasets[e].key
    /\ \A e \in Datasets : datasets'[e].state = "live" =>
          \/ Live(e) /\ datasets'[e].slug = datasets[e].slug
          \/ x.op = "create" /\ datasets'[e].slug = x.slug
    /\ \A q \in rows' : q \in rows \/ ~Live(q.ds) \/ Storable(Shape(q.ds), q.vals)

LEMMA ReadyIsKind ==
  ASSUME DataInv, NEW x \in Writes, Ready(x), Nameable(x), CanApply(x), DoApply(x)
  PROVE  Kindly(x)
<1>1. TableTypes /\ births \in Nat /\ RowsAre(rows, births) /\ datasets \in Tabled
  BY DEF DataInv, TableInv, TableTypes
<1>2. CASE x.op = "create"
  <2>1. CanName /\ DoCreate(x)
    BY <1>2 DEF Nameable, DoApply
  <2>2. PICK d, shape, batch, put :
           /\ d = NewId /\ batch = x.batch
           /\ shape = IF x.batch = <<>> THEN x.shape ELSE WithSchema(x.shape, x.batch)
           /\ put = Put(d, shape, "insert", batch)
    OBVIOUS
  <2>3. d \in Datasets /\ datasets[d].state = "absent"
    BY <2>1, <2>2 DEF CanName, NewId
  <2>4. batch \in Seq(Values) /\ x.shape \in Form /\ Wellformed(x.shape)
    BY <1>2, <2>2, WriteOf
  <2>5. shape \in Form
    BY <2>2, <2>4, SchemaIsForm
  <2>6. On(d, shape, put, Len(batch))
    BY <1>1, <2>2, <2>3, <2>4, <2>5, BatchIsPut
  <2>7. /\ datasets' = [datasets EXCEPT ![d] = [state |-> "live", slug |-> x.slug,
                           schema |-> shape.schema, key |-> shape.key, count |-> put.inserted]]
        /\ rows' = put.rows
    BY <2>1, <2>2 DEF DoCreate
  <2>8. /\ datasets'[d].slug = x.slug /\ \A e \in Datasets \ {d} : datasets'[e] = datasets[e]
    BY <1>1, <2>3, <2>7 DEF Tabled
  <2>9. \A q \in rows' : q \in rows \/ q.ds = d
    BY <2>6, <2>7 DEF On, Written
  <2>10. ~Live(d)
    BY <2>3 DEF Live
  <2> QED  BY <1>2, <2>8, <2>9, <2>10 DEF Kindly, Live
<1>3. CASE x.op = "upsert"
  <2>1. PICK d, batch : d = x.ds /\ batch = x.batch
    OBVIOUS
  <2>2. d \in Datasets /\ batch \in Seq(Values) /\ DoBulk(d, "upsert", batch)
    BY <1>3, <2>1, WriteOf DEF DoApply
  <2>3. Live(d) /\ datasets[d].schema # NoSchema
    BY <1>3, <2>1 DEF Ready
  <2>4. Shape(d) \in Form /\ Shape(d).schema = datasets[d].schema /\ WithSchema(Shape(d), batch) = Shape(d)
    BY <1>1, <2>2, <2>3, FormOf DEF WithSchema
  <2>5. PICK shape, put : shape = Shape(d) /\ put = Put(d, shape, "upsert", batch)
    OBVIOUS
  <2>6. On(d, shape, put, Len(batch))
    BY <1>1, <2>2, <2>4, <2>5, BatchIsPut
  <2>7. /\ datasets' = [datasets EXCEPT ![d].schema = shape.schema, ![d].count = @ + put.inserted]
        /\ rows' = put.rows /\ shape.schema = datasets[d].schema
    BY <2>2, <2>4, <2>5 DEF DoBulk
  <2>8. \A e \in Datasets : /\ datasets'[e].state = datasets[e].state
                            /\ datasets'[e].slug = datasets[e].slug
                            /\ datasets'[e].schema = datasets[e].schema
                            /\ datasets'[e].key = datasets[e].key
    BY <1>1, <2>2, <2>7 DEF Tabled
  <2>9. \A q \in rows' : q \in rows \/ (q.ds = d /\ Storable(Shape(d), q.vals))
    BY <2>5, <2>6, <2>7 DEF On, Written, Fits
  <2> QED  BY <2>8, <2>9 DEF Kindly, Live
<1>4. CASE x.op = "update"
  <2>1. PICK d, id, change : d = x.ds /\ id = x.id /\ change = x.change
    OBVIOUS
  <2>2. d \in Datasets /\ DoUpdate(d, id, change) /\ CanUpdate(d, id, change)
    BY <1>4, <2>1, WriteOf DEF DoApply, CanApply
  <2>3. PICK r \in RowAt(d, id) : Storable(Shape(d), Merged(r, change))
    BY <2>2 DEF CanUpdate
  <2>4. r \in Row /\ r.ds = d /\ RowAt(d, id) = {r}
    BY <1>1, <2>2, <2>3, TheRow
  <2>5. PICK v : v = Merged(r, change)
    OBVIOUS
  <2>6. PICK new : new = [r EXCEPT !.vals = v, !.print = Mark(datasets[d].key, v)]
    OBVIOUS
  <2>7. new.ds = d /\ new.vals = v
    BY <2>4, <2>6 DEF Row
  <2>8. rows' = {IF q = r THEN new ELSE q : q \in rows} /\ datasets' = datasets
    BY <2>2, <2>4, <2>5, <2>6 DEF DoUpdate
  <2>9. \A q \in rows' : q \in rows \/ (q.ds = d /\ Storable(Shape(d), q.vals))
    BY <2>3, <2>5, <2>7, <2>8
  <2> QED  BY <2>8, <2>9 DEF Kindly, Live
<1>5. CASE x.op = "delete"
  BY <1>5 DEF DoApply, table, Kindly, Live
<1> QED  BY <1>2, <1>3, <1>4, <1>5, WriteOf

\* Storable goes column by column.
LEMMA MergedAgain ==
  ASSUME NEW shape, NEW change, NEW r, NEW q, Storable(shape, Merged(r, change)),
         Storable(shape, q.vals), shape.key \subseteq Cols
  PROVE  Storable(shape, Merged(q, change))
<1>1. \A c \in Cols : /\ Merged(r, change)[c] = IF c \in DOMAIN change THEN change[c] ELSE r.vals[c]
                      /\ Merged(q, change)[c] = IF c \in DOMAIN change THEN change[c] ELSE q.vals[c]
  BY DEF Merged
<1>2. Conforms(shape.schema, Merged(q, change))
  BY <1>1 DEF Storable, Conforms
<1>3. Encodable(shape.key, Merged(q, change))
  BY <1>1 DEF Storable, Encodable
<1> QED  BY <1>2, <1>3 DEF Storable

LEMMA ReadyStays ==
  ASSUME DataInv, DataInv', Grows, NEW x, Kindly(x), NEW y \in Writes, Ready(y),
         x.op = "create" /\ y.op = "create" => x.slug # y.slug
  PROVE  Ready(y)'
<1>1. TableTypes /\ births \in Nat /\ RowsAre(rows, births) /\ rows \subseteq Row
      /\ RowsAre(rows', births') /\ rows' \subseteq Row
  BY DEF DataInv, TableInv, TableTypes, RowsAre
<1>2. CASE y.op = "create"
  <2>1. \A e \in Datasets : ~(datasets'[e].state = "live" /\ datasets'[e].slug = y.slug)
    BY <1>2 DEF Kindly, Ready, SlugLive, Live
  <2>2. NewRowsFit(y)
    BY <1>2 DEF Ready
  <2>3. NewRowsFit(y)' /\ ~SlugLive(y.slug)'
    BY <2>1, <2>2 DEF SlugLive, Live, NewRowsFit, WithSchema, Inferred, NoSchema, Storable, Conforms,
                      Encodable, Mark
  <2> QED  BY <1>2, <2>3 DEF Ready
<1>3. ASSUME NEW d \in Datasets, Live(d)
      PROVE  Live(d)' /\ datasets'[d].schema = datasets[d].schema /\ datasets'[d].key = datasets[d].key
             /\ Shape(d)' = Shape(d)
  BY <1>3 DEF Kindly, Live, Shape
<1>4. ASSUME NEW d \in Datasets, NEW id, NEW r \in RowAt(d, id)
      PROVE  \E q \in RowAt(d, id)' : q = r \/ Storable(Shape(d), q.vals)
  <2>1. r \in rows /\ r.ds = d /\ r.id = id /\ Live(d) /\ id \in 1..births
        /\ \A p \in rows : p.id = id => p = r
    BY <1>1, <1>4, TheRow
  <2>2. PICK q \in rows' : q.id = r.id /\ q.ds = r.ds
    BY <2>1 DEF Grows, Stays
  <2>3. q \in RowAt(d, id)'
    BY <1>3, <2>1, <2>2 DEF RowAt
  <2>4. q \in rows \/ Storable(Shape(d), q.vals)
    BY <2>1, <2>2 DEF Kindly
  <2> QED  BY <2>1, <2>2, <2>3, <2>4
<1>5. CASE y.op = "upsert"
  <2>1. y.ds \in Datasets /\ Live(y.ds) /\ datasets[y.ds].schema # NoSchema
        /\ datasets[y.ds].key # {} /\ \A i \in DOMAIN y.batch : Storable(Shape(y.ds), y.batch[i])
    BY <1>5, WriteOf DEF Ready
  <2>2. \A i \in DOMAIN y.batch : Storable(Shape(y.ds)', y.batch[i])
    BY <1>3, <2>1
  <2> QED  BY <1>3, <1>5, <2>1, <2>2 DEF Ready, Storable, Conforms, Encodable, NoSchema
<1>6. CASE y.op = "update"
  <2>1. y.ds \in Datasets /\ datasets[y.ds].schema # NoSchema
    BY <1>6, WriteOf DEF Ready
  <2>2. PICK r \in RowAt(y.ds, y.id) : Storable(Shape(y.ds), Merged(r, y.change))
    BY <1>6 DEF Ready
  <2>3. Live(y.ds)
    BY <2>2 DEF RowAt
  <2>4. PICK q \in RowAt(y.ds, y.id)' : q = r \/ Storable(Shape(y.ds), q.vals)
    BY <1>4, <2>1, <2>2
  <2>5. Shape(y.ds).key \subseteq Cols
    BY <1>1, <2>1, FormOf
  <2>6. Storable(Shape(y.ds), Merged(q, y.change))
    BY <2>2, <2>4, <2>5, MergedAgain
  <2>7. PICK v : v = Merged(q, y.change)
    OBVIOUS
  <2>8. Storable(Shape(y.ds)', v) /\ datasets'[y.ds].schema # NoSchema
    BY <1>3, <2>1, <2>3, <2>6, <2>7
  <2> QED  BY <1>6, <2>4, <2>7, <2>8 DEF Ready, Storable, Conforms, Encodable, NoSchema, Merged
<1>7. CASE y.op = "delete"
  <2>1. PICK r : r \in RowAt(y.ds, y.id)
    BY <1>7 DEF Ready
  <2>2. y.ds \in Datasets
    BY <1>7, WriteOf
  <2>3. RowAt(y.ds, y.id)' # {}
    BY <1>4, <2>1, <2>2
  <2> QED  BY <1>7, <2>3 DEF Ready
<1> QED  BY <1>2, <1>5, <1>6, <1>7, WriteOf

\* What a batch of a task may still rely on, while nobody else wrote.
Bad == {"live slug", "gone", "rows"}
Awaits(job, x) ==
    \E i \in DOMAIN job.writes : (i >= job.at \/ x.op = "delete") /\ job.writes[i] = x
Hopeful(job) ==
    /\ job.end \notin Bad
    /\ job.pc = "validate" => job.at = 1
    /\ job.pc # "idle" =>
          /\ \A x \in Writes : Awaits(job, x) => Ready(x)
          /\ \A i, j \in DOMAIN job.writes :
                i # j /\ job.writes[i].op = "create" /\ job.writes[j].op = "create"
                => job.writes[i].slug # job.writes[j].slug
CleanInv == \A w \in Workers : work[w].clean => Hopeful(work[w])

\* A step of one goroutine that leaves the tables alone.
Hands(w) == \/ Begin(w) \/ Validate(w) \/ RefuseBatch(w) \/ StartApply(w)
            \/ Cut(w) \/ LookUp(w) \/ AskApproval(w)

\* The tables change only together with the marks of those who had looked at them.
LEMMA Watched ==
  ASSUME Next
  PROVE  \/ \E w \in Tasks : Apply(w)
         \/ work' = Unclean(NoDataset)
         \/ UNCHANGED table /\ \/ \E w \in Tasks : Hands(w)
                               \/ ChatEffect \/ Crash
                               \/ work' = work
<1>1. ASSUME NEW w \in Tasks, Begin(w) \/ Validate(w) \/ RefuseBatch(w) \/ StartApply(w)
      PROVE  UNCHANGED table /\ Hands(w)
  BY <1>1 DEF Hands, Begin, Validate, RefuseBatch, StartApply
<1>2. ASSUME NEW w \in Tasks, Cut(w) \/ LookUp(w) \/ AskApproval(w)
      PROVE  UNCHANGED table /\ Hands(w)
  BY <1>2 DEF Hands, Cut, LookUp, AskApproval
<1>3. CASE \E w \in Workers : Begin(w) \/ Validate(w) \/ RefuseBatch(w) \/ StartApply(w)
  <2>1. PICK w \in Tasks : Begin(w) \/ Validate(w) \/ RefuseBatch(w) \/ StartApply(w)
    BY <1>3 DEF Tasks
  <2> QED  BY <2>1, <1>1
<1>4. CASE \E w \in Workers \cup {Chat} : Apply(w) \/ Cut(w) \/ LookUp(w) \/ AskApproval(w)
  <2>1. PICK w \in Tasks : Apply(w) \/ Cut(w) \/ LookUp(w) \/ AskApproval(w)
    BY <1>4 DEF Tasks
  <2> QED  BY <2>1, <1>2
<1>5. CASE ChatEffect \/ Page \/ CloseExport \/ Crash
  BY <1>5 DEF ChatEffect, Page, CloseExport, Crash
<1>6. CASE CreateDataset
  BY <1>6 DEF CreateDataset
<1>7. CASE \E d \in Datasets : \/ BulkDatasetRows(d) \/ UpdateDatasetRow(d) \/ DeleteDatasetRow(d)
                              \/ DeleteDataset(d) \/ RestoreDataset(d) \/ StartExport(d)
  BY <1>7 DEF BulkDatasetRows, UpdateDatasetRow, DeleteDatasetRow, DeleteDataset, RestoreDataset,
              StartExport
<1>8. ASSUME NEW e \in Editors, LoadEdit(e) \/ CheckEdit(e) \/ WriteEdit(e)
      PROVE  work' = Unclean(NoDataset) \/ (UNCHANGED table /\ work' = work)
  <2>1. CASE LoadEdit(e) \/ CheckEdit(e)
    BY <2>1 DEF LoadEdit, CheckEdit
  <2>2. CASE WriteEdit(e)
    BY <2>2 DEF WriteEdit, table
  <2> QED  BY <1>8, <2>1, <2>2
<1>9. ASSUME NEW p \in Approvers, Resolve(p) \/ Look(p) \/ Execute(p) \/ Respond(p)
      PROVE  work' = Unclean(NoDataset) \/ (UNCHANGED table /\ work' = work)
  <2>1. CASE Resolve(p) \/ Look(p) \/ Respond(p)
    BY <2>1 DEF Resolve, Look, Respond
  <2>2. CASE Execute(p)
    BY <2>2 DEF Execute
  <2> QED  BY <1>9, <2>1, <2>2
<1> QED  BY <1>3, <1>4, <1>5, <1>6, <1>7, <1>8, <1>9 DEF Next

LEMMA ReadyStill ==
  ASSUME UNCHANGED table, NEW y
  PROVE  Ready(y)' <=> Ready(y)
<1>1. datasets' = datasets /\ rows' = rows
  BY DEF table
<1> QED  BY <1>1 DEF Ready, NewRowsFit, WithSchema, Inferred, NoSchema, Storable, Conforms, Encodable,
                     Mark, SlugLive, Live, Shape, RowAt, Merged

\* The job of a goroutine as it is after a step.
HopefulAfter(job) ==
    /\ job.end \notin Bad
    /\ job.pc = "validate" => job.at = 1
    /\ job.pc # "idle" =>
          /\ \A x \in Writes : Awaits(job, x) => Ready(x)'
          /\ \A i, j \in DOMAIN job.writes :
                i # j /\ job.writes[i].op = "create" /\ job.writes[j].op = "create"
                => job.writes[i].slug # job.writes[j].slug

LEMMA HopeLater ==
  ASSUME NEW w, NEW job, job = work'[w], HopefulAfter(job)
  PROVE  Hopeful(work[w])'
BY DEF HopefulAfter, Hopeful, Awaits

\* Hope does not suffer from steps that leave the tables alone.
LEMMA HopeStill ==
  ASSUME UNCHANGED table, NEW job, Hopeful(job), NEW new, new.end = job.end,
         new.pc # "idle" => /\ job.pc # "idle" /\ new.writes = job.writes /\ new.at = job.at,
         new.pc = "validate" => job.pc = "validate"
  PROVE  HopefulAfter(new)
BY ReadyStill DEF Hopeful, HopefulAfter, Awaits

LEMMA HandsKeepHope ==
  ASSUME DataInv, CleanInv, NEW w \in Workers, Hands(w), UNCHANGED table, work'[w].clean
  PROVE  HopefulAfter(work'[w])
<1>1. /\ work \in [Tasks -> Working] /\ w \in Tasks /\ work[w] \in Working
      /\ work[w].writes \in Seq(Writes) /\ Len(work[w].writes) \in Nat
      /\ work[w].at \in 1..(Len(work[w].writes) + 1)
  BY DEF DataInv, WorkTypes, Working, Tasks
<1>2. ASSUME NEW new, work' = [work EXCEPT ![w] = new]
      PROVE  work'[w] = new
  BY <1>1, <1>2
<1>3. CASE Begin(w) \/ RefuseBatch(w)
  <2>1. work'[w].end \in {"none", "refused"} /\ work'[w].at = 1 /\ work'[w].writes = <<>>
    <3>1. CASE Begin(w)
      BY <1>1, <1>2, <3>1 DEF Begin, NoWork
    <3>2. CASE RefuseBatch(w)
      BY <1>1, <1>2, <3>2 DEF RefuseBatch, NoWork
    <3> QED  BY <1>3, <3>1, <3>2
  <2>2. PICK new : new = work'[w]
    OBVIOUS
  <2>3. DOMAIN new.writes = {} /\ new.end \notin Bad /\ new.at = 1
    <3>1. new.writes = <<>> /\ new.at = 1 /\ new.end \in {"none", "refused"}
      BY <2>1, <2>2
    <3>2. DOMAIN <<>> = {}
      OBVIOUS
    <3>3. new.end \notin Bad
      BY <3>1 DEF Bad
    <3> QED  BY <3>1, <3>2, <3>3
  <2>4. HopefulAfter(new)
    BY <2>3 DEF HopefulAfter, Awaits
  <2> QED  BY <2>2, <2>4
<1>4. ASSUME work[w].clean
      PROVE  Hopeful(work[w])
  BY <1>4 DEF CleanInv
<1>5. CASE Validate(w)
  <2>1. PICK x \in Writes : Valid(w, x) /\ work' = [work EXCEPT ![w].writes = Append(@, x)]
    BY <1>5 DEF Validate
  <2>2. PICK old, all : old = work[w].writes /\ all = Append(old, x)
    OBVIOUS
  <2>3. PICK new : new = [work[w] EXCEPT !.writes = all]
    OBVIOUS
  <2>4. work' = [work EXCEPT ![w] = new]
    BY <2>1, <2>2, <2>3
  <2>5. /\ new.clean = work[w].clean /\ new.end = work[w].end /\ new.at = work[w].at
        /\ new.pc = "validate" /\ work[w].pc = "validate" /\ new.writes = all
    BY <1>1, <1>5, <2>3 DEF Validate, Working
  <2>6. Hopeful(work[w]) /\ work'[w] = new
    BY <1>1, <1>2, <1>4, <2>4, <2>5
  <2>7. /\ old \in Seq(Writes) /\ DOMAIN all = 1..(Len(old) + 1) /\ DOMAIN old = 1..Len(old)
        /\ \A i \in 1..Len(old) : all[i] = old[i]
        /\ all[Len(old) + 1] = x /\ Len(old) \in Nat
    BY <1>1, <2>2
  <2>8. \A i \in DOMAIN all : (i \in DOMAIN old /\ all[i] = old[i]) \/ (i = Len(old) + 1 /\ all[i] = x)
    BY <2>7
  <2>9. Ready(x) /\ (x.op = "create" => x.slug \notin Created(w))
    BY <2>1, ValidIsReady
  <2>10. x.op = "create" => \A i \in DOMAIN old : old[i].op = "create" => old[i].slug # x.slug
    BY <2>2, <2>9 DEF Created
  <2>11. \A y \in Writes : Awaits(new, y) => Ready(y)'
    <3>1. SUFFICES ASSUME NEW y \in Writes, Awaits(new, y) PROVE Ready(y)
      BY ReadyStill
    <3>2. PICK i \in DOMAIN all : (i >= new.at \/ y.op = "delete") /\ all[i] = y
      BY <2>5, <3>1 DEF Awaits
    <3>3. CASE all[i] = x
      BY <2>9, <3>2, <3>3
    <3>4. CASE i \in DOMAIN old /\ all[i] = old[i]
      <4>1. Awaits(work[w], y)
        BY <2>2, <2>5, <3>2, <3>4 DEF Awaits
      <4> QED  BY <2>5, <2>6, <4>1 DEF Hopeful
    <3> QED  BY <2>8, <3>3, <3>4
  <2>12. \A i, j \in DOMAIN all :
            i # j /\ all[i].op = "create" /\ all[j].op = "create" => all[i].slug # all[j].slug
    <3>1. \A i, j \in DOMAIN old :
             i # j /\ old[i].op = "create" /\ old[j].op = "create" => old[i].slug # old[j].slug
      BY <2>2, <2>5, <2>6 DEF Hopeful
    <3>2. TAKE i, j \in DOMAIN all
    <3>3. CASE i \in DOMAIN old /\ j \in DOMAIN old
      BY <2>7, <3>1, <3>3
    <3>4. CASE i \notin DOMAIN old \/ j \notin DOMAIN old
      BY <2>8, <2>10, <3>4
    <3> QED  BY <3>3, <3>4
  <2>13. new.end \notin Bad /\ new.at = 1
    BY <2>5, <2>6 DEF Hopeful
  <2>14. HopefulAfter(new)
    BY <2>5, <2>11, <2>12, <2>13 DEF HopefulAfter
  <2> QED  BY <2>6, <2>14
<1>6. CASE StartApply(w)
  <2>1. PICK new : new = [work[w] EXCEPT !.pc = "apply"]
    OBVIOUS
  <2>2. work' = [work EXCEPT ![w] = new] /\ work[w].pc = "validate"
    BY <1>6, <2>1 DEF StartApply
  <2>3. /\ new.clean = work[w].clean /\ new.end = work[w].end /\ new.at = work[w].at
        /\ new.pc = "apply" /\ new.writes = work[w].writes
    BY <1>1, <2>1 DEF Working
  <2>4. Hopeful(work[w]) /\ work'[w] = new
    BY <1>1, <1>2, <1>4, <2>2, <2>3
  <2> QED  BY <2>2, <2>3, <2>4, HopeStill
<1>7. CASE Cut(w)
  <2>1. PICK x : x = Current(w)
    OBVIOUS
  <2>2. PICK end : end = Reason(x)
    OBVIOUS
  <2>3. PICK new : new = [work[w] EXCEPT !.pc = "idle", !.end = end]
    OBVIOUS
  <2>4. work' = [work EXCEPT ![w] = new]
    BY <1>7, <2>1, <2>2, <2>3 DEF Cut
  <2>5. new.clean = work[w].clean /\ new.end = end /\ new.pc = "idle"
    BY <1>1, <2>3 DEF Working
  <2>6. Hopeful(work[w]) /\ work'[w] = new
    BY <1>1, <1>2, <1>4, <2>4, <2>5
  <2>7. /\ work[w].pc = "apply" /\ work[w].at <= Len(work[w].writes) /\ x \in Writes
        /\ Nameable(x) /\ ~CanApply(x)
    BY <1>1, <1>7, <2>1, ApplyDoes DEF Cut, DataInv
  <2>8. Awaits(work[w], x)
    <3>1. work[w].at \in DOMAIN work[w].writes /\ work[w].at >= work[w].at
      BY <1>1, <2>7
    <3> QED  BY <2>1, <3>1 DEF Awaits, Current
  <2>9. Ready(x)
    BY <2>6, <2>7, <2>8 DEF Hopeful
  <2>10. end \notin Bad
    BY <2>2, <2>7, <2>9, ReadyReason DEF Bad
  <2> QED  BY <2>5, <2>6, <2>10 DEF HopefulAfter
<1>8. CASE LookUp(w)
  <2>1. PICK i \in Deletions(w) : work' = [work EXCEPT ![w] = LookedUp(w, work[w].writes[i])]
    BY <1>8 DEF LookUp
  <2>2. PICK x, new : x = work[w].writes[i] /\ new = LookedUp(w, x)
    OBVIOUS
  <2>3. work' = [work EXCEPT ![w] = new] /\ x.op = "delete" /\ i \in DOMAIN work[w].writes
    BY <2>1, <2>2 DEF Deletions
  <2>4. x \in Writes /\ work[w].pc = "apply" /\ work'[w] = new
    BY <1>1, <1>2, <1>8, <2>2, <2>3 DEF LookUp
  <2>5. CASE RowAt(x.ds, x.id) # {}
    <3>1. PICK place : place = [ds |-> x.ds, id |-> x.id, birth |-> Got(x.ds, x.id).birth]
      OBVIOUS
    <3>2. new = [work[w] EXCEPT !.asked = Append(@, place)]
      BY <2>2, <2>5, <3>1 DEF LookedUp
    <3>3. /\ new.clean = work[w].clean /\ new.end = work[w].end /\ new.at = work[w].at
          /\ new.pc = work[w].pc /\ new.writes = work[w].writes
      BY <1>1, <3>2 DEF Working
    <3>4. Hopeful(work[w])
      BY <1>4, <2>4, <3>3
    <3> QED  BY <2>4, <3>3, <3>4, HopeStill
  <2>6. CASE RowAt(x.ds, x.id) = {}
    <3>1. new = [work[w] EXCEPT !.pc = "idle", !.end = "gone"]
      BY <2>2, <2>6 DEF LookedUp
    <3>2. new.clean = work[w].clean
      BY <1>1, <3>1 DEF Working
    <3>3. Hopeful(work[w])
      BY <1>4, <2>4, <3>2
    <3>4. Awaits(work[w], x)
      BY <2>2, <2>3 DEF Awaits
    <3>5. Ready(x)
      BY <2>4, <3>3, <3>4 DEF Hopeful
    <3> QED  BY <2>3, <2>6, <3>5 DEF Ready
  <2> QED  BY <2>5, <2>6
<1>9. CASE AskApproval(w)
  <2>1. PICK new : new = [work[w] EXCEPT !.pc = "idle", !.end = "done"]
    OBVIOUS
  <2>2. work' = [work EXCEPT ![w] = new]
    BY <1>9, <2>1 DEF AskApproval
  <2>3. new.pc = "idle" /\ new.end = "done"
    BY <1>1, <2>1 DEF Working
  <2> QED  BY <1>2, <2>2, <2>3 DEF HopefulAfter, Bad
<1> QED  BY <1>3, <1>5, <1>6, <1>7, <1>8, <1>9 DEF Hands

\* A write of the batch leaves the rest of the batch as it was promised.
LEMMA ApplyKeepsHope ==
  ASSUME DataInv, DataInv', CleanInv, NEW w \in Workers, Apply(w), work[w].clean
  PROVE  HopefulAfter(work'[w])
<1>1. /\ work \in [Tasks -> Working] /\ w \in Tasks /\ work[w] \in Working
      /\ work[w].writes \in Seq(Writes) /\ Len(work[w].writes) \in Nat /\ work[w].at \in Nat
      /\ work[w].at \in 1..(Len(work[w].writes) + 1) /\ WorkTypes
  BY DEF DataInv, WorkTypes, Working, Tasks
<1>2. work[w].pc = "apply" /\ work[w].at <= Len(work[w].writes)
  BY DEF Apply
<1>3. PICK x \in Writes : x = Current(w)
  BY <1>1, <1>2, ApplyDoes
<1>4. Nameable(x) /\ Room(Size(x)) /\ CanApply(x) /\ DoApply(x) /\ overtaken' = overtaken
  BY <1>3 DEF Apply
<1>5. Hopeful(work[w])
  BY DEF CleanInv
<1>6. PICK list, at : list = work[w].writes /\ at = work[w].at
  OBVIOUS
<1>7. /\ at \in DOMAIN list /\ list[at] = x /\ DOMAIN list = 1..Len(list)
      /\ \A i \in DOMAIN list : i \in Nat
  BY <1>1, <1>2, <1>3, <1>6 DEF Current
<1>8. Ready(x)
  <2>1. Awaits(work[w], x)
    BY <1>1, <1>6, <1>7 DEF Awaits
  <2> QED  BY <1>2, <1>5, <2>1 DEF Hopeful
<1>9. Kindly(x) /\ Grows
  BY <1>4, <1>8, ReadyIsKind, ApplyKeepsTables DEF DataInv
<1>10. PICK new : new = work'[w]
  OBVIOUS
<1>11. new.pc = "apply" /\ new.end = work[w].end /\ new.writes = list /\ new.at = at + 1
  <2>1. PICK mid : mid = Unclean(w)
    OBVIOUS
  <2>2. /\ mid \in [Tasks -> Working] /\ mid[w].pc = work[w].pc /\ mid[w].end = work[w].end
        /\ mid[w].writes = work[w].writes /\ mid[w].at = work[w].at
    BY <1>1, <2>1, UncleanWork
  <2>3. work' = [mid EXCEPT ![w].at = @ + 1]
    BY <2>1 DEF Apply
  <2>4. new = [mid[w] EXCEPT !.at = @ + 1]
    BY <1>1, <1>10, <2>2, <2>3
  <2>5. mid[w] \in Working
    BY <1>1, <2>2
  <2> QED  BY <1>2, <1>6, <2>2, <2>4, <2>5 DEF Working
<1>12. \A y \in Writes : Awaits(new, y) => Ready(y)'
  <2>1. SUFFICES ASSUME NEW y \in Writes, Awaits(new, y) PROVE Ready(y)'
    OBVIOUS
  <2>2. PICK i \in DOMAIN list : (i >= at + 1 \/ y.op = "delete") /\ list[i] = y
    BY <1>11, <2>1 DEF Awaits
  <2>3. Awaits(work[w], y)
    BY <1>1, <1>6, <1>7, <2>2 DEF Awaits
  <2>4. Ready(y)
    BY <1>2, <1>5, <2>3 DEF Hopeful
  <2>5. x.op = "create" /\ y.op = "create" => x.slug # y.slug
    <3>1. SUFFICES ASSUME x.op = "create", y.op = "create" PROVE x.slug # y.slug
      OBVIOUS
    <3>2. i # at
      BY <1>1, <1>6, <1>7, <2>2, <3>1
    <3> QED  BY <1>2, <1>5, <1>6, <1>7, <2>2, <3>1, <3>2 DEF Hopeful
  <2> QED  BY <1>9, <2>4, <2>5, ReadyStays
<1>13. \A i, j \in DOMAIN list :
          i # j /\ list[i].op = "create" /\ list[j].op = "create" => list[i].slug # list[j].slug
  BY <1>2, <1>5, <1>6 DEF Hopeful
<1>14. new.end \notin Bad
  BY <1>5, <1>11 DEF Hopeful
<1>15. HopefulAfter(new)
  BY <1>11, <1>12, <1>13, <1>14 DEF HopefulAfter
<1> QED  BY <1>10, <1>15

\* Another goroutine wrote: who was at work no longer counts, the others are as they were.
LEMMA OthersKeepHope ==
  ASSUME DataInv, CleanInv, NEW w \in Workers, NEW job, job.clean,
         NEW a, a # w, job = Unclean(a)[w]
  PROVE  HopefulAfter(job)
<1>1. /\ job.pc = work[w].pc /\ job.end = work[w].end
      /\ job.clean = IF w # a /\ work[w].pc # "idle" THEN FALSE ELSE work[w].clean
  BY UncleanWork DEF DataInv, Tasks
<1>2. job.pc = "idle" /\ work[w].clean
  BY <1>1
<1>3. job.end \notin Bad
  BY <1>1, <1>2 DEF CleanInv, Hopeful
<1> QED  BY <1>2, <1>3 DEF HopefulAfter

LEMMA CleanStep ==
  ASSUME DataInv, DataInv', CleanInv, [Next]_vars
  PROVE  CleanInv'
<1>1. SUFFICES ASSUME NEW w \in Workers, work'[w].clean
               PROVE  HopefulAfter(work'[w])
  <2>1. \A w \in Workers : work'[w].clean => Hopeful(work[w])'
    <3>1. SUFFICES ASSUME NEW w \in Workers, work'[w].clean PROVE Hopeful(work[w])'
      OBVIOUS
    <3>2. PICK job : job = work'[w]
      OBVIOUS
    <3>3. HopefulAfter(job)
      BY <1>1, <3>1, <3>2
    <3> QED  BY <3>2, <3>3, HopeLater
  <2> QED  BY <2>1 DEF CleanInv
<1>2. /\ work \in [Tasks -> Working] /\ w \in Tasks /\ w # Chat /\ w # NoDataset
      /\ WorkTypes /\ work[w] \in Working
  BY DatasetsAssumption DEF DataInv, WorkTypes, Tasks
<1>3. ASSUME work'[w] = work[w], UNCHANGED table
      PROVE  HopefulAfter(work'[w])
  <2>1. Hopeful(work[w])
    BY <1>1, <1>3 DEF CleanInv
  <2> QED  BY <1>3, <2>1, HopeStill
<1>4. CASE UNCHANGED vars
  BY <1>3, <1>4 DEF vars, table
<1>5. CASE work' = Unclean(NoDataset)
  BY <1>1, <1>2, <1>5, OthersKeepHope
<1>6. CASE UNCHANGED table /\ work' = work
  BY <1>3, <1>6
<1>7. CASE UNCHANGED table /\ ChatEffect
  <2>1. work'[w] = work[w]
    BY <1>2, <1>7 DEF ChatEffect
  <2> QED  BY <1>3, <1>7, <2>1
<1>8. CASE Crash
  <2>1. work'[w] = NoWork
    BY <1>2, <1>8 DEF Crash
  <2>2. NoWork.end \notin Bad /\ NoWork.pc = "idle"
    BY DEF NoWork, Bad
  <2> QED  BY <2>1, <2>2 DEF HopefulAfter
<1>9. ASSUME NEW a \in Tasks, Hands(a), UNCHANGED table
      PROVE  HopefulAfter(work'[w])
  <2>1. CASE a = w
    BY <1>1, <1>9, <2>1, HandsKeepHope
  <2>2. CASE a # w
    <3>1. work'[w] = work[w]
      BY <1>2, <1>9, <2>2 DEF Hands, Begin, Validate, RefuseBatch, StartApply, Cut, LookUp, AskApproval
    <3> QED  BY <1>3, <1>9, <3>1
  <2> QED  BY <2>1, <2>2
<1>10. ASSUME NEW a \in Tasks, Apply(a)
       PROVE  HopefulAfter(work'[w])
  <2>1. /\ Unclean(a) \in [Tasks -> Working] /\ Unclean(a)[w].clean = IF w # a /\ work[w].pc # "idle"
                                                                     THEN FALSE ELSE work[w].clean
    BY <1>2, UncleanWork
  <2>2. work' = [Unclean(a) EXCEPT ![a].at = @ + 1]
    BY <1>10 DEF Apply
  <2>3. CASE a # w
    <3>1. work'[w] = Unclean(a)[w]
      BY <1>2, <2>1, <2>2, <2>3
    <3> QED  BY <1>1, <2>3, <3>1, OthersKeepHope
  <2>4. CASE a = w
    <3>1. PICK mid : mid = Unclean(w)
      OBVIOUS
    <3>2. mid[w] \in Working /\ work'[w] = [mid[w] EXCEPT !.at = @ + 1] /\ mid[w].clean = work[w].clean
      BY <1>2, <2>1, <2>2, <2>4, <3>1
    <3>3. work'[w].clean = mid[w].clean
      BY <3>2 DEF Working
    <3> QED  BY <1>1, <1>10, <2>4, <3>2, <3>3, ApplyKeepsHope
  <2> QED  BY <2>3, <2>4
<1> QED  BY <1>4, <1>5, <1>6, <1>7, <1>8, <1>9, <1>10, Watched

LEMMA InitClean == Init => CleanInv
<1>1. NoWork.end \notin Bad /\ NoWork.pc = "idle"
  BY DEF NoWork, Bad
<1> QED  BY <1>1 DEF Init, CleanInv, Hopeful

\* A batch that the validation accepted (validateTaskDatasetWrites) is cut short only by
\* another writer in between, by the slug of a deleted dataset or by the unique key of an
\* updated row: for batches of any length and any writers beside it.
THEOREM CutsAreExplained == Spec => []CutIsExplained
<1>1. Init => CleanInv
  BY InitClean
<1>2. DataInv /\ DeletionInv /\ (DataInv /\ DeletionInv)' /\ CleanInv /\ [Next]_vars => CleanInv'
  BY CleanStep
<1>3. CleanInv => CutIsExplained
  BY DEF CleanInv, Hopeful, Bad, CutIsExplained
<1> QED  BY <1>1, <1>2, <1>3, DataIsInductive, PTL DEF Spec


-----------------------------------------------------------------------------
(* The export: places in the order of the identifiers, and pages. *)

LEMMA PlaceFacts ==
  ASSUME NEW ids \in SUBSET Nat, IsFiniteSet(ids)
  PROVE  /\ Cardinality(ids) \in Nat
         /\ \A i \in ids : Place(i, ids) \in 1..Cardinality(ids)
         /\ \A i, j \in ids : i < j => Place(i, ids) < Place(j, ids)
<1> DEFINE upto(i) == {j \in ids : j <= i}
<1>1. Cardinality(ids) \in Nat
  BY FS_CardinalityType
<1>2. \A i \in ids : /\ upto(i) \subseteq ids /\ IsFiniteSet(upto(i)) /\ Cardinality(upto(i)) \in Nat
                     /\ Cardinality(upto(i)) <= Cardinality(ids)
                     /\ Place(i, ids) = Cardinality(upto(i)) /\ i \in upto(i)
  <2>1. TAKE i \in ids
  <2>2. upto(i) \subseteq ids /\ i \in upto(i)
    OBVIOUS
  <2> HIDE DEF upto
  <2>3. IsFiniteSet(upto(i)) /\ Cardinality(upto(i)) <= Cardinality(ids)
    BY <2>2, FS_Subset
  <2> QED  BY <2>2, <2>3, FS_CardinalityType DEF Place, upto
<1>3. ASSUME NEW i \in ids PROVE Place(i, ids) \in 1..Cardinality(ids)
  <2>1. Cardinality(upto(i)) # 0
    BY <1>2, FS_EmptySet
  <2> HIDE DEF upto
  <2> QED  BY <1>1, <1>2, <2>1
<1>4. ASSUME NEW i \in ids, NEW j \in ids, i < j PROVE Place(i, ids) < Place(j, ids)
  <2>1. upto(i) \subseteq upto(j) /\ j \notin upto(i) /\ j \in upto(j)
    <3>1. i \in Nat /\ j \in Nat /\ \A k \in ids : k \in Nat
      OBVIOUS
    <3>2. \A k \in ids : k <= i => k <= j
      BY <1>4, <3>1
    <3>3. j <= j /\ ~(j <= i)
      BY <1>4, <3>1
    <3> QED  BY <3>2, <3>3
  <2> HIDE DEF upto
  <2>2. Cardinality(upto(i)) <= Cardinality(upto(j)) /\ Cardinality(upto(i)) # Cardinality(upto(j))
    BY <2>1, <1>2, FS_Subset
  <2> QED  BY <1>2, <2>2
<1> QED  BY <1>1, <1>3, <1>4

\* Every place up to the number of identifiers is taken.
LEMMA EveryPlace ==
  ASSUME NEW ids \in SUBSET Nat, IsFiniteSet(ids)
  PROVE  \A k \in 1..Cardinality(ids) : \E i \in ids : Place(i, ids) = k
<1> DEFINE N == Cardinality(ids)
           f == [i \in ids |-> Place(i, ids)]
<1>1. N \in Nat /\ (\A i \in ids : f[i] \in 1..N) /\ \A i, j \in ids : i < j => f[i] < f[j]
  BY PlaceFacts
<1>2. f \in [ids -> 1..N]
  BY <1>1
<1>3. f \in Injection(ids, 1..N)
  <2>1. \A i, j \in ids : f[i] = f[j] => i = j
    <3>1. SUFFICES ASSUME NEW i \in ids, NEW j \in ids, f[i] = f[j] PROVE i = j
      OBVIOUS
    <3>2. ~(i < j) /\ ~(j < i) /\ i \in Nat /\ j \in Nat
      <4> HIDE DEF f
      <4>1. f[i] \in 1..N /\ f[j] \in 1..N
        BY <1>1
      <4>2. f[i] \in Nat
        BY <4>1
      <4> QED  BY <1>1, <3>1, <4>2
    <3> QED  BY <3>2
  <2> HIDE DEF f
  <2> QED  BY <1>2, <2>1 DEF Injection, IsInjective
<1>4. IsFiniteSet(1..N) /\ Cardinality(1..N) = N
  BY <1>1, FS_Interval
<1>5. f \in Surjection(ids, 1..N)
  <2> HIDE DEF f
  <2> QED  BY <1>3, <1>4, FS_Injection
<1>6. \A k \in 1..N : \E i \in ids : f[i] = k
  <2> HIDE DEF f
  <2> QED  BY <1>5 DEF Surjection
<1> QED  BY <1>6

\* A row that comes in has a place behind all the others.
LEMMA PlacesGrow ==
  ASSUME NEW n \in Nat, NEW ids \in SUBSET (1..n), NEW more \in SUBSET Nat, IsFiniteSet(more),
         ids \subseteq more, \A j \in more : j \in ids \/ j > n
  PROVE  /\ \A i \in ids : Place(i, more) = Place(i, ids)
         /\ \A i \in more : i \in ids \/ Place(i, more) > Cardinality(ids)
         /\ Cardinality(ids) <= Cardinality(more)
<1>1. IsFiniteSet(ids) /\ Cardinality(ids) <= Cardinality(more) /\ Cardinality(ids) \in Nat
  BY FS_Subset, FS_CardinalityType
<1>2. ASSUME NEW i \in ids PROVE Place(i, more) = Place(i, ids)
  <2>1. {j \in more : j <= i} = {j \in ids : j <= i}
    <3>1. i \in 1..n /\ \A j \in more : j \in Nat
      BY <1>2
    <3>2. \A j \in more : j <= i => j \in ids
      BY <3>1
    <3> QED  BY <3>2
  <2> QED  BY <2>1 DEF Place
<1>3. ASSUME NEW i \in more, i \notin ids PROVE Place(i, more) > Cardinality(ids)
  <2>1. PICK upto : upto = {j \in more : j <= i}
    OBVIOUS
  <2>2. ids \subseteq upto /\ i \in upto /\ upto \subseteq more
    BY <1>3, <2>1
  <2>3. IsFiniteSet(upto) /\ Cardinality(upto) \in Nat
    BY <2>2, FS_Subset, FS_CardinalityType
  <2>4. Cardinality(ids) <= Cardinality(upto) /\ Cardinality(ids) # Cardinality(upto)
    BY <1>3, <2>2, <2>3, FS_Subset
  <2> QED  BY <1>1, <2>1, <2>3, <2>4 DEF Place
<1> QED  BY <1>1, <1>2, <1>3

LEMMA PlacesSink ==
  ASSUME NEW ids \in SUBSET Nat, IsFiniteSet(ids), NEW less \in SUBSET ids
  PROVE  \A i \in less : Place(i, less) <= Place(i, ids)
<1>1. TAKE i \in less
<1>2. {j \in less : j <= i} \subseteq {j \in ids : j <= i} /\ {j \in ids : j <= i} \subseteq ids
  OBVIOUS
<1>3. IsFiniteSet({j \in ids : j <= i})
  BY <1>2, FS_Subset
<1> QED  BY <1>2, <1>3, FS_Subset DEF Place

Exporting == [pc : {"idle", "page", "broken", "complete"}, ds : Datasets \cup {NoDataset},
              offset : Nat, out : Seq(Nat), first : SUBSET Nat, shrunk : BOOLEAN]

\* What was written so far, seen from the identifiers that the dataset has now.
Listed(ids, x, n) ==
    /\ \A k \in DOMAIN x.out : x.out[k] \in 1..n
    /\ \A i, j \in DOMAIN x.out : i < j => x.out[i] < x.out[j]
    /\ x.pc = "page" =>
          /\ \A i \in ids : Place(i, ids) > x.offset => \A k \in DOMAIN x.out : x.out[k] < i
          /\ ~x.shrunk => /\ x.first \subseteq ids /\ x.offset <= Cardinality(ids)
                          /\ \A i \in ids : Place(i, ids) <= x.offset =>
                                \E k \in DOMAIN x.out : x.out[k] = i
    /\ x.pc = "complete" /\ ~x.shrunk =>
          \A i \in x.first : \E k \in DOMAIN x.out : x.out[k] = i
ExportInv ==
    /\ export \in Exporting
    /\ export.pc = "page" => export.ds \in Datasets
    /\ Listed(Ids(export.ds, rows), export, births)

LEMMA ListedGrows ==
  ASSUME NEW n \in Nat, NEW m \in Nat, n <= m, NEW ids \in SUBSET (1..n), NEW more \in SUBSET Nat,
         IsFiniteSet(more), ids \subseteq more, \A j \in more : j \in ids \/ j > n,
         NEW x \in Exporting, Listed(ids, x, n)
  PROVE  Listed(more, x, m)
<1>1. /\ \A i \in ids : Place(i, more) = Place(i, ids)
      /\ \A i \in more : i \in ids \/ Place(i, more) > Cardinality(ids)
      /\ Cardinality(ids) <= Cardinality(more)
  BY PlacesGrow
<1>2. Cardinality(ids) \in Nat /\ Cardinality(more) \in Nat
  <2>1. IsFiniteSet(ids)
    BY FS_Subset
  <2> QED  BY <2>1, FS_CardinalityType
<1>3. \A i \in more : Place(i, more) \in Nat
  BY PlaceFacts
<1>4. x.offset \in Nat /\ \A k \in DOMAIN x.out : x.out[k] \in 1..n
  BY DEF Exporting, Listed
<1>5. \A k \in DOMAIN x.out : x.out[k] \in 1..m
  BY <1>4
<1>6. x.pc = "page" =>
         /\ \A i \in more : Place(i, more) > x.offset => \A k \in DOMAIN x.out : x.out[k] < i
         /\ ~x.shrunk => /\ x.first \subseteq more /\ x.offset <= Cardinality(more)
                         /\ \A i \in more : Place(i, more) <= x.offset =>
                               \E k \in DOMAIN x.out : x.out[k] = i
  <2>1. SUFFICES ASSUME x.pc = "page"
                 PROVE  /\ \A i \in more : Place(i, more) > x.offset => \A k \in DOMAIN x.out : x.out[k] < i
                        /\ ~x.shrunk => /\ x.first \subseteq more /\ x.offset <= Cardinality(more)
                                        /\ \A i \in more : Place(i, more) <= x.offset =>
                                              \E k \in DOMAIN x.out : x.out[k] = i
    OBVIOUS
  <2>2. ASSUME NEW i \in more, Place(i, more) > x.offset, NEW k \in DOMAIN x.out PROVE x.out[k] < i
    <3>1. CASE i \in ids
      BY <1>1, <2>1, <2>2, <3>1 DEF Listed
    <3>2. CASE i \notin ids
      BY <1>4, <3>2
    <3> QED  BY <3>1, <3>2
  <2>3. ASSUME ~x.shrunk
        PROVE  x.first \subseteq more /\ x.offset <= Cardinality(more) /\ x.offset <= Cardinality(ids)
    <3>1. x.first \subseteq ids /\ x.offset <= Cardinality(ids)
      BY <2>1, <2>3 DEF Listed
    <3>2. x.first \subseteq more
      BY <3>1
    <3>3. PICK a \in Nat, b \in Nat : a = Cardinality(ids) /\ b = Cardinality(more)
      BY <1>2
    <3>4. x.offset <= b
      BY <1>1, <1>4, <3>1, <3>3
    <3> QED  BY <3>1, <3>2, <3>3, <3>4
  <2>4. ASSUME ~x.shrunk, NEW i \in more, Place(i, more) <= x.offset
        PROVE  \E k \in DOMAIN x.out : x.out[k] = i
    <3>1. i \in ids
      BY <1>1, <1>2, <1>3, <1>4, <2>3, <2>4
    <3> QED  BY <1>1, <2>1, <2>4, <3>1 DEF Listed
  <2> QED  BY <2>2, <2>3, <2>4
<1> QED  BY <1>5, <1>6 DEF Listed

LEMMA ListedSinks ==
  ASSUME NEW n \in Nat, NEW ids \in SUBSET (1..n), NEW less \in SUBSET ids,
         NEW x \in Exporting, Listed(ids, x, n), NEW y, y = [x EXCEPT !.shrunk = TRUE]
  PROVE  y \in Exporting /\ Listed(less, y, n) /\ y.pc = x.pc /\ y.ds = x.ds
<1>1. /\ y \in Exporting /\ y.pc = x.pc /\ y.offset = x.offset /\ y.out = x.out /\ y.first = x.first
      /\ y.shrunk /\ y.ds = x.ds
  BY DEF Exporting
<1>2. IsFiniteSet(ids)
  BY FS_Subset, FS_Interval
<1>3. \A i \in less : Place(i, less) <= Place(i, ids)
  BY <1>2, PlacesSink
<1>4. \A i \in less : Place(i, ids) \in Nat /\ Place(i, less) \in Nat
  <2>1. IsFiniteSet(less)
    BY <1>2, FS_Subset
  <2>2. less \in SUBSET Nat /\ ids \in SUBSET Nat
    OBVIOUS
  <2>3. (\A i \in ids : Place(i, ids) \in 1..Cardinality(ids))
        /\ \A i \in less : Place(i, less) \in 1..Cardinality(less)
    BY <1>2, <2>1, <2>2, PlaceFacts
  <2> QED  BY <2>3
<1>5. x.offset \in Nat
  BY DEF Exporting
<1>6. x.pc = "page" =>
         \A i \in less : Place(i, less) > x.offset => \A k \in DOMAIN x.out : x.out[k] < i
  BY <1>3, <1>4, <1>5 DEF Listed
<1> QED  BY <1>1, <1>6 DEF Listed

\* One page more: the identifiers from one place to another, in order.
LEMMA PageOfPlaces ==
  ASSUME NEW n \in Nat, NEW ids \in SUBSET (1..n), NEW N \in Nat, N = Cardinality(ids),
         NEW s \in [1..N -> ids], \A k \in 1..N : Place(s[k], ids) = k,
         NEW x \in Exporting, Listed(ids, x, n), x.pc = "page",
         NEW to, to = Smaller(x.offset + PageSize, N),
         NEW y \in Exporting, y.out = x.out \o SubSeq(s, x.offset + 1, to),
         y.first = x.first, y.shrunk = x.shrunk,
         \/ N > x.offset + PageSize /\ y.pc = "page" /\ y.offset = x.offset + PageSize
         \/ N <= x.offset + PageSize /\ y.pc = "complete"
  PROVE  Listed(ids, y, n)
<1>1. /\ x.offset \in Nat /\ x.out \in Seq(Nat) /\ PageSize \in Nat \ {0}
  BY DatasetsAssumption DEF Exporting
<1>2. PICK o \in Nat, size \in Nat, old \in Seq(Nat) : o = x.offset /\ size = PageSize /\ old = x.out
  BY <1>1
<1>3. to \in Nat /\ to <= N /\ to <= o + size /\ (to = N \/ to = o + size)
  BY <1>2 DEF Smaller
<1>4. IsFiniteSet(ids) /\ ids \in SUBSET Nat
  <2>1. IsFiniteSet(1..n)
    BY FS_Interval
  <2>2. IsFiniteSet(ids)
    BY <2>1, FS_Subset
  <2>3. ids \in SUBSET Nat
    OBVIOUS
  <2> QED  BY <2>2, <2>3
<1>5. /\ \A i \in ids : Place(i, ids) \in 1..N
      /\ \A i, j \in ids : i < j => Place(i, ids) < Place(j, ids)
  BY <1>4, PlaceFacts
<1>6. \A i, j \in ids : Place(i, ids) < Place(j, ids) => i < j
  <2>1. SUFFICES ASSUME NEW i \in ids, NEW j \in ids, Place(i, ids) < Place(j, ids) PROVE i < j
    OBVIOUS
  <2>2. i \in Nat /\ j \in Nat /\ Place(i, ids) \in Nat /\ Place(j, ids) \in Nat
    BY <1>4, <1>5
  <2>3. i # j /\ ~(j < i)
    BY <1>5, <2>1, <2>2
  <2> QED  BY <2>2, <2>3
<1>7. \A i, j \in ids : Place(i, ids) = Place(j, ids) => i = j
  <2>1. SUFFICES ASSUME NEW i \in ids, NEW j \in ids, Place(i, ids) = Place(j, ids) PROVE i = j
    OBVIOUS
  <2>2. i \in Nat /\ j \in Nat /\ Place(i, ids) \in Nat
    BY <1>4, <1>5
  <2>3. ~(i < j) /\ ~(j < i)
    BY <1>5, <2>1, <2>2
  <2> QED  BY <2>2, <2>3
<1>8. PICK page, len : /\ page = SubSeq(s, o + 1, to)
                       /\ len = IF o + 1 <= to THEN to - (o + 1) + 1 ELSE 0
  OBVIOUS
<1>9. /\ page \in Seq(Nat) /\ Len(page) = len /\ len \in Nat
      /\ \A k \in 1..len : o + k \in 1..to /\ page[k] = s[o + k]
  <2>1. o + 1 \in Int /\ to \in Int
    BY <1>3
  <2>2. \A i \in (o + 1)..to : s[i] \in Nat
    <3>1. \A i \in (o + 1)..to : i \in 1..N
      BY <1>3
    <3> QED  BY <3>1, <1>4
  <2>3. /\ page \in Seq(Nat) /\ Len(page) = len
        /\ \A i \in 1..(to - (o + 1) + 1) : page[i] = s[(o + 1) + i - 1]
    BY <1>8, <2>1, <2>2, SubSeqProperties
  <2>4. len \in Nat
    BY <1>3, <1>8
  <2>5. ASSUME NEW k \in 1..len PROVE o + k \in 1..to /\ page[k] = s[o + k]
    <3>1. k \in 1..(to - (o + 1) + 1) /\ o + k \in 1..to /\ (o + 1) + k - 1 = o + k
      BY <1>3, <1>8
    <3> QED  BY <2>3, <3>1
  <2> QED  BY <2>3, <2>4, <2>5
<1>10. PICK out \in Seq(Nat) : out = old \o page /\ out = y.out
  BY <1>2, <1>8, <1>9, ConcatProperties
<1>11. PICK a \in Nat : a = Len(old)
  OBVIOUS
<1>12. /\ Len(out) = a + len /\ DOMAIN out = 1..(a + len) /\ DOMAIN old = 1..a
       /\ \A k \in 1..a : out[k] = old[k]
       /\ \A k \in 1..len : out[a + k] = page[k]
  <2>1. /\ Len(out) = a + len
        /\ \A i \in 1..(a + len) : out[i] = IF i <= a THEN old[i] ELSE page[i - a]
    <3>1. /\ Len(old \o page) = Len(old) + Len(page)
          /\ \A i \in 1..(Len(old) + Len(page)) :
                (old \o page)[i] = IF i <= Len(old) THEN old[i] ELSE page[i - Len(old)]
      <4>1. page \in Seq(Nat) /\ old \in Seq(Nat)
        BY <1>9
      <4> QED  BY <4>1
    <3> QED  BY <3>1, <1>9, <1>10, <1>11
  <2>2. ASSUME NEW k \in 1..a PROVE out[k] = old[k]
    <3>1. k \in 1..(a + len) /\ k <= a
      BY <1>9
    <3> QED  BY <2>1, <3>1
  <2>3. ASSUME NEW k \in 1..len PROVE out[a + k] = page[k]
    <3>1. a + k \in 1..(a + len) /\ ~(a + k <= a) /\ (a + k) - a = k
      BY <1>9
    <3> QED  BY <2>1, <3>1
  <2>4. DOMAIN out = 1..Len(out) /\ DOMAIN old = 1..Len(old)
    OBVIOUS
  <2> QED  BY <2>1, <2>2, <2>3, <2>4, <1>11
<1>13. \A k \in DOMAIN out : k \in 1..a \/ \E j \in 1..len : k = a + j
  <2>1. SUFFICES ASSUME NEW k \in 1..(a + len), k \notin 1..a PROVE \E j \in 1..len : k = a + j
    BY <1>12
  <2>2. k - a \in 1..len /\ k = a + (k - a)
    BY <1>9, <2>1
  <2> QED  BY <2>2
<1>14. \A k \in 1..len : /\ page[k] \in ids /\ Place(page[k], ids) = o + k
                         /\ o + k \in 1..N /\ page[k] \in 1..n
  <2>1. TAKE k \in 1..len
  <2>2. o + k \in 1..N /\ page[k] = s[o + k]
    BY <1>3, <1>9
  <2> QED  BY <2>2
<1>15. /\ \A k \in 1..a : old[k] \in 1..n
       /\ \A i, j \in 1..a : i < j => old[i] < old[j]
       /\ \A i \in ids : Place(i, ids) > o => \A k \in 1..a : old[k] < i
       /\ ~x.shrunk => /\ x.first \subseteq ids
                       /\ \A i \in ids : Place(i, ids) <= o => \E k \in 1..a : old[k] = i
  BY <1>2, <1>12 DEF Listed
<1>16. \A k \in DOMAIN out : out[k] \in 1..n
  <2>1. TAKE k \in DOMAIN out
  <2>2. CASE k \in 1..a
    BY <2>2, <1>12, <1>15
  <2>3. ASSUME NEW j \in 1..len, k = a + j PROVE out[k] \in 1..n
    BY <2>3, <1>12, <1>14
  <2> QED  BY <2>2, <2>3, <1>13
<1>17. \A i, j \in DOMAIN out : i < j => out[i] < out[j]
  <2>1. SUFFICES ASSUME NEW i \in DOMAIN out, NEW j \in DOMAIN out, i < j PROVE out[i] < out[j]
    OBVIOUS
  <2>2. CASE i \in 1..a /\ j \in 1..a
    BY <1>12, <1>15, <2>1, <2>2
  <2>3. ASSUME i \in 1..a, NEW l \in 1..len, j = a + l
        PROVE  out[i] < out[j]
    <3>1. Place(page[l], ids) > o
      BY <1>14
    <3> QED  BY <1>12, <1>14, <1>15, <2>3, <3>1
  <2>4. ASSUME NEW k \in 1..len, NEW l \in 1..len, i = a + k, j = a + l
        PROVE  out[i] < out[j]
    <3>1. k < l
      BY <2>1, <2>4, <1>9
    <3>2. Place(page[k], ids) < Place(page[l], ids)
      BY <1>9, <1>14, <3>1
    <3>3. page[k] < page[l]
      BY <1>6, <1>14, <3>2
    <3> QED  BY <1>12, <2>4, <3>3
  <2>5. ASSUME NEW k \in 1..len, i = a + k, j \in 1..a
        PROVE  FALSE
    BY <2>1, <2>5, <1>9
  <2> QED  BY <2>2, <2>3, <2>4, <2>5, <1>13
<1>18. ASSUME ~x.shrunk, NEW i \in ids, Place(i, ids) <= to
       PROVE  \E k \in DOMAIN out : out[k] = i
  <2>0. Place(i, ids) \in Nat /\ Place(i, ids) \in 1..N
    BY <1>5
  <2>1. CASE Place(i, ids) <= o
    <3>1. PICK k \in 1..a : old[k] = i
      BY <1>15, <1>18, <2>1
    <3>2. k \in DOMAIN out
      BY <1>9, <1>12
    <3> QED  BY <1>12, <3>1, <3>2
  <2>2. CASE ~(Place(i, ids) <= o)
    <3>0. PICK at \in Nat : at = Place(i, ids)
      BY <2>0
    <3>1. PICK k : k = at - o
      OBVIOUS
    <3>2. k \in 1..len /\ o + k = Place(i, ids)
      <4>1. ~(at <= o) /\ at <= to
        BY <1>18, <2>2, <3>0
      <4>2. o + 1 <= to /\ len = to - (o + 1) + 1
        BY <4>1, <1>3, <1>8
      <4>3. k \in 1..len /\ o + k = at
        BY <4>1, <4>2, <1>3, <3>1
      <4> QED  BY <3>0, <4>3
    <3>3. page[k] = i
      BY <1>7, <1>14, <3>2
    <3>4. a + k \in DOMAIN out /\ out[a + k] = page[k]
      BY <1>12, <1>9, <3>2
    <3> QED  BY <3>3, <3>4
  <2> QED  BY <2>1, <2>2
<1>19. CASE N > o + size /\ y.pc = "page" /\ y.offset = o + size
  <2>1. to = o + size
    BY <1>2, <1>19 DEF Smaller
  <2>2. ASSUME NEW i \in ids, Place(i, ids) > o + size, NEW k \in DOMAIN out
        PROVE  out[k] < i
    <3>0. Place(i, ids) \in Nat
      BY <1>5
    <3>1. CASE k \in 1..a
      <4>1. Place(i, ids) > o
        BY <2>2, <3>0
      <4> QED  BY <1>12, <1>15, <3>1, <4>1
    <3>2. ASSUME NEW l \in 1..len, k = a + l PROVE out[k] < i
      <4>1. Place(page[l], ids) < Place(i, ids)
        <5>1. o + l \in 1..to
          BY <1>9
        <5> QED  BY <1>14, <2>1, <2>2, <3>0, <5>1
      <4>2. page[l] < i
        BY <1>6, <1>14, <4>1
      <4> QED  BY <1>12, <3>2, <4>2
    <3> QED  BY <1>13, <3>1, <3>2
  <2>3. ~x.shrunk => /\ x.first \subseteq ids /\ o + size <= Cardinality(ids)
                     /\ \A i \in ids : Place(i, ids) <= o + size => \E k \in DOMAIN out : out[k] = i
    BY <1>15, <1>18, <1>19, <2>1
  <2> QED  BY <1>10, <1>16, <1>17, <1>19, <2>2, <2>3 DEF Listed
<1>20. CASE N <= o + size /\ y.pc = "complete"
  <2>1. to = N
    BY <1>2, <1>20 DEF Smaller
  <2>2. ASSUME ~x.shrunk, NEW i \in x.first
        PROVE  \E k \in DOMAIN out : out[k] = i
    <3>1. i \in ids /\ Place(i, ids) <= to
      <4>1. i \in ids
        BY <1>15, <2>2
      <4>2. Place(i, ids) \in 1..N
        BY <1>5, <4>1
      <4> QED  BY <2>1, <4>1, <4>2
    <3> QED  BY <1>18, <2>2, <3>1
  <2> QED  BY <1>10, <1>16, <1>17, <1>20, <2>2 DEF Listed
<1> QED  BY <1>2, <1>19, <1>20

LEMMA NothingIsListed ==
  ASSUME NEW ids, NEW n
  PROVE  NoExport \in Exporting /\ NoExport.pc = "idle" /\ Listed(ids, NoExport, n)
<1>1. <<>> \in Seq(Nat) /\ DOMAIN <<>> = {}
  OBVIOUS
<1> QED  BY <1>1 DEF NoExport, Exporting, Listed

LEMMA StartIsListed ==
  ASSUME TableTypes, NEW d \in Datasets, NEW x,
         x = [NoExport EXCEPT !.pc = "page", !.ds = d, !.first = Ids(d, rows)]
  PROVE  x \in Exporting /\ x.ds = d /\ Listed(Ids(d, rows), x, births)
<1>1. PICK ids : ids = Ids(d, rows)
  OBVIOUS
<1>2. births \in Nat /\ ids \in SUBSET (1..births) /\ IsFiniteSet(ids)
  BY <1>1, NumbersAreFinite DEF TableTypes
<1>3. ids \in SUBSET Nat
  BY <1>2
<1>4. /\ x.pc = "page" /\ x.ds = d /\ x.first = ids /\ x.offset = 0 /\ x.out = <<>> /\ x \in Exporting
  BY <1>1, <1>3, NothingIsListed DEF NoExport, Exporting
<1>5. DOMAIN x.out = {}
  BY <1>4
<1>6. \A i \in ids : ~(Place(i, ids) <= 0)
  BY <1>2, <1>3, PlaceFacts
<1>7. x.offset <= Cardinality(ids)
  <2>1. Cardinality(ids) \in Nat
    BY <1>2, FS_CardinalityType
  <2> QED  BY <1>4, <2>1
<1> QED  BY <1>1, <1>4, <1>5, <1>6, <1>7 DEF Listed

LEMMA PageIsListed ==
  ASSUME TableTypes, ExportInv, Page
  PROVE  /\ export' \in Exporting /\ export'.ds = export.ds
         /\ Listed(Ids(export.ds, rows), export', births)
<1>1. export.pc = "page" /\ export.ds \in Datasets /\ export \in Exporting
  BY DEF Page, ExportInv
<1>0. PICK x, d, ids : x = export /\ d = export.ds /\ ids = Ids(d, rows)
  OBVIOUS
<1>2. x \in Exporting /\ d \in Datasets /\ x = export /\ d = export.ds /\ ids = Ids(d, rows)
  BY <1>0, <1>1
<1>3. births \in Nat /\ ids \in SUBSET (1..births) /\ IsFiniteSet(ids)
  BY <1>2, NumbersAreFinite DEF TableTypes
<1>4. PICK N \in Nat : N = Cardinality(ids)
  BY <1>3, FS_CardinalityType
<1>5. ids \in SUBSET Nat
  BY <1>3
<1>6. PICK s : s = Sorted(d)
  OBVIOUS
<1>7. s \in [1..N -> ids] /\ \A k \in 1..N : Place(s[k], ids) = k
  <2>1. s = [k \in 1..N |-> CHOOSE i \in ids : Place(i, ids) = k]
    BY <1>2, <1>4, <1>6 DEF Sorted
  <2>2. \A k \in 1..N : \E i \in ids : Place(i, ids) = k
    BY <1>3, <1>4, <1>5, EveryPlace
  <2>3. \A k \in 1..N : s[k] \in ids /\ Place(s[k], ids) = k
    BY <2>1, <2>2
  <2> QED  BY <2>1, <2>3
<1>8. Len(s) = N /\ s \in Seq(Nat)
  <2>1. s \in [1..N -> Nat]
    BY <1>5, <1>7
  <2> QED  BY <2>1
<1>9. PICK to : to = Smaller(x.offset + PageSize, N)
  OBVIOUS
<1>10. Listed(ids, x, births)
  BY <1>2 DEF ExportInv
<1>11. x.offset \in Nat /\ x.out \in Seq(Nat) /\ PageSize \in Nat /\ x.pc = "page"
  BY <1>1, <1>2, DatasetsAssumption DEF Exporting
<1>12. x \in Exporting /\ d \in Datasets
  BY <1>2
<1>13. CASE ~Live(d)
  <2>1. PICK y : y = [x EXCEPT !.pc = "broken"]
    OBVIOUS
  <2>2. export' = y
    BY <1>2, <1>13, <2>1 DEF Page
  <2>3. y \in Exporting /\ y.pc = "broken" /\ y.out = x.out /\ y.ds = x.ds
    BY <1>12, <2>1 DEF Exporting
  <2>4. Listed(ids, y, births)
    BY <1>10, <2>3 DEF Listed
  <2> QED  BY <1>2, <2>2, <2>3, <2>4
<1>14. CASE Live(d)
  <2>1. PICK out : out = x.out \o SubSeq(s, x.offset + 1, to)
    OBVIOUS
  <2>2. PICK pc : pc = IF N > x.offset + PageSize THEN "page" ELSE "complete"
    OBVIOUS
  <2>3. PICK offset : offset = IF N > x.offset + PageSize THEN x.offset + PageSize ELSE x.offset
    OBVIOUS
  <2>4. PICK y : y = [x EXCEPT !.out = out, !.pc = pc, !.offset = offset]
    OBVIOUS
  <2>5. export' = y
    BY <1>2, <1>6, <1>8, <1>9, <1>14, <2>1, <2>2, <2>3, <2>4 DEF Page, NextOffset
  <2>6. out \in Seq(Nat)
    <3>1. to \in Nat /\ to <= N
      BY <1>9, <1>11 DEF Smaller
    <3>2. \A i \in (x.offset + 1)..to : s[i] \in Nat
      <4>1. \A i \in (x.offset + 1)..to : i \in 1..N
        BY <3>1, <1>11
      <4> QED  BY <4>1, <1>5, <1>7
    <3>3. SubSeq(s, x.offset + 1, to) \in Seq(Nat)
      BY <3>1, <3>2, <1>11, SubSeqProperties
    <3> QED  BY <2>1, <3>3, <1>11, ConcatProperties
  <2>7. pc \in {"page", "complete"} /\ offset \in Nat
    BY <2>2, <2>3, <1>11
  <2>8. /\ y \in Exporting /\ y.out = out /\ y.pc = pc /\ y.offset = offset /\ y.first = x.first
        /\ y.shrunk = x.shrunk /\ y.ds = x.ds
    BY <1>12, <2>4, <2>6, <2>7 DEF Exporting
  <2>9. \/ N > x.offset + PageSize /\ y.pc = "page" /\ y.offset = x.offset + PageSize
        \/ N <= x.offset + PageSize /\ y.pc = "complete"
    BY <1>11, <2>2, <2>3, <2>8
  <2>10. Listed(ids, y, births)
    BY <1>12, <1>3, <1>4, <1>7, <1>9, <1>10, <1>11, <2>1, <2>8, <2>9, PageOfPlaces
  <2> QED  BY <1>2, <2>5, <2>8, <2>10
<1> QED  BY <1>13, <1>14

\* What a step that leaves the tables alone does to the export.
LEMMA Exportings ==
  ASSUME Quiet
  PROVE  \/ \E d \in Datasets : StartExport(d)
         \/ Page \/ CloseExport \/ Crash
         \/ export' = export
BY DEF Quiet, Begin, Validate, RefuseBatch, StartApply, Cut, LookUp, AskApproval, ChatEffect,
       LoadEdit, CheckEdit, Resolve, Look, Respond

LEMMA ExportStep ==
  ASSUME DataInv, DataInv', DeletionInv, ExportInv, [Next]_vars
  PROVE  ExportInv'
<1>1. /\ TableTypes /\ births \in Nat /\ RowsAre(rows, births)
      /\ births' \in Nat /\ RowsAre(rows', births')
  BY DEF DataInv, TableInv, TableTypes
<1>2. ASSUME NEW y \in Exporting, export' = y, y.pc = "page" => y.ds \in Datasets,
             NEW ids, ids = Ids(y.ds, rows'), NEW n, n = births', Listed(ids, y, n)
      PROVE  ExportInv'
  <2>1. Ids(export.ds, rows)' = ids
    BY <1>2 DEF Ids, RowsOf
  <2>2. Listed(Ids(export.ds, rows), export, births)'
    BY <1>2, <2>1 DEF Listed, Place
  <2> QED  BY <1>2, <2>2 DEF ExportInv
<1>3. ASSUME UNCHANGED table, NEW y \in Exporting, export' = y,
             y.pc = "page" => y.ds \in Datasets, Listed(Ids(y.ds, rows), y, births)
      PROVE  ExportInv'
  <2>1. Ids(y.ds, rows') = Ids(y.ds, rows) /\ births' = births
    BY <1>3 DEF table
  <2> QED  BY <1>2, <1>3, <2>1
<1>4. /\ export \in Exporting /\ (export.pc = "page" => export.ds \in Datasets)
      /\ Listed(Ids(export.ds, rows), export, births)
  BY DEF ExportInv
<1>5. CASE UNCHANGED table /\ export' = export
  BY <1>3, <1>4, <1>5
<1>6. CASE Quiet
  <2>1. UNCHANGED table
    BY <1>6, QuietIsStill
  <2>2. ASSUME NEW d \in Datasets, StartExport(d) PROVE ExportInv'
    <3>1. PICK y : y = [NoExport EXCEPT !.pc = "page", !.ds = d, !.first = Ids(d, rows)]
      OBVIOUS
    <3>2. export' = y
      BY <2>2, <3>1 DEF StartExport
    <3>3. y \in Exporting /\ y.ds = d /\ Listed(Ids(y.ds, rows), y, births)
      BY <1>1, <3>1, StartIsListed
    <3> QED  BY <1>3, <2>1, <3>2, <3>3
  <2>3. CASE Page
    <3>1. PICK y : y = export'
      OBVIOUS
    <3>2. y \in Exporting /\ y.ds = export.ds /\ Listed(Ids(export.ds, rows), y, births)
          /\ export.pc = "page"
      BY <1>1, <2>3, <3>1, PageIsListed DEF Page
    <3> QED  BY <1>3, <1>4, <2>1, <3>1, <3>2
  <2>4. CASE CloseExport \/ Crash
    <3>1. export' = NoExport
      BY <2>4 DEF CloseExport, Crash
    <3> QED  BY <1>3, <2>1, <3>1, NothingIsListed
  <2> QED  BY <1>5, <1>6, <2>1, <2>2, <2>3, <2>4, Exportings
<1>7. ASSUME Grows, export' = export
      PROVE  ExportInv'
  <2>0. PICK x, ids, more, n, m :
           /\ x = export /\ ids = Ids(x.ds, rows) /\ more = Ids(x.ds, rows')
           /\ n = births /\ m = births'
    OBVIOUS
  <2>1. /\ x = export /\ ids = Ids(x.ds, rows) /\ more = Ids(x.ds, rows')
        /\ n = births /\ m = births' /\ x \in Exporting /\ n \in Nat /\ m \in Nat
    BY <1>1, <1>4, <2>0
  <2>2. ids \in SUBSET (1..n) /\ more \in SUBSET (1..m) /\ IsFiniteSet(more)
    BY <1>1, <2>1, NumbersAreFinite
  <2>3. n <= m /\ more \in SUBSET Nat
    BY <1>7, <2>1, <2>2 DEF Grows
  <2>4. ids \subseteq more /\ \A j \in more : j \in ids \/ j > n
    BY <1>7, <2>1 DEF Grows, Stays, Ids, RowsOf
  <2>5. Listed(more, x, m)
    BY <1>4, <2>1, <2>2, <2>3, <2>4, ListedGrows
  <2>6. x.pc = "page" => x.ds \in Datasets
    BY <1>4, <2>1
  <2> QED  BY <1>2, <1>7, <2>1, <2>5, <2>6
<1>8. ASSUME NEW d \in Datasets, NEW id \in Nat, NEW by, Takes(d, id, by)
      PROVE  ExportInv'
  <2>0. PICK x, ids, less, n :
           x = export /\ ids = Ids(x.ds, rows) /\ less = Ids(x.ds, rows') /\ n = births
    OBVIOUS
  <2>1. /\ x = export /\ ids = Ids(x.ds, rows) /\ less = Ids(x.ds, rows') /\ n = births
        /\ x \in Exporting /\ n \in Nat
    BY <1>1, <1>4, <2>0
  <2>2. rows' = rows \ RowAt(d, id) /\ births' = births /\ export' = Shrink(d)
    BY <1>8 DEF Takes, DoDelete
  <2>3. ids \in SUBSET (1..n) /\ less \in SUBSET ids
    <3>1. ids \in SUBSET (1..n)
      BY <1>1, <2>1, NumbersAreFinite
    <3>2. less \in SUBSET ids
      BY <2>1, <2>2 DEF Ids, RowsOf
    <3> QED  BY <3>1, <3>2
  <2>4. CASE x.ds = d
    <3>1. PICK y : y = [x EXCEPT !.shrunk = TRUE]
      OBVIOUS
    <3>2. export' = y
      BY <2>1, <2>2, <2>4, <3>1 DEF Shrink
    <3>3. y \in Exporting /\ Listed(less, y, n) /\ y.pc = x.pc /\ y.ds = x.ds
      BY <1>4, <2>1, <2>3, <3>1, ListedSinks
    <3> QED  BY <1>2, <2>1, <2>2, <2>4, <3>2, <3>3
  <2>5. CASE x.ds # d
    <3>1. less = ids
      BY <2>1, <2>2, <2>5 DEF Ids, RowsOf, RowAt
    <3>2. export' = x
      BY <2>1, <2>2, <2>5 DEF Shrink
    <3> QED  BY <1>2, <1>4, <2>1, <2>2, <3>1, <3>2
  <2> QED  BY <2>4, <2>5
<1>9. ASSUME NEW p \in Approvers, Execute(p)
      PROVE  ExportInv'
  <2>1. PICK t : t = Target(p)
    OBVIOUS
  <2>2. t.ds \in Datasets /\ t.id \in Nat
    BY <1>9, <2>1, TargetIsNamed DEF Execute
  <2>3. CASE RowAt(t.ds, t.id) # {}
    <3>1. Takes(t.ds, t.id, decide[p].id)
      BY <1>9, <2>1, <2>3 DEF Execute, Takes
    <3> QED  BY <1>8, <2>2, <3>1
  <2>4. CASE RowAt(t.ds, t.id) = {}
    <3>1. UNCHANGED table /\ export' = export
      BY <1>9, <2>1, <2>4 DEF Execute
    <3> QED  BY <1>5, <3>1
  <2> QED  BY <2>3, <2>4
<1>10. CASE UNCHANGED vars
  BY <1>5, <1>10 DEF vars, table
<1>11. CASE Adds /\ UNCHANGED export
  BY <1>7, <1>11, AddsKeepTables
<1> QED  BY <1>6, <1>8, <1>9, <1>10, <1>11, Kinds

LEMMA InitExport == Init => ExportInv
<1>1. SUFFICES ASSUME Init PROVE ExportInv
  OBVIOUS
<1>2. export = NoExport
  BY <1>1 DEF Init
<1> QED  BY <1>2, NothingIsListed DEF ExportInv

\* An export (StreamDatasetRows) that reads its pages while rows come, change and go lists no
\* row twice and in order; when it is complete and nothing was deleted meanwhile it has every
\* row that was there when it began, for pages and datasets of any size.
THEOREM ExportsAreFaithful == Spec => []ExportFaithful
<1>1. Init => ExportInv
  BY InitExport
<1>2. DataInv /\ DeletionInv /\ (DataInv /\ DeletionInv)' /\ ExportInv /\ [Next]_vars => ExportInv'
  BY ExportStep
<1>3. ExportInv => ExportFaithful
  <2>1. SUFFICES ASSUME ExportInv PROVE ExportFaithful
    OBVIOUS
  <2>2. Listed(Ids(export.ds, rows), export, births)
    BY <2>1 DEF ExportInv
  <2> QED  BY <2>2 DEF Listed, ExportFaithful
<1> QED  BY <1>1, <1>2, <1>3, DataIsInductive, PTL DEF Spec
=============================================================================
