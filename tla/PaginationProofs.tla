-------------------------- MODULE PaginationProofs ---------------------------
(***************************************************************************)
(* Pages of any sizes, of listings of any lengths, cut while rows are       *)
(* inserted and updated: what a client that walks them is promised.  A page *)
(* is first described by what it holds of the rows from the cursor on; the  *)
(* walk's invariant then says where the rows lie that the client has seen,  *)
(* and those it has not.                                                    *)
(***************************************************************************)
EXTENDS Pagination, FiniteSetTheorems, SequenceTheorems, TLAPS

-----------------------------------------------------------------------------
(* The invariant                                                           *)

Rows == [key : Nat, listed : BOOLEAN]

Walks == [cursor : DOMAIN rows \cup {Null}, seen : Seq(DOMAIN rows), done : BOOLEAN]

Histories == [initial : SUBSET DOMAIN rows, touched : SUBSET DOMAIN rows,
              moved : BOOLEAN, gone : BOOLEAN]

TypeInv ==
  /\ listing \in Listings
  /\ now \in 0..MaxTime
  /\ DOMAIN rows \subseteq Ids
  /\ rows \in [DOMAIN rows -> Rows]
  /\ walk \in Walks
  /\ history \in Histories

\* No timestamp is later than the clock, the indexes of the steps have no gap,
\* and only a session can be left out of its listing.
Placed ==
  /\ listing # "steps" => \A i \in DOMAIN rows : rows[i].key <= now
  /\ listing = "steps" =>
       /\ \A i \in DOMAIN rows : rows[i].key < Cardinality(DOMAIN rows)
       /\ \A i, j \in DOMAIN rows : rows[i].key = rows[j].key => i = j
       /\ \A k \in 0..(Cardinality(DOMAIN rows) - 1) :
            \E i \in DOMAIN rows : rows[i].key = k
  /\ listing # "sessions" => Listed = DOMAIN rows

\* The cursor is the last row the client was given; without one the walk is over
\* or has not begun.
Following ==
  /\ walk.cursor # Null =>
       walk.seen # <<>> /\ walk.cursor = walk.seen[Len(walk.seen)] /\ ~ walk.done
  /\ walk.cursor = Null /\ ~ walk.done => walk.seen = <<>> /\ history.initial = {}

\* What was seen lies before the cursor.
Behind ==
  walk.cursor # Null /\ ~ history.moved =>
    \A n \in DOMAIN walk.seen :
      \/ walk.seen[n] \in history.touched
      \/ walk.seen[n] = walk.cursor
      \/ Precedes(walk.seen[n], walk.cursor)

\* What was there from the start and was not seen lies after it.
Ahead ==
  \A i \in history.initial \ history.touched :
    /\ i \in Listed
    /\ ~ history.gone => i \in Seen \/ (walk.cursor # Null /\ Precedes(walk.cursor, i))

WalkInv ==
  /\ TypeInv /\ Placed /\ Following /\ Behind /\ Ahead
  /\ ListedInOrder /\ SeenOnce /\ StepsWithoutGap

-----------------------------------------------------------------------------
(* The order of a listing                                                  *)

LEMMA PrecedesOrders ==
  ASSUME TypeInv
  PROVE  /\ \A i \in DOMAIN rows : ~ Precedes(i, i)
         /\ \A i, j \in DOMAIN rows : i # j => Precedes(i, j) \/ Precedes(j, i)
         /\ \A i, j \in DOMAIN rows : Precedes(i, j) => ~ Precedes(j, i)
         /\ \A i, j, k \in DOMAIN rows :
              Precedes(i, j) /\ Precedes(j, k) => Precedes(i, k)
<1> DEFINE D == DOMAIN rows
           key == [i \in D |-> rows[i].key]
<1>1. D \subseteq Int BY DEF TypeInv, Ids
<1>2. \A i \in D : key[i] \in Int /\ key[i] = rows[i].key BY DEF TypeInv, Rows
<1>3. \A i, j \in D :
        Precedes(i, j) <=> IF Descending
          THEN key[i] > key[j] \/ (key[i] = key[j] /\ i > j)
          ELSE key[i] < key[j] \/ (key[i] = key[j] /\ i < j)
  BY <1>2 DEF Precedes
<1> HIDE DEF D, key
<1>4. /\ \A i \in D : ~ Precedes(i, i)
      /\ \A i, j \in D : i # j => Precedes(i, j) \/ Precedes(j, i)
      /\ \A i, j \in D : Precedes(i, j) => ~ Precedes(j, i)
      /\ \A i, j, k \in D : Precedes(i, j) /\ Precedes(j, k) => Precedes(i, k)
  <2>1. CASE Descending
    BY <2>1, <1>1, <1>2, <1>3
  <2>2. CASE ~ Descending
    BY <2>2, <1>1, <1>2, <1>3
  <2> QED BY <2>1, <2>2
<1> QED BY <1>4 DEF D

LEMMA RowsFinite ==
  ASSUME TypeInv, NEW S \in SUBSET DOMAIN rows
  PROVE  IsFiniteSet(S) /\ Cardinality(S) \in Nat
<1>1. IsFiniteSet(Ids) BY BoundsAssumption, FS_Interval DEF Ids
<1>2. S \subseteq Ids BY DEF TypeInv
<1>3. IsFiniteSet(S) BY <1>1, <1>2, FS_Subset
<1> QED BY <1>3, FS_CardinalityType

\* The rows of a set can be put in order: a row's place is one more than the number
\* of rows before it.
LEMMA InOrderExists ==
  ASSUME TypeInv, NEW S \in SUBSET DOMAIN rows
  PROVE  \E s \in [1..Cardinality(S) -> S] :
           \A m, n \in DOMAIN s : m < n => Precedes(s[m], s[n])
<1> DEFINE K == Cardinality(S)
           Before(i) == {j \in S : Precedes(j, i)}
           place == [i \in S |-> Cardinality(Before(i)) + 1]
<1>1. IsFiniteSet(S) /\ K \in Nat BY RowsFinite
<1>2. \A i \in S : IsFiniteSet(Before(i)) /\ Cardinality(Before(i)) \in Nat
  <2> TAKE i \in S
  <2>1. Before(i) \in SUBSET DOMAIN rows OBVIOUS
  <2> QED BY <2>1, RowsFinite
<1>3. ASSUME NEW i \in S, NEW T, T \subseteq S, IsFiniteSet(T),
             Before(i) \subseteq T, i \in T
      PROVE  Cardinality(Before(i)) + 1 <= Cardinality(T)
  <2>1. i \notin Before(i) BY PrecedesOrders
  <2>2. /\ IsFiniteSet(Before(i) \cup {i})
        /\ Cardinality(Before(i) \cup {i}) = Cardinality(Before(i)) + 1
    BY <1>2, <2>1, FS_AddElement
  <2>3. Before(i) \cup {i} \in SUBSET T BY <1>3
  <2> HIDE DEF Before
  <2>4. Cardinality(Before(i) \cup {i}) <= Cardinality(T) BY <2>3, <1>3, FS_Subset
  <2> QED BY <2>2, <2>4
<1>4. place \in [S -> 1..K]
  <2>1. ASSUME NEW i \in S PROVE Cardinality(Before(i)) + 1 \in 1..K
    <3>1. Before(i) \subseteq S OBVIOUS
    <3> HIDE DEF Before
    <3>2. Cardinality(Before(i)) + 1 <= K BY <3>1, <1>1, <1>3
    <3> QED BY <3>2, <1>1, <1>2
  <2> QED BY <2>1
<1>5. ASSUME NEW i \in S, NEW j \in S, Precedes(i, j)
      PROVE  place[i] < place[j]
  <2>1. Before(i) \subseteq Before(j) BY <1>5, PrecedesOrders
  <2>2. i \in Before(j) /\ Before(j) \subseteq S BY <1>5
  <2>3. IsFiniteSet(Before(j)) BY <1>2
  <2>4. Cardinality(Before(i)) + 1 <= Cardinality(Before(j))
    <3> HIDE DEF Before
    <3> QED BY <2>1, <2>2, <2>3, <1>3
  <2> QED BY <2>4, <1>2
<1>6. place \in Injection(S, 1..K)
  <2>1. ASSUME NEW i \in S, NEW j \in S, i # j PROVE place[i] # place[j]
    <3>1. place[i] < place[j] \/ place[j] < place[i]
      <4> HIDE DEF place
      <4> QED BY <1>5, <2>1, PrecedesOrders
    <3> QED
      <4> HIDE DEF place, K
      <4> QED BY <3>1, <1>4, <1>1
  <2> QED
    <3> HIDE DEF place, K
    <3> QED BY <2>1, <1>4 DEF Injection, IsInjective
<1>7. place \in Surjection(S, 1..K)
  <2>1. IsFiniteSet(1..K) /\ Cardinality(1..K) = K BY <1>1, FS_Interval
  <2> HIDE DEF place
  <2> QED BY <2>1, <1>6, FS_Injection
<1> DEFINE s == [n \in 1..K |-> CHOOSE i \in S : place[i] = n]
<1>8. ASSUME NEW n \in 1..K PROVE s[n] \in S /\ place[s[n]] = n
  <2> HIDE DEF place, K
  <2>1. \E i \in S : place[i] = n BY <1>7 DEF Surjection
  <2> QED BY <2>1
<1>9. s \in [1..K -> S] BY <1>8
<1>10. ASSUME NEW m \in 1..K, NEW n \in 1..K, m < n PROVE Precedes(s[m], s[n])
  <2>1. s[m] \in S /\ s[n] \in S /\ place[s[m]] = m /\ place[s[n]] = n BY <1>8
  <2> HIDE DEF s, place, K
  <2>2. s[m] # s[n] BY <2>1, <1>10, <1>1
  <2>3. ~ Precedes(s[n], s[m]) BY <2>1, <1>10, <1>5, <1>1
  <2> QED BY <2>1, <2>2, <2>3, PrecedesOrders
<1> QED
  <2> HIDE DEF s, K
  <2>1. DOMAIN s = 1..K BY <1>9
  <2>2. \A m, n \in DOMAIN s : m < n => Precedes(s[m], s[n]) BY <1>10, <2>1
  <2> QED BY <2>2, <1>9 DEF K

\* InOrder gives every row of the set once, in the order of the listing.
LEMMA InOrderLists ==
  ASSUME TypeInv, NEW S \in SUBSET DOMAIN rows
  PROVE  /\ Cardinality(S) \in Nat
         /\ InOrder(S) \in [1..Cardinality(S) -> S]
         /\ \A m, n \in 1..Cardinality(S) :
              m < n => Precedes(InOrder(S)[m], InOrder(S)[n])
         /\ \A i \in S : \E n \in 1..Cardinality(S) : InOrder(S)[n] = i
<1> DEFINE F == InOrder(S)
           K == Cardinality(S)
<1>1. IsFiniteSet(S) /\ K \in Nat BY RowsFinite
<1>2. /\ F \in [1..K -> S]
      /\ \A m, n \in DOMAIN F : m < n => Precedes(F[m], F[n])
  BY InOrderExists DEF InOrder
<1> HIDE DEF F
<1>3. \A m, n \in 1..K : m < n => Precedes(F[m], F[n])
  <2> HIDE DEF K
  <2> QED BY <1>2
<1>4. F \in Injection(1..K, S)
  <2> HIDE DEF K
  <2>1. ASSUME NEW m \in 1..K, NEW n \in 1..K, m < n PROVE F[m] # F[n]
    <3>1. Precedes(F[m], F[n]) /\ F[m] \in DOMAIN rows BY <2>1, <1>2, <1>3
    <3> QED BY <3>1, PrecedesOrders
  <2>2. ASSUME NEW m \in 1..K, NEW n \in 1..K, m # n PROVE F[m] # F[n]
    <3>1. m < n \/ n < m BY <1>1, <2>2
    <3> QED BY <3>1, <2>1
  <2> QED BY <2>2, <1>2 DEF Injection, IsInjective
<1>5. F \in Surjection(1..K, S)
  <2>1. Cardinality(1..K) = K BY <1>1, FS_Interval
  <2> QED BY <2>1, <1>1, <1>4, FS_Injection
<1>6. \A i \in S : \E n \in 1..K : F[n] = i
  <2> HIDE DEF K
  <2> QED BY <1>5 DEF Surjection
<1> QED BY <1>1, <1>2, <1>3, <1>6 DEF F

-----------------------------------------------------------------------------
(* A page                                                                  *)

LEMMA FirstTakes ==
  ASSUME NEW T, NEW s \in Seq(T), NEW n \in Nat
  PROVE  /\ First(n, s) \in Seq(T)
         /\ Len(First(n, s)) = IF n < Len(s) THEN n ELSE Len(s)
         /\ \A m \in 1..Len(First(n, s)) : First(n, s)[m] = s[m]
<1> DEFINE l == IF n < Len(s) THEN n ELSE Len(s)
<1>1. l \in Nat /\ l <= Len(s) /\ Len(s) \in Nat OBVIOUS
<1>2. 1 \in 1..(Len(s) + 1) /\ l \in 0..Len(s) BY <1>1
<1>3. First(n, s) = SubSeq(s, 1, l) BY DEF First
<1> HIDE DEF l
<1>4. /\ SubSeq(s, 1, l) \in Seq(T)
      /\ Len(SubSeq(s, 1, l)) = l
      /\ \A m \in 1..l : SubSeq(s, 1, l)[m] = s[m]
  BY <1>1, <1>2, SubSeqProperties
<1> QED BY <1>3, <1>4 DEF l

\* The rows from the cursor on, less the one that is skipped.
LEMMA FoundRows ==
  ASSUME TypeInv, NEW cursor \in DOMAIN rows \cup {Null}
  PROVE  LET S == FromCursor(cursor)
             F == InOrder(S)
             K == Cardinality(S)
             d == IF cursor # Null /\ K # 0 THEN 1 ELSE 0
             f == IF cursor # Null /\ F # <<>> THEN Tail(F) ELSE F
         IN  /\ f \in Seq(S) /\ Len(f) = K - d
             /\ \A n \in 1..(K - d) : f[n] = F[n + d]
<1> DEFINE S == FromCursor(cursor)
           F == InOrder(S)
           K == Cardinality(S)
           d == IF cursor # Null /\ K # 0 THEN 1 ELSE 0
           f == IF cursor # Null /\ F # <<>> THEN Tail(F) ELSE F
<1>1. S \in SUBSET DOMAIN rows BY DEF FromCursor, Listed
<1>2. K \in Nat /\ F \in [1..K -> S] BY <1>1, InOrderLists
<1>3. F \in Seq(S) /\ Len(F) = K /\ (F = <<>> <=> K = 0)
  <2> HIDE DEF F, K, S
  <2>1. F \in Seq(S) /\ Len(F) = K BY <1>2
  <2> QED BY <2>1
<1>4. CASE cursor # Null /\ K # 0
  <2>1. f = Tail(F) /\ d = 1 BY <1>3, <1>4
  <2> HIDE DEF F, K, S, f, d
  <2>2. F # <<>> BY <1>3, <1>4
  <2>3. /\ Tail(F) \in Seq(S) /\ Len(Tail(F)) = Len(F) - 1
        /\ \A n \in 1..Len(Tail(F)) : Tail(F)[n] = F[n + 1]
    BY <2>2, <1>3, HeadTailProperties
  <2> QED BY <2>1, <2>3, <1>3 DEF F, K, S, f, d
<1>5. CASE ~ (cursor # Null /\ K # 0)
  <2>1. f = F /\ d = 0 BY <1>3, <1>5
  <2> HIDE DEF F, K, S, f, d
  <2>2. \A n \in 1..(K - d) : f[n] = F[n + d] BY <2>1, <1>2
  <2> QED BY <2>1, <2>2, <1>3, <1>2 DEF F, K, S, f, d
<1> QED BY <1>4, <1>5

\* What buildPage makes of what findMany found.
LEMMA PageOf ==
  ASSUME TypeInv, NEW cursor \in DOMAIN rows \cup {Null}, NEW limit \in Nat \ {0}
  PROVE  LET S == FromCursor(cursor)
             F == InOrder(S)
             K == Cardinality(S)
             d == IF cursor # Null /\ K # 0 THEN 1 ELSE 0
             page == BuildPage(FindMany(cursor, limit + 1), limit)
             l == Len(page.items)
         IN  /\ page.items \in Seq(S)
             /\ l = IF limit < K - d THEN limit ELSE K - d
             /\ \A n \in 1..l : page.items[n] = F[n + d]
             /\ page.nextCursor = IF limit < K - d THEN page.items[l] ELSE Null
<1> DEFINE S == FromCursor(cursor)
           F == InOrder(S)
           K == Cardinality(S)
           d == IF cursor # Null /\ K # 0 THEN 1 ELSE 0
           f == IF cursor # Null /\ F # <<>> THEN Tail(F) ELSE F
           found == FindMany(cursor, limit + 1)
           items == First(limit, found)
           page == BuildPage(found, limit)
<1>1. found = First(limit + 1, f) BY DEF FindMany
<1>2. f \in Seq(S) /\ Len(f) = K - d /\ \A n \in 1..(K - d) : f[n] = F[n + d]
  BY FoundRows
<1>3. page.items = items /\ page.nextCursor = IF Len(found) > limit THEN items[Len(items)] ELSE Null
  BY DEF BuildPage
<1> HIDE DEF f, found, items, page
<1>4. /\ found \in Seq(S)
      /\ Len(found) = IF limit + 1 < Len(f) THEN limit + 1 ELSE Len(f)
      /\ \A n \in 1..Len(found) : found[n] = f[n]
  BY <1>1, <1>2, FirstTakes
<1>5. /\ items \in Seq(S)
      /\ Len(items) = IF limit < Len(found) THEN limit ELSE Len(found)
      /\ \A n \in 1..Len(items) : items[n] = found[n]
  BY <1>4, FirstTakes DEF items
<1> DEFINE x == K - d
<1>6. x = Len(f) /\ Len(f) \in Nat BY <1>2
<1> HIDE DEF x
<1>7. /\ Len(items) = IF limit < x THEN limit ELSE x
      /\ Len(items) <= Len(found) /\ Len(found) <= x
      /\ Len(found) > limit <=> limit < x
  BY <1>4, <1>5, <1>6
<1>8. \A n \in 1..Len(items) : items[n] = F[n + d]
  <2> TAKE n \in 1..Len(items)
  <2>1. n \in 1..Len(found) /\ n \in 1..x BY <1>7, <1>4, <1>5, <1>6
  <2>2. items[n] = f[n] BY <2>1, <1>4, <1>5
  <2> QED BY <2>1, <2>2, <1>2 DEF x
<1> QED BY <1>3, <1>5, <1>7, <1>8 DEF x, page, found

\* A page and the rows: its items come after the cursor, in order, and none that
\* comes after a cursor that is still listed is left out before the next one.
LEMMA PageFacts ==
  ASSUME TypeInv, NEW cursor \in DOMAIN rows \cup {Null}, NEW limit \in Nat \ {0}
  PROVE  LET page == BuildPage(FindMany(cursor, limit + 1), limit)
             items == page.items
             next == page.nextCursor
         IN  /\ items \in Seq(Listed)
             /\ \A m, n \in 1..Len(items) : m < n => Precedes(items[m], items[n])
             /\ cursor # Null => \A n \in 1..Len(items) : Precedes(cursor, items[n])
             /\ next # Null =>
                  Len(items) # 0 /\ next = items[Len(items)] /\ next \in DOMAIN rows
             /\ \A i \in Listed :
                  cursor = Null \/ (cursor \in Listed /\ Precedes(cursor, i)) =>
                    \/ \E n \in 1..Len(items) : items[n] = i
                    \/ next # Null /\ Precedes(next, i)
<1> DEFINE S == FromCursor(cursor)
           F == InOrder(S)
           K == Cardinality(S)
           d == IF cursor # Null /\ K # 0 THEN 1 ELSE 0
           page == BuildPage(FindMany(cursor, limit + 1), limit)
           items == page.items
           next == page.nextCursor
           l == Len(items)
<1>1. S \in SUBSET DOMAIN rows /\ S \subseteq Listed BY DEF FromCursor, Listed
<1>2. /\ K \in Nat /\ F \in [1..K -> S]
      /\ \A m, n \in 1..K : m < n => Precedes(F[m], F[n])
      /\ \A i \in S : \E n \in 1..K : F[n] = i
  BY <1>1, InOrderLists
<1>3. /\ items \in Seq(S)
      /\ l = IF limit < K - d THEN limit ELSE K - d
      /\ \A n \in 1..l : items[n] = F[n + d]
      /\ next = IF limit < K - d THEN items[l] ELSE Null
  BY PageOf
<1>4. cursor # Null => \A i \in S : ~ Precedes(i, cursor) BY DEF FromCursor
<1>5. \A i \in Listed : cursor = Null \/ ~ Precedes(i, cursor) => i \in S
  BY DEF FromCursor
<1>6. d \in {0, 1} /\ (d = 1 <=> cursor # Null /\ K # 0) OBVIOUS
<1>7. DOMAIN rows \subseteq Nat \ {Null} BY DEF TypeInv, Ids, Null
<1> HIDE DEF S, F, K, d, page
<1>8. l \in Nat BY <1>3
<1>9. \A n \in 1..l : n + d \in 1..K /\ items[n] = F[n + d] /\ items[n] \in S
  BY <1>2, <1>3, <1>6, <1>8
<1>10. items \in Seq(Listed) BY <1>1, <1>3, SeqMonotonic
<1>11. \A m, n \in 1..l : m < n => Precedes(items[m], items[n])
  <2> TAKE m, n \in 1..l
  <2> HAVE m < n
  <2>1. m + d < n + d BY <1>6, <1>8
  <2>2. m + d \in 1..K /\ n + d \in 1..K BY <1>9
  <2>3. items[m] = F[m + d] /\ items[n] = F[n + d] BY <1>9
  <2>4. Precedes(F[m + d], F[n + d]) BY <1>2, <2>1, <2>2
  <2> QED BY <2>3, <2>4
<1>12. ASSUME cursor # Null, NEW n \in 1..l PROVE Precedes(cursor, items[n])
  <2>1. n + d \in 1..K /\ items[n] = F[n + d] /\ items[n] \in S BY <1>9
  <2>2. d = 1 BY <2>1, <1>2, <1>6, <1>12
  <2>3. 1 \in 1..K /\ 1 < n + 1 /\ n + 1 \in 1..K BY <2>1, <2>2, <1>2, <1>8
  <2>4. F[1] \in S /\ Precedes(F[1], items[n]) BY <2>1, <2>2, <2>3, <1>2
  <2>5. items[n] # cursor BY <2>4, <1>4, <1>12
  <2>6. ~ Precedes(items[n], cursor) BY <2>1, <1>4, <1>12
  <2>7. cursor \in DOMAIN rows /\ items[n] \in DOMAIN rows BY <1>1, <1>12, <2>1
  <2> QED BY <2>5, <2>6, <2>7, PrecedesOrders
<1>13. next # Null => l # 0 /\ next = items[l] /\ next \in DOMAIN rows
  <2> HAVE next # Null
  <2>1. limit < K - d /\ next = items[l] /\ l = limit BY <1>3
  <2>2. l # 0 /\ l \in 1..l BY <2>1, <1>8
  <2> QED BY <2>1, <2>2, <1>9, <1>1
<1>14. ASSUME NEW i \in Listed,
              cursor = Null \/ (cursor \in Listed /\ Precedes(cursor, i))
       PROVE  \/ \E n \in 1..l : items[n] = i
              \/ next # Null /\ Precedes(next, i)
  <2>1. i \in DOMAIN rows BY DEF Listed
  <2>2. i \in S BY <1>5, <1>14, <2>1, PrecedesOrders
  <2>3. PICK p \in 1..K : F[p] = i BY <2>2, <1>2
  <2>4. p \in 1..K /\ p > d
    <3>1. CASE d = 0 BY <3>1, <1>2
    <3>2. CASE d = 1
      <4>1. cursor \in Listed /\ Precedes(cursor, i) /\ cursor \in DOMAIN rows
        BY <3>2, <1>6, <1>14
      <4>2. ~ Precedes(cursor, cursor) BY <4>1, PrecedesOrders
      <4>3. cursor \in S BY <4>1, <4>2, <1>5
      <4>4. PICK q \in 1..K : F[q] = cursor BY <4>3, <1>2
      <4>5. ASSUME p = 1 PROVE FALSE
        <5>1. q # 1 BY <4>5, <4>4, <4>2, <4>1, <2>3
        <5>2. 1 < q /\ 1 \in 1..K BY <5>1, <1>2
        <5>3. Precedes(i, cursor) BY <5>2, <4>5, <4>4, <2>3, <1>2
        <5> QED BY <5>3, <4>1, <2>1, PrecedesOrders
      <4> QED BY <4>5, <3>2, <1>2
    <3> QED BY <3>1, <3>2, <1>6
  <2>5. CASE p - d <= l
    <3>1. p - d \in 1..l /\ (p - d) + d = p BY <2>4, <2>5, <1>6, <1>8, <1>2
    <3>2. items[p - d] = F[p] BY <3>1, <1>9
    <3> QED BY <3>1, <3>2, <2>3
  <2>6. CASE ~ (p - d <= l)
    <3>1. limit < K - d /\ l = limit BY <2>4, <2>6, <1>3, <1>6, <1>8, <1>2
    <3>2. next = items[l] /\ l \in 1..l BY <3>1, <1>3, <1>8
    <3>3. next = F[l + d] /\ l + d \in 1..K BY <3>2, <1>9
    <3>4. l + d < p BY <2>4, <2>6, <1>6, <1>8, <1>2
    <3>5. Precedes(next, i) BY <3>3, <3>4, <2>3, <2>4, <1>2
    <3>6. next # Null BY <3>2, <1>9, <1>1, <1>7
    <3> QED BY <3>5, <3>6
  <2> QED BY <2>5, <2>6
<1> QED BY <1>10, <1>11, <1>12, <1>13, <1>14 DEF page

\* The steps of a page have consecutive indexes: between two rows in order lie as
\* many rows as indexes.
LEMMA StepsConsecutive ==
  ASSUME TypeInv, Placed, listing = "steps",
         NEW cursor \in DOMAIN rows \cup {Null}, NEW limit \in Nat \ {0}
  PROVE  LET items == BuildPage(FindMany(cursor, limit + 1), limit).items
             first == IF cursor = Null THEN 0 ELSE rows[cursor].key + 1
         IN  \A n \in 1..Len(items) : rows[items[n]].key = first + n - 1
<1> DEFINE D == DOMAIN rows
           S == FromCursor(cursor)
           F == InOrder(S)
           K == Cardinality(S)
           d == IF cursor # Null /\ K # 0 THEN 1 ELSE 0
           items == BuildPage(FindMany(cursor, limit + 1), limit).items
           base == IF cursor = Null THEN 0 ELSE rows[cursor].key
<1>1. /\ D \subseteq Int
      /\ \A i \in D : rows[i].key \in Nat
      /\ cursor = Null \/ cursor \in D
  BY DEF TypeInv, Ids, Rows
<1>2. \A i, j \in D :
        Precedes(i, j) <=> rows[i].key < rows[j].key \/ (rows[i].key = rows[j].key /\ i < j)
  BY DEF Precedes, Descending
<1>3. /\ \A i, j \in D : rows[i].key = rows[j].key => i = j
      /\ \A i \in D : rows[i].key < Cardinality(D)
      /\ \A k \in 0..(Cardinality(D) - 1) : \E i \in D : rows[i].key = k
      /\ Listed = D
  BY DEF Placed
<1>4. base \in Nat BY <1>1
<1>5. S \in SUBSET D /\ \A i \in D : i \in S <=> rows[i].key >= base
  <2>1. CASE cursor = Null
    BY <2>1, <1>1, <1>3 DEF FromCursor
  <2>2. CASE cursor # Null
    <3>1. cursor \in D /\ base = rows[cursor].key BY <2>2, <1>1
    <3>2. S = {i \in D : ~ Precedes(i, cursor)} BY <2>2, <1>3 DEF FromCursor
    <3> HIDE DEF S, base, D
    <3>3. \A i \in D : ~ Precedes(i, cursor) <=> rows[i].key >= base
      BY <3>1, <1>1, <1>2, <1>3
    <3> QED BY <3>2, <3>3
  <2> QED BY <2>1, <2>2
<1>6. /\ K \in Nat /\ F \in [1..K -> S]
      /\ \A m, n \in 1..K : m < n => Precedes(F[m], F[n])
      /\ \A i \in S : \E n \in 1..K : F[n] = i
  BY <1>5, InOrderLists
<1>7. /\ items \in Seq(S)
      /\ Len(items) = IF limit < K - d THEN limit ELSE K - d
      /\ \A n \in 1..Len(items) : items[n] = F[n + d]
  BY PageOf
<1>8. Cardinality(D) \in Nat BY RowsFinite
<1>9. cursor # Null => d = 1
  <2> HAVE cursor # Null
  <2>1. cursor \in S BY <1>1, <1>5
  <2>2. K # 0 BY <2>1, <1>6
  <2> QED BY <2>2
<1>10. cursor = Null => d = 0 OBVIOUS
<1>11. base = (IF cursor = Null THEN 0 ELSE rows[cursor].key) OBVIOUS
<1> HIDE DEF D, S, F, K, d, items, base
<1>12. \A m, n \in 1..K : m < n <=> rows[F[m]].key < rows[F[n]].key
  <2>1. ASSUME NEW i \in D, NEW j \in D, Precedes(i, j)
        PROVE  rows[i].key < rows[j].key
    <3>1. i # j BY <2>1, PrecedesOrders DEF D
    <3>2. rows[i].key # rows[j].key BY <3>1, <1>3
    <3> QED BY <2>1, <3>2, <1>2
  <2>2. ASSUME NEW m \in 1..K, NEW n \in 1..K, m < n
        PROVE  rows[F[m]].key < rows[F[n]].key
    <3>1. F[m] \in D /\ F[n] \in D BY <1>5, <1>6
    <3>2. Precedes(F[m], F[n]) BY <2>2, <1>6
    <3> QED BY <3>1, <3>2, <2>1
  <2> TAKE m, n \in 1..K
  <2>3. F[m] \in D /\ F[n] \in D BY <1>5, <1>6
  <2>4. rows[F[m]].key \in Nat /\ rows[F[n]].key \in Nat BY <2>3, <1>1
  <2>5. m < n \/ m = n \/ n < m BY <1>6
  <2>6. CASE m < n BY <2>6, <2>2
  <2>7. CASE m = n BY <2>7, <2>4, <1>6
  <2>8. CASE n < m
    <3>1. rows[F[n]].key < rows[F[m]].key BY <2>8, <2>2
    <3> QED BY <3>1, <2>8, <2>4, <1>6
  <2> QED BY <2>5, <2>6, <2>7, <2>8
<1>13. ASSUME NEW n \in 1..K PROVE rows[F[n]].key = base + n - 1
  <2> DEFINE top == rows[F[n]].key
             k == [m \in 1..(n - 1) |-> rows[F[m]].key]
             T == base..(top - 1)
  <2>1. n \in Nat /\ n >= 1 /\ F[n] \in S /\ F[n] \in D BY <1>5, <1>6
  <2>2. top \in Nat /\ top >= base BY <2>1, <1>1, <1>5
  <2>3. \A m \in 1..(n - 1) :
          m \in 1..K /\ m < n /\ F[m] \in S /\ F[m] \in D
    BY <1>5, <1>6
  <2>4. k \in [1..(n - 1) -> T]
    <3>1. ASSUME NEW m \in 1..(n - 1) PROVE rows[F[m]].key \in T
      <4>1. rows[F[m]].key < top BY <2>3, <1>12
      <4>2. rows[F[m]].key \in Nat /\ rows[F[m]].key >= base BY <2>3, <1>1, <1>5
      <4> QED
        <5> HIDE DEF top
        <5> QED BY <4>1, <4>2, <2>2, <1>4
    <3> QED BY <3>1
  <2>5. ASSUME NEW x \in 1..(n - 1), NEW y \in 1..(n - 1), x # y PROVE k[x] # k[y]
    <3>1. x \in Nat /\ y \in Nat /\ (x < y \/ y < x) BY <2>1, <2>5
    <3>2. rows[F[x]].key < rows[F[y]].key \/ rows[F[y]].key < rows[F[x]].key
      BY <3>1, <2>3, <1>12
    <3>3. rows[F[x]].key \in Nat /\ rows[F[y]].key \in Nat BY <2>3, <1>1
    <3> QED BY <3>2, <3>3
  <2>6. ASSUME NEW t \in T PROVE \E m \in 1..(n - 1) : k[m] = t
    <3>1. t \in Nat /\ t >= base /\ t < top
      <4> HIDE DEF top
      <4> QED BY <2>2, <1>4
    <3>2. top < Cardinality(D) BY <2>1, <1>3
    <3>3. t \in 0..(Cardinality(D) - 1)
      <4> HIDE DEF top
      <4> QED BY <3>1, <3>2, <2>2, <1>8
    <3>4. PICK i \in D : rows[i].key = t BY <3>3, <1>3
    <3>5. PICK m \in 1..K : F[m] = i BY <3>4, <3>1, <1>5, <1>6
    <3>6. m < n BY <3>5, <3>4, <3>1, <1>12
    <3>7. m \in 1..(n - 1) BY <3>6, <1>6, <2>1
    <3> QED BY <3>7, <3>5, <3>4
  <2>7. ExistsBijection(1..(n - 1), T)
    <3> HIDE DEF k, T
    <3>1. k \in Injection(1..(n - 1), T) BY <2>4, <2>5 DEF Injection, IsInjective
    <3>2. k \in Surjection(1..(n - 1), T) BY <2>4, <2>6 DEF Surjection
    <3> QED BY <3>1, <3>2 DEF ExistsBijection, Bijection
  <2>8. IsFiniteSet(1..(n - 1)) /\ Cardinality(1..(n - 1)) = n - 1
    BY <2>1, FS_Interval
  <2>9. Cardinality(T) = top - base
    <3> HIDE DEF top
    <3>1. top - 1 \in Int /\ base \in Int BY <2>2, <1>4
    <3>2. Cardinality(base..(top - 1)) = IF base > top - 1 THEN 0 ELSE (top - 1) - base + 1
      BY <3>1, FS_Interval
    <3> QED BY <3>2, <2>2, <1>4
  <2>10. n - 1 = top - base
    <3> HIDE DEF T, top
    <3> QED BY <2>7, <2>8, <2>9, FS_Bijection
  <2> QED
    <3>1. top = base + n - 1
      <4> HIDE DEF top
      <4> QED BY <2>10, <2>1, <2>2, <1>4
    <3> QED BY <3>1
<1>14. ASSUME NEW n \in 1..Len(items)
       PROVE  rows[items[n]].key = (IF cursor = Null THEN 0 ELSE rows[cursor].key + 1) + n - 1
  <2>1. d \in Nat BY <1>9, <1>10
  <2>2. n \in Nat /\ n + d \in 1..K BY <2>1, <1>6, <1>7
  <2>3. rows[items[n]].key = base + (n + d) - 1 BY <2>2, <1>7, <1>13
  <2>4. CASE cursor = Null BY <2>3, <2>4, <2>2, <1>10, <1>11
  <2>5. CASE cursor # Null BY <2>3, <2>5, <2>2, <1>9, <1>11, <1>4
  <2> QED BY <2>4, <2>5
<1> QED BY <1>14 DEF items

-----------------------------------------------------------------------------
(* The types                                                               *)

\* A new row leaves the others as they were.
LEMMA RowAdded ==
  ASSUME TypeInv, NEW id \in Ids \ DOMAIN rows, NEW key \in Nat,
         rows' = WithRow(id, [key |-> key, listed |-> TRUE])
  PROVE  /\ DOMAIN rows' = DOMAIN rows \cup {id}
         /\ \A i \in DOMAIN rows : rows'[i] = rows[i]
         /\ rows'[id] = [key |-> key, listed |-> TRUE]
         /\ rows' \in [DOMAIN rows' -> Rows]
         /\ Listed' = Listed \cup {id}
<1> DEFINE row == [key |-> key, listed |-> TRUE]
<1>1. rows' = [i \in DOMAIN rows \cup {id} |-> IF i = id THEN row ELSE rows[i]]
  BY DEF WithRow
<1>2. /\ DOMAIN rows' = DOMAIN rows \cup {id}
      /\ \A i \in DOMAIN rows : rows'[i] = rows[i]
      /\ rows'[id] = row
  BY <1>1
<1>3. row \in Rows BY DEF Rows
<1>4. \A i \in DOMAIN rows : rows[i] \in Rows BY DEF TypeInv
<1>5. rows' \in [DOMAIN rows' -> Rows]
  <2> HIDE DEF row
  <2> QED BY <1>1, <1>3, <1>4
<1>6. rows'[id].listed = TRUE BY <1>2
<1>7. Listed' = Listed \cup {id} BY <1>2, <1>6 DEF Listed
<1> QED BY <1>2, <1>5, <1>7

\* Walk and history keep their types when the table only grows.
LEMMA TypesGrow ==
  ASSUME TypeInv, DOMAIN rows \subseteq (DOMAIN rows)', UNCHANGED <<walk, history>>
  PROVE  walk' \in Walks' /\ history' \in Histories'
<1>1. /\ walk = [cursor |-> walk.cursor, seen |-> walk.seen, done |-> walk.done]
      /\ walk.cursor \in DOMAIN rows \cup {Null} /\ walk.done \in BOOLEAN
      /\ walk.seen \in Seq(DOMAIN rows)
  BY DEF TypeInv, Walks
<1>2. walk.seen \in Seq((DOMAIN rows)') BY <1>1, SeqMonotonic
<1>3. walk \in Walks' BY <1>1, <1>2 DEF Walks
<1>4. /\ history = [initial |-> history.initial, touched |-> history.touched,
                    moved |-> history.moved, gone |-> history.gone]
      /\ history.initial \in SUBSET DOMAIN rows /\ history.touched \in SUBSET DOMAIN rows
      /\ history.moved \in BOOLEAN /\ history.gone \in BOOLEAN
  BY DEF TypeInv, Histories
<1>5. history \in Histories' BY <1>4 DEF Histories
<1> QED BY <1>3, <1>5

LEMMA PageTypes ==
  ASSUME TypeInv, NEW limit \in 1..MaxLimit, ListPage(limit)
  PROVE  TypeInv'
<1> DEFINE page == BuildPage(FindMany(walk.cursor, limit + 1), limit)
<1>1. /\ walk' = [cursor |-> page.nextCursor, seen |-> walk.seen \o page.items,
                  done |-> page.nextCursor = Null]
      /\ Remember
      /\ UNCHANGED <<listing, now, rows>>
  BY DEF ListPage
<1>2. walk.cursor \in DOMAIN rows \cup {Null} /\ walk.seen \in Seq(DOMAIN rows)
  BY DEF TypeInv, Walks
<1>3. limit \in Nat \ {0} BY BoundsAssumption
<1>4. /\ page.items \in Seq(Listed)
      /\ page.nextCursor # Null => page.nextCursor \in DOMAIN rows
  BY <1>2, <1>3, PageFacts
<1> HIDE DEF page
<1>5. Listed \subseteq DOMAIN rows BY DEF Listed
<1>6. walk.seen \o page.items \in Seq(DOMAIN rows)
  <2>1. page.items \in Seq(DOMAIN rows) BY <1>4, <1>5, SeqMonotonic
  <2> QED BY <2>1, <1>2, ConcatProperties
<1>7. walk' \in Walks
  <2>1. (page.nextCursor = Null) \in BOOLEAN OBVIOUS
  <2>2. page.nextCursor \in DOMAIN rows \cup {Null} BY <1>4
  <2> QED BY <1>1, <1>6, <2>1, <2>2 DEF Walks
<1>8. history' \in Histories
  <2>1. Listed \in SUBSET DOMAIN rows BY <1>5
  <2>2. CASE walk.cursor = Null
    BY <1>1, <2>1, <2>2 DEF Remember, Fresh, Histories
  <2>3. CASE walk.cursor # Null
    BY <1>1, <2>3 DEF Remember, Histories, TypeInv
  <2> QED BY <2>2, <2>3
<1> QED BY <1>1, <1>7, <1>8 DEF TypeInv, Walks, Histories, Rows

LEMMA UpdateTypes ==
  ASSUME TypeInv, NEW id \in Ids, UpdateSession(id)
  PROVE  /\ TypeInv' /\ DOMAIN rows' = DOMAIN rows
         /\ \A i \in DOMAIN rows \ {id} : rows'[i] = rows[i]
         /\ rows'[id].key = now
<1>1. PICK listed \in BOOLEAN :
        rows' = [rows EXCEPT ![id] = [key |-> now, listed |-> listed]]
  BY DEF UpdateSession
<1>2. /\ UNCHANGED <<listing, now, walk>> /\ id \in DOMAIN rows
      /\ history' = [history EXCEPT !.touched = @ \cup {id},
                                    !.moved = @ \/ id = walk.cursor]
  BY DEF UpdateSession
<1>3. now \in Nat /\ now \in 0..MaxTime BY BoundsAssumption DEF TypeInv
<1>4. [key |-> now, listed |-> listed] \in Rows BY <1>3 DEF Rows
<1>5. /\ DOMAIN rows' = DOMAIN rows
      /\ rows' \in [DOMAIN rows -> Rows]
      /\ \A i \in DOMAIN rows \ {id} : rows'[i] = rows[i]
      /\ rows'[id] = [key |-> now, listed |-> listed]
  BY <1>1, <1>2, <1>4 DEF TypeInv
<1>6. walk' \in Walks BY <1>2 DEF TypeInv
<1>7. history' \in Histories
  <2>1. (history.moved \/ id = walk.cursor) \in BOOLEAN OBVIOUS
  <2>2. history.touched \cup {id} \in SUBSET DOMAIN rows
    BY <1>2 DEF TypeInv, Histories
  <2> QED BY <1>2, <2>1, <2>2 DEF TypeInv, Histories
<1>8. TypeInv' BY <1>2, <1>3, <1>5, <1>6, <1>7 DEF TypeInv, Walks, Histories
<1>9. rows'[id].key = now BY <1>5
<1> QED BY <1>5, <1>8, <1>9

LEMMA StepsKeepType == TypeInv /\ [Next]_vars => TypeInv'
<1> SUFFICES ASSUME TypeInv, [Next]_vars PROVE TypeInv'
  OBVIOUS
<1>1. CASE UNCHANGED vars
  BY <1>1 DEF vars, TypeInv, Walks, Histories
<1>2. CASE Tick
  <2>1. now' \in 0..MaxTime BY <1>2, BoundsAssumption DEF Tick, TypeInv
  <2> QED BY <2>1, <1>2 DEF Tick, TypeInv, Walks, Histories
<1>3. ASSUME NEW limit \in 1..MaxLimit, ListPage(limit) PROVE TypeInv'
  BY <1>3, PageTypes
<1>4. ASSUME NEW id \in Ids, Insert(id) \/ AppendStep(id) PROVE TypeInv'
  <2>1. /\ UNCHANGED <<listing, now, walk, history>>
        /\ id \in Ids \ DOMAIN rows
    BY <1>4 DEF Insert, AppendStep
  <2>2. PICK key \in Nat : rows' = WithRow(id, [key |-> key, listed |-> TRUE])
    <3>1. Cardinality(DOMAIN rows) \in Nat BY RowsFinite
    <3> QED BY <1>4, <3>1 DEF Insert, AppendStep
  <2>3. DOMAIN rows' = DOMAIN rows \cup {id} /\ rows' \in [DOMAIN rows' -> Rows]
    BY <2>1, <2>2, RowAdded
  <2>4. walk' \in Walks' /\ history' \in Histories' BY <2>1, <2>3, TypesGrow
  <2> QED BY <2>1, <2>3, <2>4 DEF TypeInv
<1>5. ASSUME NEW id \in Ids, UpdateSession(id) PROVE TypeInv'
  BY <1>5, UpdateTypes
<1> QED BY <1>1, <1>2, <1>3, <1>4, <1>5 DEF Next

\* The table, the walk and what is remembered of it have their types.
THEOREM TypeCorrect == Spec => []TypeOK
<1>1. Init => TypeInv
  <2> SUFFICES ASSUME Init PROVE TypeInv
    OBVIOUS
  <2>1. <<>> \in Seq({}) BY EmptySeq
  <2>2. rows = [i \in {} |-> [key |-> 0, listed |-> TRUE]] /\ DOMAIN rows = {}
    BY DEF Init
  <2>3. rows \in [DOMAIN rows -> Rows] BY <2>2
  <2>4. walk \in Walks BY <2>1, <2>2 DEF Init, Walks
  <2>5. history \in Histories BY <2>2 DEF Init, Histories, Fresh
  <2> QED BY <2>2, <2>3, <2>4, <2>5, BoundsAssumption DEF Init, TypeInv
<1>2. TypeInv => TypeOK
  <2> SUFFICES ASSUME TypeInv PROVE TypeOK
    OBVIOUS
  <2>1. walk \in Walks /\ DOMAIN rows \subseteq Ids BY DEF TypeInv
  <2>2. walk.seen \in Seq(Ids) BY <2>1, SeqMonotonic DEF Walks
  <2>3. walk \in [cursor : Ids \cup {Null}, seen : Seq(Ids), done : BOOLEAN]
    BY <2>1, <2>2 DEF Walks
  <2> QED BY <2>3 DEF TypeInv, TypeOK, Rows
<1> QED BY <1>1, <1>2, StepsKeepType, PTL DEF Spec

-----------------------------------------------------------------------------
(* The steps of the walk's invariant                                       *)

\* The rows a walk was given, after a page: those of before, then the page's.
LEMMA SeenGrows ==
  ASSUME NEW T, NEW old \in Seq(T), NEW items \in Seq(T), NEW new, new = old \o items
  PROVE  /\ new \in Seq(T) /\ Len(new) = Len(old) + Len(items)
         /\ DOMAIN new = 1..Len(new) /\ DOMAIN old = 1..Len(old)
         /\ \A n \in 1..Len(old) : n \in 1..Len(new) /\ new[n] = old[n]
         /\ \A n \in 1..Len(items) :
              n + Len(old) \in 1..Len(new) /\ new[n + Len(old)] = items[n]
         /\ \A n \in 1..Len(new) :
              n \in 1..Len(old) \/ n - Len(old) \in 1..Len(items)
         /\ \A n \in 1..Len(new) :
              /\ n \in 1..Len(old) => new[n] = old[n]
              /\ n \notin 1..Len(old) => new[n] = items[n - Len(old)]
<1>1. Len(old) \in Nat /\ Len(items) \in Nat OBVIOUS
<1>2. /\ new \in Seq(T) /\ Len(new) = Len(old) + Len(items)
      /\ \A i \in 1..(Len(old) + Len(items)) :
           new[i] = IF i <= Len(old) THEN old[i] ELSE items[i - Len(old)]
  BY ConcatProperties
<1> DEFINE a == Len(old)
           b == Len(items)
<1>3. a \in Nat /\ b \in Nat /\ Len(new) = a + b BY <1>1, <1>2
<1>4. DOMAIN new = 1..Len(new) /\ DOMAIN old = 1..Len(old) BY <1>2
<1> HIDE DEF a, b
<1>5. /\ \A n \in 1..a : n \in 1..(a + b)
      /\ \A n \in 1..b : n + a \in 1..(a + b) /\ (n + a) - a = n /\ ~ (n + a <= a)
      /\ \A n \in 1..(a + b) : n \in 1..a \/ n - a \in 1..b
      /\ \A n \in 1..(a + b) : n <= a <=> n \in 1..a
  BY <1>3
<1>6. \A i \in 1..(a + b) : new[i] = IF i <= a THEN old[i] ELSE items[i - a]
  BY <1>2 DEF a, b
<1>7. \A n \in 1..a : new[n] = old[n] BY <1>5, <1>6
<1>8. \A n \in 1..b : new[n + a] = items[n] BY <1>5, <1>6
<1>9. \A n \in 1..(a + b) : n \notin 1..a => new[n] = items[n - a] BY <1>5, <1>6
<1> QED BY <1>2, <1>3, <1>4, <1>5, <1>7, <1>8, <1>9 DEF a, b

\* A page follows the walk: what was seen lies before it, what was not lies in it
\* or after its last row.
LEMMA PageKeeps ==
  ASSUME WalkInv, NEW limit \in 1..MaxLimit, ListPage(limit)
  PROVE  /\ Placed' /\ Following' /\ Behind' /\ Ahead'
         /\ ListedInOrder' /\ SeenOnce' /\ StepsWithoutGap'
<1> DEFINE page == BuildPage(FindMany(walk.cursor, limit + 1), limit)
           D == DOMAIN rows
<1>1. PICK items, next, cursor, old :
        items = page.items /\ next = page.nextCursor
        /\ cursor = walk.cursor /\ old = walk.seen
  OBVIOUS
<1>2. /\ ~ walk.done /\ UNCHANGED <<listing, now, rows>>
      /\ walk' = [cursor |-> next, seen |-> old \o items, done |-> next = Null]
      /\ Remember
  BY <1>1 DEF ListPage
<1>3. cursor \in D \cup {Null} /\ old \in Seq(D) /\ history \in Histories
  BY <1>1 DEF WalkInv, TypeInv, Walks
<1>4. limit \in Nat \ {0} /\ TypeInv BY BoundsAssumption DEF WalkInv
<1>5. /\ items \in Seq(Listed)
      /\ \A m, n \in 1..Len(items) : m < n => Precedes(items[m], items[n])
      /\ cursor # Null => \A n \in 1..Len(items) : Precedes(cursor, items[n])
      /\ next # Null =>
           Len(items) # 0 /\ next = items[Len(items)] /\ next \in D
      /\ \A i \in Listed :
           cursor = Null \/ (cursor \in Listed /\ Precedes(cursor, i)) =>
             \/ \E n \in 1..Len(items) : items[n] = i
             \/ next # Null /\ Precedes(next, i)
  BY <1>1, <1>3, <1>4, PageFacts
<1>6. items \in Seq(D)
  <2>1. Listed \subseteq D BY DEF Listed
  <2> QED BY <2>1, <1>5, SeqMonotonic
<1>7. PICK new : new = old \o items OBVIOUS
<1>8. /\ walk'.cursor = next /\ walk'.seen = new /\ walk'.done = (next = Null)
      /\ listing' = listing /\ rows' = rows
  BY <1>2, <1>7
<1>9. /\ new \in Seq(D) /\ Len(new) = Len(old) + Len(items)
      /\ DOMAIN new = 1..Len(new) /\ DOMAIN old = 1..Len(old)
      /\ \A n \in 1..Len(old) : n \in 1..Len(new) /\ new[n] = old[n]
      /\ \A n \in 1..Len(items) :
           n + Len(old) \in 1..Len(new) /\ new[n + Len(old)] = items[n]
      /\ \A n \in 1..Len(new) :
           n \in 1..Len(old) \/ n - Len(old) \in 1..Len(items)
      /\ \A n \in 1..Len(new) :
           /\ n \in 1..Len(old) => new[n] = old[n]
           /\ n \notin 1..Len(old) => new[n] = items[n - Len(old)]
  BY <1>3, <1>6, <1>7, SeenGrows
<1>10. Len(old) \in Nat /\ Len(items) \in Nat BY <1>3, <1>6
<1> HIDE DEF page
\* The order is that of before.
<1>11. \A i, j : Precedes(i, j)' <=> Precedes(i, j)
  BY <1>8 DEF Precedes, Descending
<1>12. /\ cursor # Null => old # <<>> /\ cursor = old[Len(old)] /\ Len(old) \in 1..Len(old)
       /\ cursor = Null => old = <<>> /\ history.initial = {}
  <2>1. /\ cursor # Null => old # <<>> /\ cursor = old[Len(old)]
        /\ cursor = Null => old = <<>> /\ history.initial = {}
    BY <1>1, <1>2 DEF WalkInv, Following
  <2>2. old # <<>> => Len(old) \in 1..Len(old) BY <1>3
  <2> QED BY <2>1, <2>2
<1>13. Placed'
  BY <1>2 DEF WalkInv, Placed, Listed
<1>14. next # Null => new # <<>> /\ next = new[Len(new)] /\ Len(new) \in 1..Len(new)
  <2> HAVE next # Null
  <2>1. Len(items) \in 1..Len(items) BY <1>5, <1>10
  <2>2. /\ Len(items) + Len(old) \in 1..Len(new)
        /\ new[Len(items) + Len(old)] = items[Len(items)]
    BY <2>1, <1>9
  <2>3. Len(new) = Len(items) + Len(old) BY <1>9, <1>10
  <2>4. new # <<>> BY <2>2, <2>3, <1>9
  <2> QED BY <2>2, <2>3, <2>4, <1>5
<1>15. Following'
  BY <1>14, <1>8 DEF Following
\* What comes after the cursor comes after all that was seen in order.
<1>16. /\ next # Null => \A n \in 1..Len(items) : items[n] = next \/ Precedes(items[n], next)
       /\ next # Null /\ cursor # Null => Precedes(cursor, next)
  <2>1. next # Null =>
          Len(items) \in 1..Len(items) /\ next = items[Len(items)]
    BY <1>5, <1>10
  <2>2. \A n \in 1..Len(items) : n = Len(items) \/ n < Len(items) BY <1>10
  <2> QED BY <2>1, <2>2, <1>5
<1>17. history'.touched = (IF cursor = Null THEN {} ELSE history.touched)
       /\ history'.moved = (IF cursor = Null THEN FALSE ELSE history.moved)
       /\ history'.initial = (IF cursor = Null THEN Listed ELSE history.initial)
       /\ history'.gone = (IF cursor = Null THEN FALSE ELSE history.gone \/ cursor \notin Listed)
  <2>1. CASE cursor = Null
    BY <2>1, <1>1, <1>2 DEF Remember, Fresh
  <2>2. CASE cursor # Null
    <3>1. history' = [history EXCEPT !.gone = @ \/ cursor \notin Listed]
      BY <2>2, <1>1, <1>2 DEF Remember
    <3> QED BY <2>2, <3>1, <1>3 DEF Histories
  <2> QED BY <2>1, <2>2
<1>18. cursor = Null => Len(old) = 0 BY <1>12
<1>19. \A n \in 1..Len(old) : old[n] \in D BY <1>3
<1>20. \A n \in 1..Len(items) : items[n] \in D BY <1>6
<1>21. cursor # Null /\ ~ history.moved =>
         \A n \in 1..Len(old) :
           old[n] \in history.touched \/ old[n] = cursor \/ Precedes(old[n], cursor)
  BY <1>1, <1>9 DEF WalkInv, Behind
<1>22. Behind'
  <2> SUFFICES ASSUME next # Null, ~ history'.moved, NEW n \in 1..Len(new)
               PROVE  \/ new[n] \in history'.touched
                      \/ new[n] = next
                      \/ Precedes(new[n], next)
    <3>1. \A n \in 1..Len(new) : Precedes(new[n], next)' <=> Precedes(new[n], next)
      BY <1>11
    <3> QED BY <3>1, <1>8, <1>9 DEF Behind, Precedes, Descending
  <2>1. CASE n \in 1..Len(old)
    <3>1. cursor # Null /\ new[n] = old[n] BY <2>1, <1>9, <1>18
    <3>2. ~ history.moved /\ history'.touched = history.touched BY <3>1, <1>17
    <3>3. old[n] \in history.touched \/ old[n] = cursor \/ Precedes(old[n], cursor)
      BY <3>1, <3>2, <2>1, <1>21
    <3>4. Precedes(cursor, next) BY <3>1, <1>16
    <3>5. Precedes(old[n], cursor) => Precedes(old[n], next)
      BY <3>4, <3>1, <2>1, <1>3, <1>4, <1>5, <1>19, PrecedesOrders
    <3> QED BY <3>1, <3>2, <3>3, <3>4, <3>5
  <2>2. CASE n \notin 1..Len(old)
    <3>1. n - Len(old) \in 1..Len(items) /\ new[n] = items[n - Len(old)]
      BY <2>2, <1>9
    <3> QED BY <3>1, <1>16
  <2> QED BY <2>1, <2>2
<1>23. Ahead'
  <2> SUFFICES ASSUME NEW i \in history'.initial \ history'.touched
               PROVE  /\ i \in Listed
                      /\ ~ history'.gone =>
                           \/ \E n \in 1..Len(new) : new[n] = i
                           \/ next # Null /\ Precedes(next, i)
    <3>1. Listed' = Listed BY <1>8 DEF Listed
    <3>2. Seen' = {new[n] : n \in 1..Len(new)} BY <1>8, <1>9 DEF Seen
    <3> QED BY <3>1, <3>2, <1>8, <1>11 DEF Ahead, Precedes, Descending
  <2>1. CASE cursor = Null
    <3>1. i \in Listed BY <2>1, <1>17
    <3>2. \/ \E n \in 1..Len(items) : items[n] = i
          \/ next # Null /\ Precedes(next, i)
      BY <3>1, <2>1, <1>5
    <3> QED BY <3>1, <3>2, <1>9
  <2>2. CASE cursor # Null
    <3>1. i \in history.initial \ history.touched BY <2>2, <1>17
    <3>2. /\ i \in Listed
          /\ ~ history.gone => i \in Seen \/ Precedes(cursor, i)
      BY <3>1, <1>1 DEF WalkInv, Ahead
    <3>3. ~ history'.gone => ~ history.gone /\ cursor \in Listed BY <2>2, <1>17
    <3>4. i \in Seen => \E n \in 1..Len(old) : old[n] = i BY <1>1, <1>9 DEF Seen
    <3>5. cursor \in Listed /\ Precedes(cursor, i) =>
            \/ \E n \in 1..Len(items) : items[n] = i
            \/ next # Null /\ Precedes(next, i)
      BY <3>2, <1>5
    <3>6. (\E n \in 1..Len(old) : old[n] = i) \/ (\E n \in 1..Len(items) : items[n] = i)
            => \E n \in 1..Len(new) : new[n] = i
      BY <1>9
    <3> QED BY <3>2, <3>3, <3>4, <3>5, <3>6
  <2> QED BY <2>1, <2>2
<1>24. ListedInOrder'
  <2> SUFFICES ASSUME listing # "sessions",
                      NEW m \in 1..Len(new), NEW n \in 1..Len(new), m < n
               PROVE  Precedes(new[m], new[n])
    BY <1>8, <1>9 DEF ListedInOrder, Precedes, Descending
  <2>1. \A k, l \in 1..Len(old) : k < l => Precedes(old[k], old[l])
    BY <1>1, <1>9 DEF WalkInv, ListedInOrder
  <2>2. CASE n \in 1..Len(old)
    <3>1. m \in 1..Len(old) BY <2>2, <1>9, <1>10
    <3> QED BY <3>1, <2>1, <2>2, <1>9
  <2>3. CASE m \notin 1..Len(old)
    <3>1. n \notin 1..Len(old) BY <2>3, <1>9, <1>10
    <3>2. m - Len(old) < n - Len(old) BY <1>9, <1>10
    <3> QED BY <3>1, <3>2, <2>3, <1>5, <1>9
  <2>4. CASE m \in 1..Len(old) /\ n \notin 1..Len(old)
    <3>1. cursor # Null /\ new[m] = old[m] BY <2>4, <1>9, <1>18
    <3>2. n - Len(old) \in 1..Len(items) /\ new[n] = items[n - Len(old)] BY <2>4, <1>9
    <3>3. Precedes(cursor, new[n]) BY <3>1, <3>2, <1>5
    <3>4. old[m] = cursor \/ Precedes(old[m], cursor)
      <4>1. m = Len(old) \/ m < Len(old) BY <2>4, <1>10
      <4> QED BY <4>1, <3>1, <2>1, <2>4, <1>12
    <3>5. old[m] \in D /\ new[n] \in D /\ cursor \in D
      BY <2>4, <3>1, <3>2, <1>3, <1>19, <1>20
    <3> QED BY <3>1, <3>3, <3>4, <3>5, <1>4, PrecedesOrders
  <2> QED BY <2>2, <2>3, <2>4
<1>25. SeenOnce'
  <2> SUFFICES ASSUME NEW m \in 1..Len(new), NEW n \in 1..Len(new), m < n,
                      new[m] = new[n], ~ history'.moved
               PROVE  new[m] \in history'.touched
    <3>1. \A m, n \in 1..Len(new) : m # n => m < n \/ n < m BY <1>9, <1>10
    <3> QED BY <3>1, <1>8, <1>9 DEF SeenOnce
  <2>1. CASE n \in 1..Len(old)
    <3>1. m \in 1..Len(old) BY <2>1, <1>9, <1>10
    <3>2. old[m] = old[n] /\ m # n /\ new[m] = old[m] BY <3>1, <2>1, <1>9, <1>10
    <3>3. cursor # Null BY <2>1, <1>18
    <3>4. ~ history.moved /\ history'.touched = history.touched BY <3>3, <1>17
    <3>5. old[m] \in history.touched \/ history.moved
      BY <3>1, <3>2, <2>1, <1>1, <1>9 DEF WalkInv, SeenOnce
    <3> QED BY <3>2, <3>4, <3>5
  <2>2. CASE m \notin 1..Len(old)
    <3>1. n \notin 1..Len(old) BY <2>2, <1>9, <1>10
    <3>2. m - Len(old) < n - Len(old) BY <1>9, <1>10
    <3>3. Precedes(new[m], new[n]) BY <3>1, <3>2, <2>2, <1>5, <1>9
    <3>4. new[m] \in D BY <2>2, <1>9, <1>20
    <3> QED BY <3>3, <3>4, <1>4, PrecedesOrders
  <2>3. CASE m \in 1..Len(old) /\ n \notin 1..Len(old)
    <3>1. cursor # Null /\ new[m] = old[m] BY <2>3, <1>9, <1>18
    <3>2. n - Len(old) \in 1..Len(items) /\ new[n] = items[n - Len(old)] BY <2>3, <1>9
    <3>3. Precedes(cursor, new[n]) BY <3>1, <3>2, <1>5
    <3>4. ~ history.moved /\ history'.touched = history.touched BY <3>1, <1>17
    <3>5. old[m] \in history.touched \/ old[m] = cursor \/ Precedes(old[m], cursor)
      BY <3>1, <3>4, <2>3, <1>21
    <3>6. old[m] \in D /\ cursor \in D BY <2>3, <3>1, <1>3, <1>19
    <3>7. ~ Precedes(cursor, cursor) /\ (Precedes(old[m], cursor) => ~ Precedes(cursor, old[m]))
      BY <3>6, <1>4, PrecedesOrders
    <3> QED BY <3>1, <3>3, <3>4, <3>5, <3>7
  <2> QED BY <2>1, <2>2, <2>3
<1>26. StepsWithoutGap'
  <2> SUFFICES ASSUME listing = "steps", NEW n \in 1..Len(new)
               PROVE  rows[new[n]].key = n - 1
    BY <1>8, <1>9 DEF StepsWithoutGap
  <2>1. \A k \in 1..Len(old) : rows[old[k]].key = k - 1
    BY <1>1, <1>9 DEF WalkInv, StepsWithoutGap
  <2>2. CASE n \in 1..Len(old) BY <2>1, <2>2, <1>9
  <2>3. CASE n \notin 1..Len(old)
    <3> DEFINE first == IF cursor = Null THEN 0 ELSE rows[cursor].key + 1
    <3>1. n - Len(old) \in 1..Len(items) /\ new[n] = items[n - Len(old)] BY <2>3, <1>9
    <3>2. rows[new[n]].key = first + (n - Len(old)) - 1
      <4>1. Placed BY DEF WalkInv
      <4>2. \A k \in 1..Len(items) : rows[items[k]].key = first + k - 1
        BY <4>1, <1>1, <1>3, <1>4, StepsConsecutive DEF page
      <4> HIDE DEF first
      <4> QED BY <4>2, <3>1
    <3>3. first = Len(old)
      <4>1. CASE cursor = Null BY <4>1, <1>18
      <4>2. CASE cursor # Null
        <5>1. rows[cursor].key = Len(old) - 1 BY <4>2, <2>1, <1>12
        <5> QED BY <4>2, <5>1, <1>10
      <4> QED BY <4>1, <4>2
    <3> HIDE DEF first
    <3> QED BY <3>2, <3>3, <1>9, <1>10
  <2> QED BY <2>2, <2>3
<1> QED BY <1>13, <1>15, <1>22, <1>23, <1>24, <1>25, <1>26

\* What is inserted between two pages disturbs neither the walk nor its order.
LEMMA InsertKeeps ==
  ASSUME WalkInv, NEW id \in Ids, Insert(id) \/ AppendStep(id)
  PROVE  /\ Placed' /\ Following' /\ Behind' /\ Ahead'
         /\ ListedInOrder' /\ SeenOnce' /\ StepsWithoutGap'
<1> DEFINE D == DOMAIN rows
           N == Cardinality(D)
<1>1. /\ UNCHANGED <<listing, now, walk, history>> /\ id \in Ids \ D
  BY DEF Insert, AppendStep
<1>2. TypeInv BY DEF WalkInv
<1>3. N \in Nat /\ IsFiniteSet(D) BY <1>2, RowsFinite
<1>4. now \in Nat BY <1>2, BoundsAssumption DEF TypeInv
<1>5. PICK key \in Nat :
        /\ rows' = WithRow(id, [key |-> key, listed |-> TRUE])
        /\ listing = "steps" => key = N
        /\ listing # "steps" => key <= now
  <2>1. CASE Insert(id)
    <3>1. PICK time \in {now - 1, now} \cap Nat :
            rows' = WithRow(id, [key |-> time, listed |-> TRUE])
      BY <2>1 DEF Insert
    <3>2. listing # "steps" BY <2>1 DEF Insert
    <3>3. time \in Nat /\ time <= now BY <1>4
    <3> QED BY <3>1, <3>2, <3>3
  <2>2. CASE AppendStep(id) BY <2>2, <1>3 DEF AppendStep
  <2> QED BY <2>1, <2>2
<1>6. /\ DOMAIN rows' = D \cup {id}
      /\ \A i \in D : rows'[i] = rows[i]
      /\ rows'[id] = [key |-> key, listed |-> TRUE]
      /\ Listed' = Listed \cup {id}
  BY <1>1, <1>2, <1>5, RowAdded
<1>7. rows'[id].key = key BY <1>6
<1>8. \A i, j \in D : Precedes(i, j)' <=> Precedes(i, j)
  BY <1>1, <1>6 DEF Precedes, Descending
<1>9. /\ walk.cursor \in D \cup {Null} /\ walk.seen \in Seq(D)
      /\ history.initial \in SUBSET D
  BY <1>2 DEF TypeInv, Walks, Histories
<1>10. \A n \in DOMAIN walk.seen : walk.seen[n] \in D BY <1>9
<1>11. \A i \in D : rows[i].key \in Nat BY <1>2 DEF TypeInv, Rows
<1>12. Placed'
  <2>1. listing' # "steps" => \A i \in DOMAIN rows' : rows'[i].key <= now'
    BY <1>1, <1>5, <1>6, <1>7 DEF WalkInv, Placed
  <2>2. ASSUME listing = "steps"
        PROVE  /\ \A i \in DOMAIN rows' : rows'[i].key < Cardinality(DOMAIN rows')
               /\ \A i, j \in DOMAIN rows' : rows'[i].key = rows'[j].key => i = j
               /\ \A k \in 0..(Cardinality(DOMAIN rows') - 1) :
                    \E i \in DOMAIN rows' : rows'[i].key = k
    <3>1. Cardinality(DOMAIN rows') = N + 1 BY <1>1, <1>3, <1>6, FS_AddElement
    <3>2. /\ \A i \in D : rows[i].key < N
          /\ \A i, j \in D : rows[i].key = rows[j].key => i = j
          /\ \A k \in 0..(N - 1) : \E i \in D : rows[i].key = k
      BY <2>2 DEF WalkInv, Placed
    <3>3. \A i \in D : rows'[i].key = rows[i].key BY <1>6
    <3>4. rows'[id].key = N BY <1>5, <1>7, <2>2
    <3> HIDE DEF D, N
    <3>5. \A i \in D \cup {id} : rows'[i].key < N + 1
      BY <3>2, <3>3, <3>4, <1>3, <1>11
    <3>6. ASSUME NEW i \in D \cup {id}, NEW j \in D \cup {id}, rows'[i].key = rows'[j].key
          PROVE  i = j
      BY <3>2, <3>3, <3>4, <3>6, <1>3, <1>11
    <3>7. ASSUME NEW k \in 0..N PROVE \E i \in D \cup {id} : rows'[i].key = k
      <4>1. CASE k = N BY <4>1, <3>4
      <4>2. CASE k # N
        <5>1. k \in 0..(N - 1) BY <4>2, <1>3
        <5> QED BY <5>1, <3>2, <3>3
      <4> QED BY <4>1, <4>2
    <3>8. Cardinality(DOMAIN rows') - 1 = N BY <3>1, <1>3
    <3>9. \A i \in DOMAIN rows' : rows'[i].key < Cardinality(DOMAIN rows')
      BY <3>1, <3>5, <1>6
    <3>10. \A i, j \in DOMAIN rows' : rows'[i].key = rows'[j].key => i = j
      BY <3>6, <1>6
    <3>11. \A k \in 0..(Cardinality(DOMAIN rows') - 1) :
             \E i \in DOMAIN rows' : rows'[i].key = k
      BY <3>7, <3>8, <1>6
    <3> QED BY <3>9, <3>10, <3>11
  <2>3. listing # "sessions" => Listed' = DOMAIN rows'
    BY <1>6 DEF WalkInv, Placed
  <2> QED BY <2>1, <2>2, <2>3, <1>1 DEF Placed
<1>13. Following' BY <1>1 DEF WalkInv, Following
<1>14. Behind'
  <2> SUFFICES ASSUME walk.cursor # Null, ~ history.moved, NEW n \in DOMAIN walk.seen
               PROVE  \/ walk.seen[n] \in history.touched
                      \/ walk.seen[n] = walk.cursor
                      \/ Precedes(walk.seen[n], walk.cursor)
    <3>1. walk.cursor # Null =>
            \A n \in DOMAIN walk.seen :
              /\ rows'[walk.seen[n]] = rows[walk.seen[n]]
              /\ rows'[walk.cursor] = rows[walk.cursor]
      BY <1>6, <1>9, <1>10
    <3> QED BY <3>1, <1>1 DEF Behind, Precedes, Descending
  <2> QED BY DEF WalkInv, Behind
<1>15. Ahead'
  <2>1. \A i \in history.initial : rows'[i] = rows[i] BY <1>6, <1>9
  <2>2. walk.cursor # Null => rows'[walk.cursor] = rows[walk.cursor] BY <1>6, <1>9
  <2>3. Seen' = Seen BY <1>1 DEF Seen
  <2> SUFFICES ASSUME NEW i \in history.initial \ history.touched
               PROVE  /\ i \in Listed'
                      /\ ~ history.gone =>
                           \/ i \in Seen
                           \/ walk.cursor # Null /\ Precedes(walk.cursor, i)
    BY <1>1, <2>1, <2>2, <2>3 DEF Ahead, Precedes, Descending
  <2> QED BY <1>6 DEF WalkInv, Ahead
<1>16. ListedInOrder'
  <2>1. \A n \in DOMAIN walk.seen : rows'[walk.seen[n]] = rows[walk.seen[n]]
    BY <1>6, <1>10
  <2>2. ListedInOrder BY DEF WalkInv
  <2> QED BY <1>1, <2>1, <2>2 DEF ListedInOrder, Precedes, Descending
<1>17. SeenOnce' BY <1>1 DEF WalkInv, SeenOnce
<1>18. StepsWithoutGap'
  <2>1. \A n \in DOMAIN walk.seen : rows'[walk.seen[n]] = rows[walk.seen[n]]
    BY <1>6, <1>10
  <2> QED BY <1>1, <2>1 DEF WalkInv, StepsWithoutGap
<1> QED BY <1>12, <1>13, <1>14, <1>15, <1>16, <1>17, <1>18

\* An updated session moves to the head of the listing: what lies after the cursor
\* stays there, and a row that moves is remembered as touched.
LEMMA UpdateKeeps ==
  ASSUME WalkInv, NEW id \in Ids, UpdateSession(id)
  PROVE  /\ Placed' /\ Following' /\ Behind' /\ Ahead'
         /\ ListedInOrder' /\ SeenOnce' /\ StepsWithoutGap'
<1> DEFINE D == DOMAIN rows
<1>1. /\ UNCHANGED <<listing, now, walk>> /\ id \in D /\ listing = "sessions"
      /\ history' = [history EXCEPT !.touched = @ \cup {id},
                                    !.moved = @ \/ id = walk.cursor]
  BY DEF UpdateSession
<1>2. TypeInv BY DEF WalkInv
<1>3. /\ DOMAIN rows' = D
      /\ \A i \in D \ {id} : rows'[i] = rows[i]
      /\ rows'[id].key = now
  BY <1>2, UpdateTypes
<1>4. /\ walk.cursor \in D \cup {Null} /\ walk.seen \in Seq(D)
      /\ history.initial \in SUBSET D
      /\ history \in Histories
  BY <1>2 DEF TypeInv, Walks, Histories
<1>5. /\ history'.initial = history.initial /\ history'.gone = history.gone
      /\ history'.touched = history.touched \cup {id}
      /\ history'.moved = (history.moved \/ id = walk.cursor)
  BY <1>1, <1>4 DEF Histories
<1>6. \A n \in DOMAIN walk.seen : walk.seen[n] \in D BY <1>4
<1>7. now \in Nat /\ \A i \in D : rows[i].key \in Nat /\ rows[i].key <= now
  BY <1>1, <1>2, BoundsAssumption DEF WalkInv, Placed, TypeInv, Rows
<1>8. Placed' BY <1>1, <1>3, <1>7 DEF Placed
<1>9. Following' BY <1>1, <1>5 DEF WalkInv, Following
<1>10. Behind'
  <2> SUFFICES ASSUME walk.cursor # Null, ~ history.moved, id # walk.cursor,
                      NEW n \in DOMAIN walk.seen
               PROVE  \/ walk.seen[n] \in history.touched
                      \/ walk.seen[n] = walk.cursor
                      \/ Precedes(walk.seen[n], walk.cursor)
    <3>1. walk.cursor # Null /\ id # walk.cursor =>
            rows'[walk.cursor] = rows[walk.cursor]
      BY <1>3, <1>4
    <3>2. \A n \in DOMAIN walk.seen :
            walk.seen[n] = id \/ rows'[walk.seen[n]] = rows[walk.seen[n]]
      BY <1>3, <1>6
    <3> QED BY <3>1, <3>2, <1>1, <1>5 DEF Behind, Precedes, Descending
  <2> QED BY DEF WalkInv, Behind
<1>11. Ahead'
  <2>1. Seen' = Seen BY <1>1 DEF Seen
  <2>2. PICK cursor : cursor = walk.cursor OBVIOUS
  <2>3. ASSUME NEW i \in D \ {id}, cursor # Null, Precedes(cursor, i)
        PROVE  Precedes(cursor, i)'
    <3>1. Descending /\ Descending' BY <1>1 DEF Descending
    <3>2. rows'[i] = rows[i] /\ rows[i].key \in Nat BY <1>3, <1>7, <2>3
    <3>3. cursor \in D BY <2>2, <2>3, <1>4
    <3>4. rows'[cursor].key >= rows[cursor].key /\ rows'[cursor].key \in Nat
      <4>1. CASE cursor = id BY <4>1, <1>1, <1>3, <1>7
      <4>2. CASE cursor # id BY <4>2, <3>3, <1>3, <1>7
      <4> QED BY <4>1, <4>2
    <3>5. rows[cursor].key \in Nat BY <3>3, <1>7
    <3>6. rows[cursor].key > rows[i].key \/ (rows[cursor].key = rows[i].key /\ cursor > i)
      BY <2>3, <3>1 DEF Precedes
    <3>7. rows'[cursor].key > rows'[i].key \/ (rows'[cursor].key = rows'[i].key /\ cursor > i)
      BY <3>2, <3>4, <3>5, <3>6
    <3> QED BY <3>1, <3>7 DEF Precedes
  <2> SUFFICES ASSUME NEW i \in (history.initial \ history.touched) \ {id}
               PROVE  /\ i \in Listed'
                      /\ ~ history.gone =>
                           \/ i \in Seen
                           \/ cursor # Null /\ Precedes(cursor, i)'
    BY <1>1, <1>5, <2>1, <2>2 DEF Ahead, Precedes, Descending
  <2>4. /\ i \in Listed
        /\ ~ history.gone => i \in Seen \/ (cursor # Null /\ Precedes(cursor, i))
    BY <2>2 DEF WalkInv, Ahead
  <2>5. i \in D \ {id} /\ i \in Listed' BY <2>4, <1>3 DEF Listed
  <2> QED BY <2>3, <2>4, <2>5
<1>12. ListedInOrder' BY <1>1 DEF ListedInOrder
<1>13. SeenOnce'
  <2>1. SeenOnce BY DEF WalkInv
  <2> QED BY <2>1, <1>1, <1>5 DEF SeenOnce
<1>14. StepsWithoutGap' BY <1>1 DEF StepsWithoutGap
<1> QED BY <1>8, <1>9, <1>10, <1>11, <1>12, <1>13, <1>14

LEMMA TickKeeps ==
  ASSUME WalkInv, Tick
  PROVE  /\ Placed' /\ Following' /\ Behind' /\ Ahead'
         /\ ListedInOrder' /\ SeenOnce' /\ StepsWithoutGap'
<1>1. /\ UNCHANGED <<listing, rows, walk, history>>
      /\ now \in Nat /\ now' = now + 1
      /\ \A i \in DOMAIN rows : rows[i].key \in Nat
  BY BoundsAssumption DEF Tick, WalkInv, TypeInv, Rows
<1>2. Placed'
  <2>1. Listed' = Listed BY <1>1 DEF Listed
  <2>2. Placed BY DEF WalkInv
  <2>3. listing # "steps" => \A i \in DOMAIN rows : rows[i].key <= now + 1
    BY <2>2, <1>1 DEF Placed
  <2> QED BY <2>1, <2>2, <2>3, <1>1 DEF Placed
<1>3. Following' /\ Behind' /\ Ahead'
  BY <1>1 DEF WalkInv, Following, Behind, Ahead, Precedes, Descending, Listed, Seen
<1>4. ListedInOrder' /\ SeenOnce' /\ StepsWithoutGap'
  BY <1>1 DEF WalkInv, ListedInOrder, SeenOnce, StepsWithoutGap, Precedes, Descending
<1> QED BY <1>2, <1>3, <1>4

LEMMA StepsKeepWalk == WalkInv /\ [Next]_vars => WalkInv'
<1> SUFFICES ASSUME WalkInv, [Next]_vars PROVE WalkInv'
  OBVIOUS
<1>1. TypeInv' BY StepsKeepType DEF WalkInv
<1>2. CASE UNCHANGED vars
  <2>1. UNCHANGED <<listing, now, rows, walk, history>> BY <1>2 DEF vars
  <2>2. Placed' BY <2>1 DEF WalkInv, Placed, Listed
  <2>3. Following' /\ Behind' /\ Ahead'
    BY <2>1 DEF WalkInv, Following, Behind, Ahead, Precedes, Descending, Listed, Seen
  <2>4. ListedInOrder' /\ SeenOnce' /\ StepsWithoutGap'
    BY <2>1 DEF WalkInv, ListedInOrder, SeenOnce, StepsWithoutGap, Precedes, Descending
  <2> QED BY <1>1, <2>2, <2>3, <2>4 DEF WalkInv
<1>3. CASE Tick BY <1>1, <1>3, TickKeeps DEF WalkInv
<1>4. ASSUME NEW limit \in 1..MaxLimit, ListPage(limit) PROVE WalkInv'
  BY <1>1, <1>4, PageKeeps DEF WalkInv
<1>5. ASSUME NEW id \in Ids, Insert(id) \/ AppendStep(id) PROVE WalkInv'
  BY <1>1, <1>5, InsertKeeps DEF WalkInv
<1>6. ASSUME NEW id \in Ids, UpdateSession(id) PROVE WalkInv'
  BY <1>1, <1>6, UpdateKeeps DEF WalkInv
<1> QED BY <1>2, <1>3, <1>4, <1>5, <1>6 DEF Next

LEMMA WalkStarts == Init => WalkInv
<1> SUFFICES ASSUME Init PROVE WalkInv
  OBVIOUS
<1>1. /\ rows = [i \in {} |-> [key |-> 0, listed |-> TRUE]] /\ DOMAIN rows = {}
      /\ walk.cursor = Null /\ walk.seen = <<>> /\ walk.done = FALSE
      /\ history.initial = {}
  BY DEF Init, Fresh
<1>2. DOMAIN walk.seen = {} BY <1>1
<1>3. TypeInv
  <2>1. <<>> \in Seq({}) BY EmptySeq
  <2>2. rows \in [DOMAIN rows -> Rows] BY <1>1
  <2>3. walk \in Walks BY <2>1, <1>1 DEF Init, Walks
  <2>4. history \in Histories BY <1>1 DEF Init, Histories, Fresh
  <2> QED BY <1>1, <2>2, <2>3, <2>4, BoundsAssumption DEF Init, TypeInv
<1>4. Placed
  <2>1. Cardinality(DOMAIN rows) = 0 BY <1>1, FS_EmptySet
  <2>2. 0..(Cardinality(DOMAIN rows) - 1) = {} BY <2>1
  <2>3. Listed = {} BY <1>1 DEF Listed
  <2> QED BY <1>1, <2>2, <2>3 DEF Placed
<1>5. Following /\ Behind /\ Ahead BY <1>1 DEF Following, Behind, Ahead
<1>6. ListedInOrder /\ SeenOnce /\ StepsWithoutGap
  BY <1>2 DEF ListedInOrder, SeenOnce, StepsWithoutGap
<1> QED BY <1>3, <1>4, <1>5, <1>6 DEF WalkInv

LEMMA WalkInvariant == Spec => []WalkInv
BY WalkStarts, StepsKeepWalk, PTL DEF Spec

-----------------------------------------------------------------------------
(* The theorems                                                            *)

\* Messages, runs and steps are given in the listing's order and never twice, with
\* pages of any sizes and whatever is inserted between two of them.
THEOREM ListedOnceInOrder == Spec => []ListedInOrder
<1>1. WalkInv => ListedInOrder BY DEF WalkInv
<1> QED BY <1>1, WalkInvariant, PTL

\* A client that has walked to the end has seen every row that was there from the
\* start and was left alone, unless the row of a cursor had left the listing.
THEOREM NoRowMissed == Spec => []NothingMissed
<1>1. WalkInv => NothingMissed
  BY DEF WalkInv, Following, Ahead, NothingMissed
<1> QED BY <1>1, WalkInvariant, PTL

\* An untouched row is given twice only if the session of a cursor was updated
\* before the page that followed it.
THEOREM NoRowTwice == Spec => []SeenOnce
<1>1. WalkInv => SeenOnce BY DEF WalkInv
<1> QED BY <1>1, WalkInvariant, PTL

\* The steps of a run are seen from the first on with no gap, while they are written.
THEOREM TranscriptWithoutGap == Spec => []StepsWithoutGap
<1>1. WalkInv => StepsWithoutGap BY DEF WalkInv
<1> QED BY <1>1, WalkInvariant, PTL

==============================================================================
