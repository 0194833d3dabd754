----------------------------- MODULE ToolsProofs ------------------------------
(***************************************************************************)
(* Paths, outputs and files of the tools, for paths and texts of any length *)
(* and any limit.                                                           *)
(*                                                                         *)
(* Normalize, Resolve and Bytes fold a sequence, and the induction that     *)
(* their proofs need is made here: SetInduction for sets of naturals,       *)
(* FoldExists and FoldAppends for folds whose operation is given as a       *)
(* function.                                                                *)
(***************************************************************************)
EXTENDS Tools, FiniteSetTheorems, SequenceTheorems, TLAPS

-----------------------------------------------------------------------------
(* Induction                                                               *)

\* If n were the first that is left out, the successor would map what lies before
\* it into itself without 0.
LEMMA SetInduction ==
  ASSUME NEW S, 0 \in S, \A n \in Nat : n \in S => n + 1 \in S
  PROVE  \A n \in Nat : n \in S
<1> SUFFICES ASSUME NEW n \in Nat, n \notin S PROVE FALSE
  OBVIOUS
<1> DEFINE T == (0..n) \cap S
           next == [t \in T |-> t + 1]
<1>1. IsFiniteSet(T)
  <2>1. IsFiniteSet(0..n) BY FS_Interval
  <2> QED BY <2>1, FS_Intersection
<1>2. 0 \in T OBVIOUS
<1>3. next \in [T -> T \ {0}]
  <2>1. ASSUME NEW t \in T PROVE t + 1 \in T \ {0}
    <3>1. t \in Nat /\ t <= n /\ t \in S /\ t # n OBVIOUS
    <3>2. t + 1 \in S /\ t + 1 \in 0..n BY <3>1
    <3> QED BY <3>1, <3>2
  <2> QED BY <2>1
<1>4. IsFiniteSet(T \ {0}) /\ Cardinality(T \ {0}) = Cardinality(T) - 1
  BY <1>1, <1>2, FS_RemoveElement
<1>5. Cardinality(T) \in Nat BY <1>1, FS_CardinalityType
<1>6. PICK x, y \in T : x # y /\ next[x] = next[y]
  <2> HIDE DEF T, next
  <2>1. Cardinality(T \ {0}) < Cardinality(T) BY <1>4, <1>5
  <2> QED BY <2>1, <1>1, <1>3, <1>4, FS_PigeonHole
<1> QED BY <1>6

LEMMA UpToInduction ==
  ASSUME NEW S, NEW m \in Nat, 0 \in S, \A n \in 0..(m - 1) : n \in S => n + 1 \in S
  PROVE  \A n \in 0..m : n \in S
<1> DEFINE R == {n \in Nat : n <= m => n \in S}
<1>1. 0 \in R OBVIOUS
<1>2. \A n \in Nat : n \in R => n + 1 \in R OBVIOUS
<1>3. \A n \in Nat : n \in R
  <2> HIDE DEF R
  <2> QED BY <1>1, <1>2, SetInduction
<1> QED BY <1>3

-----------------------------------------------------------------------------
(* Folds                                                                   *)

LEMMA LastOfInterval ==
  ASSUME NEW n \in Nat
  PROVE  /\ Max(1..(n + 1)) = n + 1
         /\ (1..(n + 1)) \ {n + 1} = 1..n
         /\ 1..(n + 1) # {}
<1>1. n + 1 \in 1..(n + 1) /\ \A y \in 1..(n + 1) : n + 1 >= y OBVIOUS
<1>2. \A x \in 1..(n + 1) : (\A y \in 1..(n + 1) : x >= y) => x = n + 1 BY <1>1
<1>3. Max(1..(n + 1)) = n + 1 BY <1>1, <1>2 DEF Max
<1> QED BY <1>1, <1>3

LEMMA MaxOfIndices ==
  ASSUME NEW n \in Nat, NEW s \in SUBSET (1..n), s # {}
  PROVE  Max(s) \in s
<1> DEFINE Bounded == {m \in 0..n :
                        \A r \in SUBSET (1..m) : r # {} => \E x \in r : \A y \in r : x >= y}
<1>1. 0 \in Bounded
  <2>1. 1..0 = {} OBVIOUS
  <2>2. \A r \in SUBSET (1..0) : r = {} BY <2>1
  <2>3. 0 \in 0..n OBVIOUS
  <2> QED BY <2>2, <2>3
<1>2. ASSUME NEW m \in 0..(n - 1), m \in Bounded PROVE m + 1 \in Bounded
  <2>1. m \in Nat /\ m + 1 \in 0..n OBVIOUS
  <2>2. ASSUME NEW r \in SUBSET (1..(m + 1)), r # {}
        PROVE  \E x \in r : \A y \in r : x >= y
    <3>1. CASE m + 1 \in r BY <3>1, <2>1
    <3>2. CASE m + 1 \notin r
      <4>1. r \in SUBSET (1..m) BY <3>2, <2>1
      <4> QED BY <4>1, <1>2, <2>2
    <3> QED BY <3>1, <3>2
  <2> QED BY <2>1, <2>2
<1>3. n \in Bounded
  <2> HIDE DEF Bounded
  <2>1. \A m \in 0..(n - 1) : m \in Bounded => m + 1 \in Bounded BY <1>2
  <2>2. \A m \in 0..n : m \in Bounded BY <2>1, <1>1, UpToInduction
  <2> QED BY <2>2
<1>4. \E x \in s : \A y \in s : x >= y BY <1>3
<1> QED BY <1>4 DEF Max

\* g folds step over the elements of q, the one with the highest index last.
FoldsSets(base, step, q, n, g) ==
  \A s \in SUBSET (1..n) :
    g[s] = IF s = {} THEN base ELSE step[<<g[s \ {Max(s)}], q[Max(s)]>>]

LEMMA FoldExists ==
  ASSUME NEW T, NEW U, NEW base \in T, NEW step \in [T \X U -> T], NEW q \in Seq(U)
  PROVE  \E g \in [SUBSET (1..Len(q)) -> T] : FoldsSets(base, step, q, Len(q), g)
<1> DEFINE L == Len(q)
           Done == {n \in 0..L :
                     \E g \in [SUBSET (1..n) -> T] : FoldsSets(base, step, q, n, g)}
<1>1. L \in Nat OBVIOUS
<1>2. 0 \in Done
  <2> DEFINE g == [s \in SUBSET (1..0) |-> base]
  <2>1. g \in [SUBSET (1..0) -> T] OBVIOUS
  <2>2. FoldsSets(base, step, q, 0, g) BY DEF FoldsSets
  <2>3. 0 \in 0..L BY <1>1
  <2> QED BY <2>1, <2>2, <2>3
<1>3. ASSUME NEW n \in 0..(L - 1), n \in Done PROVE n + 1 \in Done
  <2>1. n \in Nat /\ n + 1 \in 1..L /\ n + 1 \in 0..L BY <1>1
  <2>2. PICK g \in [SUBSET (1..n) -> T] : FoldsSets(base, step, q, n, g) BY <1>3
  <2> DEFINE m == n + 1
             h == [s \in SUBSET (1..m) |->
                    IF m \in s THEN step[<<g[s \ {m}], q[m]>>] ELSE g[s]]
  <2>3. q[m] \in U BY <2>1
  <2>4. \A s \in SUBSET (1..m) :
          /\ m \notin s => s \in SUBSET (1..n)
          /\ s \ {m} \in SUBSET (1..n)
    BY <2>1
  <2>5. h \in [SUBSET (1..m) -> T]
    <3>1. ASSUME NEW s \in SUBSET (1..m)
          PROVE  (IF m \in s THEN step[<<g[s \ {m}], q[m]>>] ELSE g[s]) \in T
      <4>1. g[s \ {m}] \in T /\ (m \notin s => g[s] \in T) BY <2>4, <2>2
      <4> HIDE DEF m
      <4>2. step[<<g[s \ {m}], q[m]>>] \in T BY <4>1, <2>3
      <4> QED BY <4>1, <4>2
    <3> QED BY <3>1
  <2>6. ASSUME NEW s \in SUBSET (1..m)
        PROVE  h[s] = IF s = {} THEN base ELSE step[<<h[s \ {Max(s)}], q[Max(s)]>>]
    <3>1. CASE m \in s
      <4>1. m \in s /\ \A y \in s : m >= y BY <3>1, <2>1
      <4>2. \A x \in s : (\A y \in s : x >= y) => x = m BY <4>1, <2>1
      <4>3. Max(s) = m
        <5> HIDE DEF m
        <5> QED BY <4>1, <4>2 DEF Max
      <4>4. s \ {m} \in SUBSET (1..m) /\ h[s \ {m}] = g[s \ {m}] OBVIOUS
      <4>5. h[s] = step[<<g[s \ {m}], q[m]>>] BY <3>1
      <4>6. s # {} BY <3>1
      <4> HIDE DEF h, m
      <4> QED BY <4>3, <4>4, <4>5, <4>6
    <3>2. CASE m \notin s
      <4>1. s \in SUBSET (1..n) /\ h[s] = g[s] BY <2>4, <3>2
      <4>2. g[s] = IF s = {} THEN base ELSE step[<<g[s \ {Max(s)}], q[Max(s)]>>]
        BY <4>1, <2>2 DEF FoldsSets
      <4>3. s \ {Max(s)} \in SUBSET (1..m) /\ m \notin s \ {Max(s)} BY <3>2
      <4>4. h[s \ {Max(s)}] = g[s \ {Max(s)}] BY <4>3
      <4> HIDE DEF h, m
      <4> QED BY <4>1, <4>2, <4>4
    <3> QED BY <3>1, <3>2
  <2>7. FoldsSets(base, step, q, m, h)
    <3> HIDE DEF h, m
    <3> QED BY <2>6 DEF FoldsSets
  <2> QED
    <3> HIDE DEF h
    <3> QED BY <2>1, <2>5, <2>7
<1>4. L \in Done
  <2> HIDE DEF Done
  <2>1. 0 \in Done /\ \A n \in 0..(L - 1) : n \in Done => n + 1 \in Done
    BY <1>2, <1>3
  <2>2. \A n \in 0..L : n \in Done BY <2>1, <1>1, UpToInduction
  <2>3. L \in 0..L BY <1>1
  <2> QED BY <2>2, <2>3
<1> QED BY <1>4

\* What every function that folds step over the first elements of q has in common.
FoldsUpTo(T, base, step, q, h) ==
  /\ h[{}] = base
  /\ \A k \in 0..(Len(q) - 1) :
       h[1..k] \in T => h[1..(k + 1)] = step[<<h[1..k], q[k + 1]>>]

Steps(T, U) == [T \X U -> T]

Appended(q, x, u) == u = Append(q, x)

\* One more element is one more step.
LEMMA FoldAppends ==
  ASSUME NEW T, NEW U, NEW base \in T, NEW step \in Steps(T, U),
         NEW q \in Seq(U), NEW x \in U, NEW u, Appended(q, x, u), NEW a, NEW b,
         FoldsUpTo(T, base, step, q, a), FoldsUpTo(T, base, step, u, b)
  PROVE  /\ a[DOMAIN q] \in T
         /\ b[DOMAIN u] = step[<<a[DOMAIN q], x>>]
<1> DEFINE L == Len(q)
           Same == {k \in 0..L : a[1..k] \in T /\ a[1..k] = b[1..k]}
<1>1. L \in Nat /\ Len(u) = L + 1 /\ u \in Seq(U) BY DEF Appended
<1>2. /\ DOMAIN q = 1..L /\ DOMAIN u = 1..(L + 1)
      /\ \A k \in 1..L : u[k] = q[k]
      /\ u[L + 1] = x
  BY DEF Appended
<1>3. (\A k \in 1..L : q[k] \in U) /\ step \in [T \X U -> T] BY DEF Steps
<1> HIDE DEF L
<1>4. /\ a[{}] = base /\ b[{}] = base
      /\ \A k \in 0..(L - 1) :
           a[1..k] \in T => a[1..(k + 1)] = step[<<a[1..k], q[k + 1]>>]
      /\ \A k \in 0..L : b[1..k] \in T => b[1..(k + 1)] = step[<<b[1..k], u[k + 1]>>]
  <2>1. (L + 1) - 1 = L BY <1>1
  <2> QED BY <2>1, <1>1 DEF FoldsUpTo, L
<1>5. 0 \in Same
  <2>1. 1..0 = {} OBVIOUS
  <2> QED BY <2>1, <1>1, <1>4
<1>6. ASSUME NEW k \in 0..(L - 1), k \in Same PROVE k + 1 \in Same
  <2>1. k + 1 \in 1..L /\ k \in 0..L /\ k + 1 \in 0..L BY <1>1
  <2>2. a[1..k] \in T /\ a[1..k] = b[1..k] BY <1>6
  <2>3. a[1..(k + 1)] = step[<<a[1..k], q[k + 1]>>] BY <2>2, <1>4
  <2>4. b[1..(k + 1)] = step[<<b[1..k], u[k + 1]>>] BY <2>1, <2>2, <1>4
  <2>5. u[k + 1] = q[k + 1] /\ q[k + 1] \in U BY <2>1, <1>2, <1>3
  <2>6. a[1..(k + 1)] \in T BY <2>2, <2>3, <2>5, <1>3
  <2> QED BY <2>1, <2>2, <2>3, <2>4, <2>5, <2>6
<1>7. L \in Same
  <2> HIDE DEF Same
  <2>1. 0 \in Same /\ \A k \in 0..(L - 1) : k \in Same => k + 1 \in Same
    BY <1>5, <1>6
  <2>2. \A k \in 0..L : k \in Same BY <2>1, <1>1, UpToInduction
  <2>3. L \in 0..L BY <1>1
  <2> QED BY <2>2, <2>3
<1>8. b[1..(L + 1)] = step[<<b[1..L], u[L + 1]>>] BY <1>1, <1>4, <1>7
<1> QED BY <1>2, <1>7, <1>8

-----------------------------------------------------------------------------
(* Resolve, one segment at a time                                          *)

Paths == Seq(Segments)

EnterStep == [z \in Paths \X Segments |-> Enter(z[1], z[2])]

\* The function that Resolve takes its result from.
Entered(p, q) ==
  CHOOSE g : g = [s \in SUBSET DOMAIN q |->
                    IF s = {} THEN p ELSE Enter(g[s \ {Max(s)}], q[Max(s)])]

LEMMA FrontOfPath ==
  ASSUME NEW S, NEW p \in Seq(S), p # <<>>
  PROVE  /\ Front(p) \in Seq(S) /\ Last(p) \in S
         /\ Len(Front(p)) = Len(p) - 1 /\ Len(p) \in Nat \ {0}
         /\ \A i \in 1..Len(Front(p)) : Front(p)[i] = p[i]
         /\ p = Append(Front(p), Last(p))
<1>1. Len(p) \in Nat \ {0} /\ \A i \in 1..Len(p) : p[i] \in S BY EmptySeq
<1>2. Front(p) \in Seq(S) /\ Len(Front(p)) = Len(p) - 1
      /\ \A i \in 1..(Len(p) - 1) : Front(p)[i] = p[i]
  <2>1. \A i \in 1..(Len(p) - 1) : p[i] \in S BY <1>1
  <2>2. /\ SubSeq(p, 1, Len(p) - 1) \in Seq(S)
        /\ Len(SubSeq(p, 1, Len(p) - 1)) =
             IF 1 <= Len(p) - 1 THEN (Len(p) - 1) - 1 + 1 ELSE 0
        /\ \A i \in 1..((Len(p) - 1) - 1 + 1) :
             SubSeq(p, 1, Len(p) - 1)[i] = p[1 + i - 1]
    BY <2>1, <1>1, SubSeqProperties
  <2>3. (Len(p) - 1) - 1 + 1 = Len(p) - 1 /\ \A i \in 1..(Len(p) - 1) : 1 + i - 1 = i
    BY <1>1
  <2> QED BY <2>2, <2>3, <1>1 DEF Front
<1>3. p = Append(Front(p), Last(p))
  <2>1. Append(Front(p), Last(p)) \in Seq(S) BY <1>1, <1>2 DEF Last
  <2>2. Len(Append(Front(p), Last(p))) = Len(p) BY <1>1, <1>2
  <2>3. \A i \in 1..Len(p) : Append(Front(p), Last(p))[i] = p[i]
    <3> TAKE i \in 1..Len(p)
    <3>1. CASE i = Len(p) BY <3>1, <1>1, <1>2 DEF Last
    <3>2. CASE i # Len(p)
      <4>1. i \in 1..(Len(p) - 1) /\ i \in 1..Len(Front(p)) BY <3>2, <1>1, <1>2
      <4>2. Append(Front(p), Last(p))[i] = Front(p)[i] BY <4>1, <1>2
      <4> QED BY <4>1, <4>2, <1>2
    <3> QED BY <3>1, <3>2
  <2> QED BY <2>1, <2>2, <2>3, SeqEqual
<1> QED BY <1>1, <1>2, <1>3 DEF Last

\* Appending and taking the last away.
LEMMA FrontOfAppend ==
  ASSUME NEW S, NEW p \in Seq(S), NEW x \in S
  PROVE  /\ Front(Append(p, x)) = p /\ Last(Append(p, x)) = x
         /\ Append(p, x) \in Seq(S) /\ Append(p, x) # <<>>
<1> DEFINE u == Append(p, x)
<1>1. u \in Seq(S) /\ Len(u) = Len(p) + 1 /\ Len(p) \in Nat
      /\ u[Len(p) + 1] = x /\ \A i \in 1..Len(p) : u[i] = p[i]
  OBVIOUS
<1> HIDE DEF u
<1>2. u # <<>> BY <1>1
<1>3. /\ Front(u) \in Seq(S) /\ Len(Front(u)) = Len(p)
      /\ \A i \in 1..Len(p) : Front(u)[i] = p[i]
  BY <1>1, <1>2, FrontOfPath
<1>4. Front(u) = p BY <1>3, SeqEqual
<1>5. Last(u) = x BY <1>1 DEF Last
<1> QED BY <1>1, <1>2, <1>4, <1>5 DEF u

LEMMA EnterType ==
  ASSUME NEW p \in Paths, NEW s \in Segments
  PROVE  Enter(p, s) \in Paths
<1>1. p # <<>> => Front(p) \in Paths BY FrontOfPath DEF Paths
<1>2. Append(p, s) \in Paths BY FrontOfAppend DEF Paths
<1> QED BY <1>1, <1>2 DEF Enter

LEMMA ResolveFolds ==
  ASSUME NEW p \in Paths, NEW q \in Paths
  PROVE  /\ Resolve(p, q) = Entered(p, q)[DOMAIN q]
         /\ EnterStep \in Steps(Paths, Segments)
         /\ FoldsUpTo(Paths, p, EnterStep, q, Entered(p, q))
<1>1. Resolve(p, q) = Entered(p, q)[DOMAIN q]
  BY Zenon DEF Resolve, FoldLeft, MapThenFoldSet, Entered
<1>2. EnterStep \in [Paths \X Segments -> Paths]
  <2>1. \A z \in Paths \X Segments : Enter(z[1], z[2]) \in Paths BY EnterType
  <2> QED BY <2>1 DEF EnterStep
<1>3. \A path \in Paths, x \in Segments : EnterStep[<<path, x>>] = Enter(path, x)
  BY DEF EnterStep
<1> DEFINE L == Len(q)
<1>4. L \in Nat /\ DOMAIN q = 1..L /\ \A i \in 1..L : q[i] \in Segments BY DEF Paths
<1>5. PICK g \in [SUBSET (1..L) -> Paths] : FoldsSets(p, EnterStep, q, L, g)
  BY <1>2, FoldExists DEF Paths
<1>6. \A s \in SUBSET (1..L) : s # {} => Max(s) \in s
  <2> SUFFICES ASSUME NEW s \in SUBSET (1..L), s # {} PROVE Max(s) \in s
    OBVIOUS
  <2> QED BY <1>4, MaxOfIndices
<1>7. g = [s \in SUBSET DOMAIN q |-> IF s = {} THEN p ELSE Enter(g[s \ {Max(s)}], q[Max(s)])]
  <2>1. ASSUME NEW s \in SUBSET (1..L)
        PROVE  g[s] = IF s = {} THEN p ELSE Enter(g[s \ {Max(s)}], q[Max(s)])
    <3>1. s # {} => g[s \ {Max(s)}] \in Paths /\ q[Max(s)] \in Segments
      BY <1>4, <1>6
    <3> QED BY <3>1, <1>3, <1>5 DEF FoldsSets
  <2> HIDE DEF L
  <2> QED BY <2>1, <1>4
<1> DEFINE h == Entered(p, q)
<1>8. h = [s \in SUBSET DOMAIN q |-> IF s = {} THEN p ELSE Enter(h[s \ {Max(s)}], q[Max(s)])]
  BY <1>7, Zenon DEF Entered
<1> HIDE DEF h
<1>9. FoldsUpTo(Paths, p, EnterStep, q, h)
  <2>1. h[{}] = p BY <1>8
  <2>2. ASSUME NEW k \in 0..(L - 1), h[1..k] \in Paths
        PROVE  h[1..(k + 1)] = EnterStep[<<h[1..k], q[k + 1]>>]
    <3>1. k \in Nat /\ k + 1 \in 1..L /\ 1..(k + 1) \in SUBSET (1..L) BY <1>4
    <3>2. /\ Max(1..(k + 1)) = k + 1 /\ (1..(k + 1)) \ {k + 1} = 1..k
          /\ 1..(k + 1) # {}
      BY <3>1, LastOfInterval
    <3> HIDE DEF L
    <3>3. h[1..(k + 1)] = Enter(h[1..k], q[k + 1]) BY <3>1, <3>2, <1>4, <1>8
    <3> QED BY <3>1, <3>3, <2>2, <1>3, <1>4
  <2> QED BY <2>1, <2>2 DEF FoldsUpTo
<1> QED BY <1>1, <1>2, <1>9 DEF h, Steps

\* Resolve enters the segments one after the other.
LEMMA ResolveAppends ==
  ASSUME NEW p \in Paths
  PROVE  /\ Resolve(p, <<>>) = p
         /\ \A q \in Paths : Resolve(p, q) \in Paths
         /\ \A q \in Paths, x \in Segments :
              Resolve(p, Append(q, x)) = Enter(Resolve(p, q), x)
<1>1. ASSUME NEW q \in Paths, NEW x \in Segments
      PROVE  /\ Resolve(p, q) \in Paths
             /\ Resolve(p, Append(q, x)) = Enter(Resolve(p, q), x)
  <2>1. Append(q, x) \in Paths BY FrontOfAppend DEF Paths
  <2>2. /\ FoldsUpTo(Paths, p, EnterStep, q, Entered(p, q))
        /\ FoldsUpTo(Paths, p, EnterStep, Append(q, x), Entered(p, Append(q, x)))
        /\ Resolve(p, q) = Entered(p, q)[DOMAIN q]
        /\ Resolve(p, Append(q, x)) = Entered(p, Append(q, x))[DOMAIN Append(q, x)]
        /\ EnterStep \in Steps(Paths, Segments)
    BY <2>1, ResolveFolds
  <2>3. /\ Entered(p, q)[DOMAIN q] \in Paths
        /\ Entered(p, Append(q, x))[DOMAIN Append(q, x)]
             = EnterStep[<<Entered(p, q)[DOMAIN q], x>>]
    <3>1. q \in Seq(Segments) BY DEF Paths
    <3> DEFINE u == Append(q, x)
    <3>2. FoldsUpTo(Paths, p, EnterStep, u, Entered(p, u)) BY <2>2
    <3>3. Appended(q, x, u) BY DEF Appended
    <3> HIDE DEF u
    <3>4. /\ Entered(p, q)[DOMAIN q] \in Paths
          /\ Entered(p, u)[DOMAIN u] = EnterStep[<<Entered(p, q)[DOMAIN q], x>>]
      BY <3>1, <3>2, <3>3, <2>2, FoldAppends
    <3> QED BY <3>4 DEF u
  <2> QED BY <2>2, <2>3 DEF EnterStep
<1>2. Resolve(p, <<>>) = p
  <2>1. <<>> \in Paths /\ DOMAIN <<>> = {} BY DEF Paths
  <2>2. Entered(p, <<>>)[{}] = p BY <2>1, ResolveFolds DEF FoldsUpTo
  <2> QED BY <2>1, <2>2, ResolveFolds
<1>3. "." \in Segments BY DEF Segments
<1> QED BY <1>1, <1>2, <1>3

-----------------------------------------------------------------------------
(* Normalize, one segment at a time                                        *)

\* What normalize leaves of a path has no ".".
Normal == Seq(Segments \ {"."})

FollowStep == [z \in Normal \X Segments |-> Follow(z[1], z[2])]

\* The function that Normalize takes its result from.
Followed(q) ==
  CHOOSE g : g = [s \in SUBSET DOMAIN q |->
                    IF s = {} THEN <<>> ELSE Follow(g[s \ {Max(s)}], q[Max(s)])]

LEMMA FollowType ==
  ASSUME NEW p \in Normal, NEW s \in Segments
  PROVE  Follow(p, s) \in Normal
<1>1. p # <<>> => Front(p) \in Normal BY FrontOfPath DEF Normal
<1>2. s # "." => Append(p, s) \in Normal
  <2>1. ASSUME s # "." PROVE Append(p, s) \in Normal
    <3>1. s \in Segments \ {"."} BY <2>1
    <3> QED BY <3>1, FrontOfAppend DEF Normal
  <2> QED BY <2>1
<1> QED BY <1>1, <1>2 DEF Follow

LEMMA NormalizeFolds ==
  ASSUME NEW q \in Paths
  PROVE  /\ Normalize(q) = Followed(q)[DOMAIN q]
         /\ <<>> \in Normal /\ FollowStep \in Steps(Normal, Segments)
         /\ FoldsUpTo(Normal, <<>>, FollowStep, q, Followed(q))
<1>1. Normalize(q) = Followed(q)[DOMAIN q]
  BY Zenon DEF Normalize, FoldLeft, MapThenFoldSet, Followed
<1>2. <<>> \in Normal /\ FollowStep \in [Normal \X Segments -> Normal]
  <2>1. \A z \in Normal \X Segments : Follow(z[1], z[2]) \in Normal BY FollowType
  <2>2. <<>> \in Normal BY DEF Normal
  <2> QED BY <2>1, <2>2 DEF FollowStep
<1>3. \A path \in Normal, x \in Segments : FollowStep[<<path, x>>] = Follow(path, x)
  BY DEF FollowStep
<1> DEFINE L == Len(q)
<1>4. L \in Nat /\ DOMAIN q = 1..L /\ \A i \in 1..L : q[i] \in Segments BY DEF Paths
<1>5. PICK g \in [SUBSET (1..L) -> Normal] : FoldsSets(<<>>, FollowStep, q, L, g)
  <2>1. q \in Seq(Segments) BY DEF Paths
  <2> QED BY <2>1, <1>2, FoldExists
<1>6. \A s \in SUBSET (1..L) : s # {} => Max(s) \in s
  <2> SUFFICES ASSUME NEW s \in SUBSET (1..L), s # {} PROVE Max(s) \in s
    OBVIOUS
  <2> QED BY <1>4, MaxOfIndices
<1>7. g = [s \in SUBSET DOMAIN q |-> IF s = {} THEN <<>> ELSE Follow(g[s \ {Max(s)}], q[Max(s)])]
  <2>1. ASSUME NEW s \in SUBSET (1..L)
        PROVE  g[s] = IF s = {} THEN <<>> ELSE Follow(g[s \ {Max(s)}], q[Max(s)])
    <3>1. s # {} => g[s \ {Max(s)}] \in Normal /\ q[Max(s)] \in Segments
      BY <1>4, <1>6
    <3> QED BY <3>1, <1>3, <1>5 DEF FoldsSets
  <2> HIDE DEF L
  <2> QED BY <2>1, <1>4
<1> DEFINE h == Followed(q)
<1>8. h = [s \in SUBSET DOMAIN q |-> IF s = {} THEN <<>> ELSE Follow(h[s \ {Max(s)}], q[Max(s)])]
  BY <1>7, Zenon DEF Followed
<1> HIDE DEF h
<1>9. FoldsUpTo(Normal, <<>>, FollowStep, q, h)
  <2>1. h[{}] = <<>> BY <1>8
  <2>2. ASSUME NEW k \in 0..(L - 1), h[1..k] \in Normal
        PROVE  h[1..(k + 1)] = FollowStep[<<h[1..k], q[k + 1]>>]
    <3>1. k \in Nat /\ k + 1 \in 1..L /\ 1..(k + 1) \in SUBSET (1..L) BY <1>4
    <3>2. /\ Max(1..(k + 1)) = k + 1 /\ (1..(k + 1)) \ {k + 1} = 1..k
          /\ 1..(k + 1) # {}
      BY <3>1, LastOfInterval
    <3> HIDE DEF L
    <3>3. h[1..(k + 1)] = Follow(h[1..k], q[k + 1]) BY <3>1, <3>2, <1>4, <1>8
    <3> QED BY <3>1, <3>3, <2>2, <1>3, <1>4
  <2> QED BY <2>1, <2>2 DEF FoldsUpTo
<1> QED BY <1>1, <1>2, <1>9 DEF h, Steps

\* Normalize follows the segments one after the other.
LEMMA NormalizeAppends ==
  /\ Normalize(<<>>) = <<>>
  /\ \A q \in Paths : Normalize(q) \in Normal
  /\ \A q \in Paths, x \in Segments :
       Normalize(Append(q, x)) = Follow(Normalize(q), x)
<1>1. ASSUME NEW q \in Paths, NEW x \in Segments
      PROVE  /\ Normalize(q) \in Normal
             /\ Normalize(Append(q, x)) = Follow(Normalize(q), x)
  <2>1. Append(q, x) \in Paths /\ q \in Seq(Segments) BY FrontOfAppend DEF Paths
  <2> DEFINE u == Append(q, x)
  <2>2. /\ FoldsUpTo(Normal, <<>>, FollowStep, q, Followed(q))
        /\ FoldsUpTo(Normal, <<>>, FollowStep, u, Followed(u))
        /\ Normalize(q) = Followed(q)[DOMAIN q]
        /\ Normalize(u) = Followed(u)[DOMAIN u]
        /\ <<>> \in Normal /\ FollowStep \in Steps(Normal, Segments)
    BY <2>1, NormalizeFolds
  <2>3. Appended(q, x, u) BY DEF Appended
  <2> HIDE DEF u
  <2>4. /\ Followed(q)[DOMAIN q] \in Normal
        /\ Followed(u)[DOMAIN u] = FollowStep[<<Followed(q)[DOMAIN q], x>>]
    BY <2>1, <2>2, <2>3, FoldAppends
  <2> QED BY <2>2, <2>4 DEF FollowStep, u
<1>2. Normalize(<<>>) = <<>>
  <2>1. <<>> \in Paths /\ DOMAIN <<>> = {} BY DEF Paths
  <2>2. Followed(<<>>)[{}] = <<>> BY <2>1, NormalizeFolds DEF FoldsUpTo
  <2> QED BY <2>1, <2>2, NormalizeFolds
<1>3. "." \in Segments BY DEF Segments
<1> QED BY <1>1, <1>2, <1>3

-----------------------------------------------------------------------------
(* Bytes, one character at a time                                          *)

Characters == 1..7

BytesStep == [z \in Nat \X Characters |-> z[1] + Width(z[2])]

\* The function that Bytes takes its result from.
Counted(q) ==
  CHOOSE g : g = [s \in SUBSET DOMAIN q |->
                    IF s = {} THEN 0 ELSE g[s \ {Max(s)}] + Width(q[Max(s)])]

LEMMA WidthType == \A c \in Characters : Width(c) \in Nat \ {0}
  BY DEF Width, Characters, Cut, ExitCode

LEMMA BytesFolds ==
  ASSUME NEW q \in Seq(Characters)
  PROVE  /\ Bytes(q) = Counted(q)[DOMAIN q]
         /\ BytesStep \in Steps(Nat, Characters)
         /\ FoldsUpTo(Nat, 0, BytesStep, q, Counted(q))
<1>1. Bytes(q) = Counted(q)[DOMAIN q]
  BY Zenon DEF Bytes, FoldLeft, MapThenFoldSet, Counted
<1>2. BytesStep \in [Nat \X Characters -> Nat]
  <2>1. \A z \in Nat \X Characters : z[1] + Width(z[2]) \in Nat BY WidthType
  <2> QED BY <2>1 DEF BytesStep
<1>3. \A n \in Nat, x \in Characters : BytesStep[<<n, x>>] = n + Width(x)
  BY DEF BytesStep
<1> DEFINE L == Len(q)
<1>4. L \in Nat /\ DOMAIN q = 1..L /\ \A i \in 1..L : q[i] \in Characters OBVIOUS
<1>5. PICK g \in [SUBSET (1..L) -> Nat] : FoldsSets(0, BytesStep, q, L, g)
  BY <1>2, FoldExists
<1>6. \A s \in SUBSET (1..L) : s # {} => Max(s) \in s
  <2> SUFFICES ASSUME NEW s \in SUBSET (1..L), s # {} PROVE Max(s) \in s
    OBVIOUS
  <2> QED BY <1>4, MaxOfIndices
<1>7. g = [s \in SUBSET DOMAIN q |-> IF s = {} THEN 0 ELSE g[s \ {Max(s)}] + Width(q[Max(s)])]
  <2>1. ASSUME NEW s \in SUBSET (1..L)
        PROVE  g[s] = IF s = {} THEN 0 ELSE g[s \ {Max(s)}] + Width(q[Max(s)])
    <3>1. s # {} => g[s \ {Max(s)}] \in Nat /\ q[Max(s)] \in Characters
      BY <1>4, <1>6
    <3> QED BY <3>1, <1>3, <1>5 DEF FoldsSets
  <2> HIDE DEF L
  <2> QED BY <2>1, <1>4
<1> DEFINE h == Counted(q)
<1>8. h = [s \in SUBSET DOMAIN q |-> IF s = {} THEN 0 ELSE h[s \ {Max(s)}] + Width(q[Max(s)])]
  BY <1>7, Zenon DEF Counted
<1> HIDE DEF h
<1>9. FoldsUpTo(Nat, 0, BytesStep, q, h)
  <2>1. h[{}] = 0 BY <1>8
  <2>2. ASSUME NEW k \in 0..(L - 1), h[1..k] \in Nat
        PROVE  h[1..(k + 1)] = BytesStep[<<h[1..k], q[k + 1]>>]
    <3>1. k \in Nat /\ k + 1 \in 1..L /\ 1..(k + 1) \in SUBSET (1..L) BY <1>4
    <3>2. /\ Max(1..(k + 1)) = k + 1 /\ (1..(k + 1)) \ {k + 1} = 1..k
          /\ 1..(k + 1) # {}
      BY <3>1, LastOfInterval
    <3> HIDE DEF L
    <3>3. h[1..(k + 1)] = h[1..k] + Width(q[k + 1]) BY <3>1, <3>2, <1>4, <1>8
    <3> QED BY <3>1, <3>3, <2>2, <1>3, <1>4
  <2> QED BY <2>1, <2>2 DEF FoldsUpTo
<1> QED BY <1>1, <1>2, <1>9 DEF h, Steps

\* Bytes adds up the widths.
LEMMA BytesAppends ==
  /\ Bytes(<<>>) = 0
  /\ \A q \in Seq(Characters) : Bytes(q) \in Nat
  /\ \A q \in Seq(Characters), x \in Characters :
       Bytes(Append(q, x)) = Bytes(q) + Width(x)
<1>1. ASSUME NEW q \in Seq(Characters), NEW x \in Characters
      PROVE  /\ Bytes(q) \in Nat
             /\ Bytes(Append(q, x)) = Bytes(q) + Width(x)
  <2>1. Append(q, x) \in Seq(Characters) BY FrontOfAppend
  <2> DEFINE u == Append(q, x)
  <2>2. /\ FoldsUpTo(Nat, 0, BytesStep, q, Counted(q))
        /\ FoldsUpTo(Nat, 0, BytesStep, u, Counted(u))
        /\ Bytes(q) = Counted(q)[DOMAIN q]
        /\ Bytes(u) = Counted(u)[DOMAIN u]
        /\ 0 \in Nat /\ BytesStep \in Steps(Nat, Characters)
    BY <2>1, BytesFolds
  <2>3. Appended(q, x, u) BY DEF Appended
  <2> DEFINE T == Nat
             zero == 0
  <2>4. /\ FoldsUpTo(T, zero, BytesStep, q, Counted(q))
        /\ FoldsUpTo(T, zero, BytesStep, u, Counted(u))
        /\ zero \in T /\ BytesStep \in Steps(T, Characters)
    BY <2>2
  <2> HIDE DEF u, T, zero
  <2>5. /\ Counted(q)[DOMAIN q] \in T
        /\ Counted(u)[DOMAIN u] = BytesStep[<<Counted(q)[DOMAIN q], x>>]
    BY <2>3, <2>4, FoldAppends
  <2> QED BY <2>2, <2>5 DEF BytesStep, T, u
<1>2. Bytes(<<>>) = 0
  <2>1. <<>> \in Seq(Characters) /\ DOMAIN <<>> = {} OBVIOUS
  <2>2. Counted(<<>>)[{}] = 0 BY <2>1, BytesFolds DEF FoldsUpTo
  <2> QED BY <2>1, <2>2, BytesFolds
<1>3. 1 \in Characters BY DEF Characters
<1> QED BY <1>1, <1>2, <1>3

-----------------------------------------------------------------------------
(* Where a path leads                                                      *)

LEMMA WorkspaceType == Workspace \in Paths
  BY DEF Workspace, Paths, Segments

LEMMA NormalPaths == Normal \subseteq Paths
<1>1. ASSUME NEW q \in Normal PROVE q \in Paths
  <2>1. Len(q) \in Nat /\ DOMAIN q = 1..Len(q) /\ \A i \in 1..Len(q) : q[i] \in Segments \ {"."}
    BY DEF Normal
  <2>2. q = [i \in 1..Len(q) |-> q[i]] BY DEF Normal
  <2>3. [i \in 1..Len(q) |-> q[i]] \in Seq(Segments) BY <2>1, SeqDef
  <2> QED BY <2>2, <2>3 DEF Paths
<1> QED BY <1>1

\* Following a segment in the normalized path and then resolving is resolving and
\* then entering it.
LEMMA FollowResolves ==
  ASSUME NEW p \in Paths, NEW n \in Normal, NEW x \in Segments
  PROVE  Resolve(p, Follow(n, x)) = Enter(Resolve(p, n), x)
<1>1. n \in Paths BY NormalPaths
<1>2. CASE x = "."
  BY <1>2 DEF Follow, Enter
<1>3. CASE x = ".." /\ n # <<>> /\ Last(n) # ".."
  <2>1. /\ Front(n) \in Normal /\ Last(n) \in Segments /\ Last(n) # "."
        /\ n = Append(Front(n), Last(n))
    BY <1>3, FrontOfPath DEF Normal
  <2> DEFINE f == Front(n)
             before == Resolve(p, f)
             l == Last(n)
  <2>2. before \in Paths /\ Resolve(p, n) = Enter(before, l)
    <3>1. n = Append(f, l) /\ f \in Paths /\ l \in Segments BY <2>1, NormalPaths
    <3> HIDE DEF f, l
    <3>2. Resolve(p, Append(f, l)) = Enter(Resolve(p, f), l) /\ Resolve(p, f) \in Paths
      BY <3>1, ResolveAppends
    <3> QED BY <3>1, <3>2
  <2> HIDE DEF before, l
  <2>3. l # "." /\ l # ".." /\ l \in Segments BY <1>3, <2>1 DEF l
  <2>4. Enter(before, l) = Append(before, l) BY <2>3 DEF Enter
  <2>5. Front(Append(before, l)) = before /\ Append(before, l) # <<>>
    BY <2>2, <2>3, FrontOfAppend DEF Paths
  <2>6. Enter(Append(before, l), "..") = before BY <2>5 DEF Enter
  <2>7. Follow(n, x) = Front(n) BY <1>3 DEF Follow
  <2> QED BY <2>2, <2>4, <2>6, <2>7, <1>3 DEF before
<1>4. CASE x # "." /\ ~ (x = ".." /\ n # <<>> /\ Last(n) # "..")
  <2>1. Follow(n, x) = Append(n, x) BY <1>4 DEF Follow
  <2> QED BY <2>1, <1>1, ResolveAppends
<1> QED BY <1>2, <1>3, <1>4

\* Normalizing a path does not change where it leads.
LEMMA NormalizeResolves ==
  ASSUME NEW p \in Paths, NEW q \in Paths
  PROVE  Resolve(p, Normalize(q)) = Resolve(p, q)
<1> DEFINE Same == {n \in Nat : \A r \in Paths : Len(r) = n =>
                      Resolve(p, Normalize(r)) = Resolve(p, r)}
<1>1. 0 \in Same
  <2>1. \A r \in Paths : Len(r) = 0 => r = <<>> BY EmptySeq DEF Paths
  <2> QED BY <2>1, NormalizeAppends
<1>2. ASSUME NEW n \in Nat, n \in Same PROVE n + 1 \in Same
  <2> SUFFICES ASSUME NEW r \in Paths, Len(r) = n + 1
               PROVE  Resolve(p, Normalize(r)) = Resolve(p, r)
    OBVIOUS
  <2>1. r # <<>> OBVIOUS
  <2> DEFINE f == Front(r)
             x == Last(r)
  <2>2. f \in Paths /\ x \in Segments /\ Len(f) = n /\ r = Append(f, x)
    <3>1. r \in Seq(Segments) BY DEF Paths
    <3>2. /\ f \in Seq(Segments) /\ x \in Segments
          /\ Len(f) = Len(r) - 1 /\ r = Append(f, x)
      BY <3>1, <2>1, FrontOfPath
    <3> HIDE DEF f, x
    <3> QED BY <3>2 DEF Paths
  <2> HIDE DEF f, x
  <2>3. Normalize(r) = Follow(Normalize(f), x) /\ Normalize(f) \in Normal
    BY <2>2, NormalizeAppends
  <2>4. Resolve(p, Normalize(r)) = Enter(Resolve(p, Normalize(f)), x)
    BY <2>2, <2>3, FollowResolves
  <2>5. Resolve(p, Normalize(f)) = Resolve(p, f) BY <1>2, <2>2
  <2>6. Resolve(p, r) = Enter(Resolve(p, f), x) BY <2>2, ResolveAppends
  <2> QED BY <2>4, <2>5, <2>6
<1>3. \A n \in Nat : n \in Same
  <2> HIDE DEF Same
  <2>1. \A n \in Nat : n \in Same => n + 1 \in Same BY <1>2
  <2> QED BY <1>1, <2>1, SetInduction
<1>4. Len(q) \in Nat BY DEF Paths
<1> QED BY <1>3, <1>4

\* What the tools are given leads where the sandbox is asked for, if that is in
\* the workspace.
LEMMA LeadsToTarget ==
  ASSUME NEW given \in Given
  PROVE  /\ ResolveWorkspacePath(given) =
              IF Walk(given) # None /\ InWorkspace(Walk(given)) THEN Walk(given) ELSE None
         /\ ResolveWorkspacePath(given) # None =>
              /\ Walk(given) = ResolveWorkspacePath(given)
              /\ Walk(given) \in Paths /\ InWorkspace(Walk(given))
<1>1. CASE given.kind = "relative"
  <2>1. given.segments \in Paths
    <3>1. PICK s \in Relative : given = [kind |-> "relative", segments |-> s]
      BY <1>1 DEF Given, Absolute, Missing
    <3> QED BY <3>1, RelativeAssumption DEF Paths
  <2> DEFINE walk == Resolve(Workspace, given.segments)
  <2>2. walk \in Paths /\ Walk(given) = walk
    BY <1>1, <2>1, WorkspaceType, ResolveAppends DEF Walk, Resolve
  <2>3. Resolve(Workspace, Normalize(given.segments)) = walk
    BY <2>1, WorkspaceType, NormalizeResolves
  <2> HIDE DEF walk
  <2>4. ResolveWorkspacePath(given) = IF InWorkspace(walk) THEN walk ELSE None
    BY <1>1, <2>3 DEF ResolveWorkspacePath
  <2> QED BY <2>2, <2>4
<1>2. CASE given.kind # "relative"
  BY <1>2 DEF Walk, ResolveWorkspacePath
<1> QED BY <1>1, <1>2

-----------------------------------------------------------------------------
(* What a cut leaves                                                       *)

LEMMA ConcatOne ==
  ASSUME NEW S, NEW s \in Seq(S), NEW x \in S
  PROVE  s \o <<x>> = Append(s, x)
<1>1. <<x>> \in Seq(S) /\ Len(<<x>>) = 1 /\ <<x>>[1] = x OBVIOUS
<1> DEFINE u == <<x>>
<1> HIDE DEF u
<1>2. u \in Seq(S) /\ Len(u) = 1 /\ u[1] = x BY <1>1 DEF u
<1>3. /\ s \o u \in Seq(S) /\ Len(s \o u) = Len(s) + 1 /\ Len(s) \in Nat
      /\ \A i \in 1..(Len(s) + 1) : (s \o u)[i] = IF i <= Len(s) THEN s[i] ELSE u[i - Len(s)]
  <2>1. /\ s \o u \in Seq(S) /\ Len(s \o u) = Len(s) + Len(u)
        /\ \A i \in 1..(Len(s) + Len(u)) :
             (s \o u)[i] = IF i <= Len(s) THEN s[i] ELSE u[i - Len(s)]
    BY <1>2, ConcatProperties
  <2>2. Len(s) \in Nat OBVIOUS
  <2> QED BY <1>2, <2>1, <2>2
<1>4. /\ Append(s, x) \in Seq(S) /\ Len(Append(s, x)) = Len(s) + 1
      /\ \A i \in 1..Len(s) : Append(s, x)[i] = s[i]
      /\ Append(s, x)[Len(s) + 1] = x
  OBVIOUS
<1> DEFINE c == s \o u
           a == Append(s, x)
<1>5. \A i \in 1..(Len(s) + 1) : c[i] = a[i]
  <2> TAKE i \in 1..(Len(s) + 1)
  <2> HIDE DEF c, a
  <2>1. CASE i = Len(s) + 1
    <3>1. ~ (i <= Len(s)) /\ i - Len(s) = 1 BY <2>1, <1>3
    <3> QED BY <3>1, <2>1, <1>2, <1>3, <1>4 DEF c, a
  <2>2. CASE i # Len(s) + 1
    <3>1. i \in 1..Len(s) /\ i <= Len(s) BY <2>2, <1>3
    <3> QED BY <3>1, <1>3, <1>4 DEF c, a
  <2> QED BY <2>1, <2>2
<1>6. c = a
  <2>1. c \in Seq(S) /\ a \in Seq(S) /\ Len(c) = Len(a) /\ Len(c) = Len(s) + 1 BY <1>3, <1>4
  <2> HIDE DEF c, a
  <2> QED BY <2>1, <1>5, SeqEqual
<1> QED BY <1>6 DEF u

\* The first characters of a text.
LEMMA Beginning ==
  ASSUME NEW S, NEW text \in Seq(S), NEW n \in 0..Len(text)
  PROVE  /\ SubSeq(text, 1, n) \in Seq(S) /\ Len(SubSeq(text, 1, n)) = n
         /\ \A i \in 1..n : SubSeq(text, 1, n)[i] = text[i]
         /\ n < Len(text) => SubSeq(text, 1, n + 1) = Append(SubSeq(text, 1, n), text[n + 1])
<1>1. n \in Nat /\ Len(text) \in Nat OBVIOUS
<1>2. \A i \in 1..n : text[i] \in S OBVIOUS
<1>3. /\ SubSeq(text, 1, n) \in Seq(S)
      /\ Len(SubSeq(text, 1, n)) = IF 1 <= n THEN n - 1 + 1 ELSE 0
      /\ \A i \in 1..(n - 1 + 1) : SubSeq(text, 1, n)[i] = text[1 + i - 1]
  BY <1>1, <1>2, SubSeqProperties
<1>4. n - 1 + 1 = n /\ \A i \in 1..n : 1 + i - 1 = i BY <1>1
<1>5. Len(SubSeq(text, 1, n)) = n BY <1>1, <1>3, <1>4
<1>6. \A i \in 1..n : SubSeq(text, 1, n)[i] = text[i] BY <1>3, <1>4
<1>7. ASSUME n < Len(text)
      PROVE  SubSeq(text, 1, n + 1) = Append(SubSeq(text, 1, n), text[n + 1])
  <2>1. n + 1 \in 1..Len(text) /\ 1 \in 1..Len(text) /\ n + 1 - 1 = n BY <1>1, <1>7
  <2>2. \A i \in 1..(n + 1) : text[i] \in S BY <2>1
  <2>3. /\ SubSeq(text, 1, n + 1) \in Seq(S)
        /\ Len(SubSeq(text, 1, n + 1)) = IF 1 <= n + 1 THEN n + 1 - 1 + 1 ELSE 0
        /\ \A i \in 1..(n + 1 - 1 + 1) : SubSeq(text, 1, n + 1)[i] = text[1 + i - 1]
    BY <1>1, <2>2, SubSeqProperties
  <2> DEFINE b == SubSeq(text, 1, n)
             u == SubSeq(text, 1, n + 1)
             a == Append(b, text[n + 1])
  <2>4. u \in Seq(S) /\ Len(u) = n + 1 /\ \A i \in 1..(n + 1) : u[i] = text[i]
    <3>1. n + 1 - 1 + 1 = n + 1 /\ \A i \in 1..(n + 1) : 1 + i - 1 = i BY <1>1
    <3> QED BY <1>1, <2>3, <3>1
  <2>5. b \in Seq(S) /\ Len(b) = n /\ \A i \in 1..n : b[i] = text[i] BY <1>3, <1>5, <1>6
  <2> HIDE DEF b, u
  <2>6. text[n + 1] \in S BY <2>1
  <2>7. a \in Seq(S) /\ Len(a) = n + 1 /\ a[n + 1] = text[n + 1]
        /\ \A i \in 1..n : a[i] = text[i]
    BY <2>5, <2>6
  <2> HIDE DEF a
  <2>8. \A i \in 1..(n + 1) : i = n + 1 \/ i \in 1..n BY <1>1
  <2>9. u = a BY <2>4, <2>7, <2>8, SeqEqual
  <2> QED BY <2>9 DEF a, b, u
<1> QED BY <1>3, <1>5, <1>6, <1>7

\* A text that is too long is cut at the character that crosses the limit.
LEMMA CutExists ==
  ASSUME NEW text \in Seq(Characters), Bytes(text) > MaxOutputBytes
  PROVE  \E i \in 0..(Len(text) - 1) :
           /\ Bytes(SubSeq(text, 1, i)) <= MaxOutputBytes
           /\ Bytes(SubSeq(text, 1, i + 1)) > MaxOutputBytes
<1> DEFINE L == Len(text)
           B(i) == Bytes(SubSeq(text, 1, i))
           Within == {i \in 0..L : B(i) <= MaxOutputBytes}
<1>1. L \in Nat /\ MaxOutputBytes \in Nat BY TextsAssumption
<1>2. \A i \in 0..L : B(i) \in Nat BY Beginning, BytesAppends
<1>3. B(0) = 0
  <2>1. SubSeq(text, 1, 0) = <<>> BY SubSeqEmpty
  <2> QED BY <2>1, BytesAppends
<1>4. B(L) = Bytes(text) BY SubSeqFull
<1>5. SUFFICES ASSUME \A i \in 0..(L - 1) :
                       B(i) <= MaxOutputBytes => ~ (B(i + 1) > MaxOutputBytes)
               PROVE  FALSE
  OBVIOUS
<1> HIDE DEF B, L
<1>6. 0 \in Within BY <1>1, <1>3
<1>7. \A i \in 0..(L - 1) : i \in Within => i + 1 \in Within
  <2> TAKE i \in 0..(L - 1)
  <2>1. i + 1 \in 0..L /\ i \in 0..L BY <1>1
  <2> QED BY <2>1, <1>1, <1>2, <1>5
<1>8. L \in Within
  <2> HIDE DEF Within
  <2>1. \A i \in 0..L : i \in Within BY <1>1, <1>6, <1>7, UpToInduction
  <2>2. L \in 0..L BY <1>1
  <2> QED BY <2>1, <2>2
<1>9. L \in 0..L BY <1>1
<1> QED BY <1>1, <1>2, <1>4, <1>8, <1>9

\* What Truncate returns of a text that is too long.
CutAt(text, n, cut, content) ==
  /\ n \in 0..(Len(text) - 1)
  /\ Bytes(SubSeq(text, 1, n)) <= MaxOutputBytes
  /\ Bytes(SubSeq(text, 1, n + 1)) > MaxOutputBytes
  /\ cut = IF Bytes(SubSeq(text, 1, n)) < MaxOutputBytes THEN <<Cut>> ELSE <<>>
  /\ content = SubSeq(text, 1, n) \o cut \o <<Notice>>

LEMMA TruncateCuts ==
  ASSUME NEW text \in Seq(Characters)
  PROVE  \/ Bytes(text) <= MaxOutputBytes /\ Truncate(text) = text
         \/ \E n, cut : CutAt(text, n, cut, Truncate(text))
<1>1. CASE Bytes(text) <= MaxOutputBytes
  BY <1>1 DEF Truncate
<1>2. CASE ~ (Bytes(text) <= MaxOutputBytes)
  <2> DEFINE n == CHOOSE i \in 0 .. Len(text) - 1 :
                    /\ Bytes(SubSeq(text, 1, i)) <= MaxOutputBytes
                    /\ Bytes(SubSeq(text, 1, i + 1)) > MaxOutputBytes
             cut == IF Bytes(SubSeq(text, 1, n)) < MaxOutputBytes THEN <<Cut>> ELSE <<>>
  <2>1. Bytes(text) > MaxOutputBytes
    <3>1. Bytes(text) \in Nat /\ MaxOutputBytes \in Nat BY BytesAppends, TextsAssumption
    <3> QED BY <3>1, <1>2
  <2>2. /\ n \in 0 .. Len(text) - 1
        /\ Bytes(SubSeq(text, 1, n)) <= MaxOutputBytes
        /\ Bytes(SubSeq(text, 1, n + 1)) > MaxOutputBytes
    BY <2>1, CutExists
  <2>3. Truncate(text) = SubSeq(text, 1, n) \o cut \o <<Notice>> BY <1>2 DEF Truncate
  <2> HIDE DEF n
  <2>4. CutAt(text, n, cut, Truncate(text)) BY <2>2, <2>3 DEF CutAt
  <2> QED BY <2>4
<1> QED BY <1>1, <1>2

\* What is left before the notice is within the limit, up to the width of U+FFFD.
LEMMA CutIsBounded ==
  ASSUME NEW text \in Seq(Characters), NEW n, NEW cut, NEW content,
         CutAt(text, n, cut, content)
  PROVE  /\ Bytes(Printed(content)) <= MaxOutputBytes + 2
         /\ content = Append(Printed(content), Notice)
         /\ Printed(content) \in Seq(Characters)
         /\ n \in Nat /\ n <= Len(Printed(content))
         /\ \A i \in 1..n : Printed(content)[i] = text[i]
         /\ \A i \in 1..Len(Printed(content)) : i > n => Printed(content)[i] = Cut
<1> DEFINE b == SubSeq(text, 1, n)
           whole == b \o cut
<1>1. n \in 0..Len(text) /\ n \in Nat /\ MaxOutputBytes \in Nat BY TextsAssumption DEF CutAt
<1>2. b \in Seq(Characters) /\ Len(b) = n /\ \A i \in 1..n : b[i] = text[i]
  BY <1>1, Beginning
<1>3. Bytes(b) \in Nat /\ Bytes(b) <= MaxOutputBytes
      /\ cut = (IF Bytes(b) < MaxOutputBytes THEN <<Cut>> ELSE <<>>)
      /\ content = whole \o <<Notice>>
  BY <1>2, BytesAppends DEF CutAt
<1> HIDE DEF b
<1>4. Cut \in Characters /\ Notice \in Characters /\ Width(Cut) = 3
  <2>1. Width(Cut) = 3 BY DEF Width, Cut, ExitCode
  <2>2. Cut \in Characters /\ Notice \in Characters BY DEF Cut, Notice, Characters
  <2> QED BY <2>1, <2>2
<1>5. /\ whole \in Seq(Characters)
      /\ Bytes(whole) <= MaxOutputBytes + 2
      /\ n <= Len(whole) /\ \A i \in 1..n : whole[i] = b[i]
      /\ \A i \in 1..Len(whole) : i > n => whole[i] = Cut
  <2>1. CASE Bytes(b) < MaxOutputBytes
    <3>1. whole = Append(b, Cut) BY <2>1, <1>2, <1>3, <1>4, ConcatOne
    <3>2. Bytes(whole) = Bytes(b) + 3 BY <3>1, <1>2, <1>4, BytesAppends
    <3>3. /\ Append(b, Cut) \in Seq(Characters) /\ Len(Append(b, Cut)) = n + 1
          /\ \A i \in 1..n : Append(b, Cut)[i] = b[i]
          /\ Append(b, Cut)[n + 1] = Cut
      BY <1>1, <1>2, <1>4
    <3>4. Bytes(whole) <= MaxOutputBytes + 2 BY <3>2, <2>1, <1>1, <1>3
    <3> HIDE DEF whole
    <3> QED BY <3>1, <3>3, <3>4, <1>1
  <2>2. CASE ~ (Bytes(b) < MaxOutputBytes)
    <3>1. whole = b BY <2>2, <1>2, <1>3, ConcatEmptySeq
    <3> HIDE DEF whole
    <3> QED BY <3>1, <1>1, <1>2, <1>3
  <2> QED BY <2>1, <2>2
<1> HIDE DEF whole
<1>6. content = Append(whole, Notice) BY <1>3, <1>4, <1>5, ConcatOne
<1>7. /\ Append(whole, Notice) # <<>> /\ Last(Append(whole, Notice)) = Notice
      /\ Front(Append(whole, Notice)) = whole
  BY <1>4, <1>5, FrontOfAppend
<1>8. Printed(content) = whole BY <1>6, <1>7 DEF Printed
<1> QED BY <1>1, <1>2, <1>5, <1>6, <1>8

\* What the tools of a live run print is bounded.
LEMMA TruncateIsBounded ==
  ASSUME NEW text \in Seq(Characters \ {Notice})
  PROVE  Bytes(Printed(Truncate(text))) <= MaxOutputBytes + 2
<1>1. text \in Seq(Characters) BY SeqMonotonic
<1>2. CASE Bytes(text) <= MaxOutputBytes /\ Truncate(text) = text
  <2>1. Printed(text) = text
    <3>1. text # <<>> => Last(text) # Notice
      <4>1. text # <<>> => Last(text) \in Characters \ {Notice} BY FrontOfPath
      <4> QED BY <4>1
    <3> QED BY <3>1 DEF Printed
  <2>2. Bytes(text) \in Nat /\ MaxOutputBytes \in Nat BY <1>1, BytesAppends, TextsAssumption
  <2> QED BY <1>2, <2>1, <2>2
<1>3. CASE \E n, cut : CutAt(text, n, cut, Truncate(text))
  BY <1>1, <1>3, CutIsBounded
<1> QED BY <1>1, <1>2, <1>3, TruncateCuts

\* A cut adds no exit code.
LEMMA TruncateAddsNoExitCode ==
  ASSUME NEW text \in Seq(Characters), ~ Contains(text, ExitCode)
  PROVE  ~ Contains(Truncate(text), ExitCode)
<1>1. CASE Truncate(text) = text
  BY <1>1
<1>2. CASE \E n, cut : CutAt(text, n, cut, Truncate(text))
  <2>1. PICK n, cut : CutAt(text, n, cut, Truncate(text)) BY <1>2
  <2> DEFINE content == Truncate(text)
             printed == Printed(content)
  <2>2. n <= Len(text) /\ Len(text) \in Nat /\ n \in Nat BY <2>1 DEF CutAt
  <2>3. /\ content = Append(printed, Notice) /\ printed \in Seq(Characters)
        /\ \A i \in 1..n : printed[i] = text[i]
        /\ \A i \in 1..Len(printed) : i > n => printed[i] = Cut
    BY <2>1, CutIsBounded
  <2> HIDE DEF printed, content
  <2>4. \A i \in 1..n : text[i] # ExitCode BY <2>2 DEF Contains
  <2>5. Cut # ExitCode /\ Notice # ExitCode BY DEF Cut, ExitCode, Notice
  <2>6. \A i \in 1..Len(printed) : printed[i] # ExitCode
    <3> TAKE i \in 1..Len(printed)
    <3>1. i \in Nat /\ i >= 1 OBVIOUS
    <3>2. CASE i <= n BY <3>1, <3>2, <2>2, <2>3, <2>4
    <3>3. CASE ~ (i <= n) BY <3>1, <3>3, <2>2, <2>3, <2>5
    <3> QED BY <3>2, <3>3
  <2>7. Len(printed) \in Nat /\ Len(Append(printed, Notice)) = Len(printed) + 1
        /\ Append(printed, Notice)[Len(printed) + 1] = Notice
        /\ \A i \in 1..Len(printed) : Append(printed, Notice)[i] = printed[i]
    BY <2>3
  <2>8. \A i \in 1..(Len(printed) + 1) : Append(printed, Notice)[i] # ExitCode
    <3> TAKE i \in 1..(Len(printed) + 1)
    <3>1. i = Len(printed) + 1 \/ i \in 1..Len(printed) BY <2>7
    <3> QED BY <3>1, <2>5, <2>6, <2>7
  <2>9. ~ Contains(Append(printed, Notice), ExitCode) BY <2>7, <2>8 DEF Contains
  <2> QED BY <2>3, <2>9 DEF content
<1> QED BY <1>1, <1>2, TruncateCuts

\* The line with the exit code comes first and is within any limit.
LEMMA TruncateKeepsExitCode ==
  ASSUME NEW text \in Seq(Characters), Len(text) > 0, text[1] = ExitCode
  PROVE  Contains(Truncate(text), ExitCode)
<1>0. Len(text) \in Nat OBVIOUS
<1>1. CASE Truncate(text) = text
  BY <1>0, <1>1 DEF Contains
<1>2. CASE \E n, cut : CutAt(text, n, cut, Truncate(text))
  <2>1. PICK n, cut : CutAt(text, n, cut, Truncate(text)) BY <1>2
  <2> DEFINE content == Truncate(text)
             printed == Printed(content)
  <2>2. /\ content = Append(printed, Notice) /\ printed \in Seq(Characters)
        /\ n \in Nat /\ n <= Len(printed)
        /\ \A i \in 1..n : printed[i] = text[i]
    BY <2>1, CutIsBounded
  <2> HIDE DEF printed, content
  <2>3. n # 0
    <3> SUFFICES ASSUME n = 0 PROVE FALSE
      OBVIOUS
    <3> DEFINE none == SubSeq(text, 1, n)
               first == SubSeq(text, 1, n + 1)
    <3>1. none = <<>> BY SubSeqEmpty
    <3>2. first = Append(none, text[n + 1])
      <4>1. n \in 0..Len(text) /\ n < Len(text) BY <1>0
      <4> QED BY <4>1, Beginning
    <3>3. Bytes(first) > MaxOutputBytes BY <2>1 DEF CutAt
    <3>4. MaxOutputBytes \in Nat \ {0} BY TextsAssumption
    <3>5. ExitCode \in Characters /\ Width(ExitCode) = 1
      <4>1. Width(ExitCode) = 1 BY DEF Width, Cut, ExitCode
      <4> QED BY <4>1 DEF ExitCode, Characters
    <3>6. text[n + 1] = ExitCode OBVIOUS
    <3> HIDE DEF none, first
    <3>7. none \in Seq(Characters) BY <3>1
    <3>8. Bytes(first) = Bytes(none) + 1 /\ Bytes(none) = 0
      <4>1. first = Append(none, ExitCode) BY <3>2, <3>6
      <4>2. Bytes(Append(none, ExitCode)) = Bytes(none) + Width(ExitCode)
        BY <3>5, <3>7, BytesAppends
      <4>3. Bytes(none) = 0 BY <3>1, BytesAppends
      <4> QED BY <4>1, <4>2, <4>3, <3>5
    <3> QED BY <3>3, <3>4, <3>8
  <2>4. 1 \in 1..n /\ 1 \in 1..Len(printed) /\ Len(printed) \in Nat BY <2>2, <2>3
  <2>5. printed[1] = ExitCode BY <2>2, <2>4
  <2>6. /\ Len(Append(printed, Notice)) = Len(printed) + 1
        /\ Append(printed, Notice)[1] = printed[1]
    BY <2>2, <2>4
  <2>7. Contains(Append(printed, Notice), ExitCode) BY <2>4, <2>5, <2>6 DEF Contains
  <2> QED BY <2>2, <2>7 DEF content
<1> QED BY <1>1, <1>2, TruncateCuts

-----------------------------------------------------------------------------
(* Calls                                                                   *)

LEMMA NothingFacts ==
  /\ Nothing.tool = None /\ Nothing.leads = None /\ Nothing.target = None
  /\ Nothing.isError = FALSE /\ Nothing.content = <<>> /\ Nothing.failed = FALSE
  /\ LET failed == [Nothing EXCEPT !.isError = TRUE] IN
     /\ failed.tool = None /\ failed.leads = None /\ failed.target = None
     /\ failed.isError = TRUE /\ failed.content = <<>> /\ failed.failed = FALSE
  BY DEF Nothing

\* A call that the model is told has failed has changed nothing: only ToolError gives
\* isError, and it leaves the sandbox alone.
LEMMA ErrorStep ==
  ASSUME [Next]_vars
  PROVE  last'.isError => files' = files
<1>1. CASE UnknownTool
  BY <1>1 DEF UnknownTool, ToolError
<1>2. ASSUME NEW given \in Given, ReadFile(given)
      PROVE  last'.isError => files' = files
  BY <1>2 DEF ReadFile, ToolError
<1>3. ASSUME NEW given \in Given, ListFiles(given)
      PROVE  last'.isError => files' = files
  BY <1>3 DEF ListFiles, ToolError
<1>4. ASSUME NEW given \in Given, NEW text \in Texts, WriteFile(given, text)
      PROVE  last'.isError => files' = files
  <2> DEFINE path == ResolveWorkspacePath(given)
             call == Call("write_file", given, path)
  <2>1. CASE ToolError(call)
    BY <2>1 DEF ToolError
  <2>2. CASE Result(call, <<>>) \/ Throw(call)
    <3>1. last' = [call EXCEPT !.content = <<>>] \/ last' = call BY <2>2 DEF Result, Throw
    <3>2. call.isError = FALSE /\ [call EXCEPT !.content = <<>>].isError = FALSE
      BY DEF Call, Nothing
    <3> QED BY <3>1, <3>2
  <2> QED BY <1>4, <2>1, <2>2 DEF WriteFile
<1>5. ASSUME NEW text \in Texts, NEW failed \in BOOLEAN, Bash(text, failed)
      PROVE  last'.isError => files' = files
  <2> DEFINE call == [Nothing EXCEPT !.tool = "bash", !.failed = failed]
             content == CommandOutput(text, failed)
  <2>1. last' = [call EXCEPT !.content = content] \/ last' = call
    BY <1>5 DEF Bash, Result, Throw
  <2>2. call.isError = FALSE /\ [call EXCEPT !.content = content].isError = FALSE
    BY DEF Nothing
  <2> QED BY <2>1, <2>2
<1>6. CASE Create
  BY <1>6, NothingFacts DEF Create
<1>7. CASE UNCHANGED vars
  BY <1>7 DEF vars
<1> QED BY <1>1, <1>2, <1>3, <1>4, <1>5, <1>6, <1>7 DEF Next, Execute

\* Whatever the model gives and the commands do, an error result means that the files
\* are as they were before the call (fs.tools.ts throws ToolExecutionError only before
\* or instead of a write).
THEOREM ErrorsChangeNothing == Spec => ErrorChangedNothing
<1>1. [Next]_vars => (last'.isError => files' = files) BY ErrorStep
<1> QED BY <1>1, PTL DEF Spec, ErrorChangedNothing

\* Every tool call gets its target from ResolveWorkspacePath and is remembered with
\* where its path leads.
LEMMA TargetStep ==
  ASSUME WorksWherePathLeads, [Next]_vars
  PROVE  WorksWherePathLeads'
<1> DEFINE Leads(r) ==
      r.tool \in {"read_file", "list_files", "write_file"} =>
        r.target = IF r.leads # None /\ InWorkspace(r.leads) THEN r.leads ELSE None
<1>1. ASSUME NEW given \in Given, NEW tool, NEW r,
             \/ r = Call(tool, given, ResolveWorkspacePath(given))
             \/ \E content : r = [Call(tool, given, ResolveWorkspacePath(given))
                                    EXCEPT !.content = content]
             \/ r = [Call(tool, given, ResolveWorkspacePath(given)) EXCEPT !.isError = TRUE]
      PROVE  Leads(r)
  <2>1. r.leads = Walk(given) /\ r.target = ResolveWorkspacePath(given) BY <1>1 DEF Call, Nothing
  <2>2. ResolveWorkspacePath(given) =
          IF Walk(given) # None /\ InWorkspace(Walk(given)) THEN Walk(given) ELSE None
    BY LeadsToTarget
  <2> QED BY <2>1, <2>2
<1>2. WorksWherePathLeads' <=> Leads(last') BY DEF WorksWherePathLeads, InWorkspace
<1>3. Leads(Nothing) /\ Leads([Nothing EXCEPT !.isError = TRUE]) BY NothingFacts
<1>4. CASE UnknownTool
  BY <1>2, <1>3, <1>4 DEF UnknownTool, ToolError
<1>5. ASSUME NEW given \in Given, ReadFile(given)
      PROVE  Leads(last')
  <2> DEFINE call == Call("read_file", given, ResolveWorkspacePath(given))
  <2>1. \/ \E content : last' = [call EXCEPT !.content = content]
        \/ last' = [call EXCEPT !.isError = TRUE]
    BY <1>5 DEF ReadFile, ToolError, Result
  <2> HIDE DEF Leads
  <2> QED BY <2>1, <1>1
<1>6. ASSUME NEW given \in Given, ListFiles(given)
      PROVE  Leads(last')
  <2> DEFINE call == Call("list_files", given, ResolveWorkspacePath(given))
  <2>1. \/ \E content : last' = [call EXCEPT !.content = content]
        \/ last' = [call EXCEPT !.isError = TRUE]
    BY <1>6 DEF ListFiles, ToolError, Result
  <2> HIDE DEF Leads
  <2> QED BY <2>1, <1>1
<1>7. ASSUME NEW given \in Given, NEW text \in Texts, WriteFile(given, text)
      PROVE  Leads(last')
  <2> DEFINE call == Call("write_file", given, ResolveWorkspacePath(given))
  <2>1. \/ \E content : last' = [call EXCEPT !.content = content]
        \/ last' = [call EXCEPT !.isError = TRUE]
        \/ last' = call
    BY <1>7 DEF WriteFile, ToolError, Result, Throw
  <2> HIDE DEF Leads
  <2> QED BY <2>1, <1>1
<1>8. ASSUME NEW text \in Texts, NEW failed \in BOOLEAN, Bash(text, failed)
      PROVE  Leads(last')
  <2> DEFINE call == [Nothing EXCEPT !.tool = "bash", !.failed = failed]
             content == CommandOutput(text, failed)
  <2>1. last' = [call EXCEPT !.content = content] \/ last' = call
    BY <1>8 DEF Bash, Result, Throw
  <2>2. last'.tool = "bash" BY <2>1 DEF Nothing
  <2> QED BY <2>2
<1>9. CASE Create
  BY <1>2, <1>3, <1>9 DEF Create
<1>10. CASE UNCHANGED vars
  BY <1>10 DEF vars, WorksWherePathLeads
<1> HIDE DEF Leads
<1> QED BY <1>2, <1>4, <1>5, <1>6, <1>7, <1>8, <1>9, <1>10 DEF Next, Execute

\* The normalized path leads where the path itself leads, so that a tool works there
\* or, outside the workspace, nowhere (resolveWorkspacePath).
THEOREM ToolsWorkWherePathsLead == Spec => []WorksWherePathLeads
<1>1. Init => WorksWherePathLeads
  BY NothingFacts DEF Init, WorksWherePathLeads
<1>2. WorksWherePathLeads /\ [Next]_vars => WorksWherePathLeads' BY TargetStep
<1> QED BY <1>1, <1>2, PTL DEF Spec

-----------------------------------------------------------------------------
(* Files                                                                   *)

HoldsTexts(f) == \A p \in DOMAIN f : f[p] \in Texts

\* What is remembered of the writes is there, in the workspace.
StillThere(w, f) ==
  \A p \in DOMAIN w : p \in DOMAIN f /\ f[p] = w[p] /\ InWorkspace(p)

FilesInv == HoldsTexts(files) /\ StillThere(written, files)

LEMMA WriteKeeps ==
  ASSUME NEW f, NEW w, HoldsTexts(f), StillThere(w, f),
         NEW path, InWorkspace(path), NEW text \in Texts
  PROVE  /\ HoldsTexts(With(f, path, text))
         /\ StillThere(With(w, path, text), With(f, path, text))
<1> DEFINE g == With(f, path, text)
           v == With(w, path, text)
<1>1. /\ DOMAIN g = DOMAIN f \cup {path} /\ g[path] = text
      /\ \A p \in DOMAIN f : p # path => g[p] = f[p]
  BY DEF With
<1>2. /\ DOMAIN v = DOMAIN w \cup {path} /\ v[path] = text
      /\ \A p \in DOMAIN w : p # path => v[p] = w[p]
  BY DEF With
<1> HIDE DEF g, v
<1>3. HoldsTexts(g) BY <1>1 DEF HoldsTexts
<1>4. StillThere(v, g)
  <2> SUFFICES ASSUME NEW p \in DOMAIN v
               PROVE  p \in DOMAIN g /\ g[p] = v[p] /\ InWorkspace(p)
    BY DEF StillThere
  <2>1. CASE p = path BY <2>1, <1>1, <1>2
  <2>2. CASE p # path
    <3>1. p \in DOMAIN w BY <2>2, <1>2
    <3>2. p \in DOMAIN f /\ f[p] = w[p] /\ InWorkspace(p) BY <3>1 DEF StillThere
    <3> QED BY <2>2, <3>1, <3>2, <1>1, <1>2
  <2> QED BY <2>1, <2>2
<1> QED BY <1>3, <1>4 DEF g, v

LEMMA CommandKeeps ==
  ASSUME NEW f, NEW w, HoldsTexts(f), StillThere(w, f), NEW path, NEW text \in Texts
  PROVE  /\ HoldsTexts(With(f, path, text)) /\ HoldsTexts(Without(f, path))
         /\ StillThere(Without(w, path), With(f, path, text))
         /\ StillThere(Without(w, path), Without(f, path))
<1> DEFINE g == With(f, path, text)
           h == Without(f, path)
           v == Without(w, path)
<1>1. /\ DOMAIN g = DOMAIN f \cup {path} /\ g[path] = text
      /\ \A p \in DOMAIN f : p # path => g[p] = f[p]
  BY DEF With
<1>2. /\ DOMAIN h = DOMAIN f \ {path} /\ \A p \in DOMAIN f \ {path} : h[p] = f[p]
  BY DEF Without
<1>3. /\ DOMAIN v = DOMAIN w \ {path} /\ \A p \in DOMAIN w \ {path} : v[p] = w[p]
  BY DEF Without
<1> HIDE DEF g, h, v
<1>4. HoldsTexts(g) /\ HoldsTexts(h) BY <1>1, <1>2 DEF HoldsTexts
<1>5. ASSUME NEW p \in DOMAIN v
      PROVE  /\ p \in DOMAIN g /\ g[p] = v[p] /\ InWorkspace(p)
             /\ p \in DOMAIN h /\ h[p] = v[p]
  <2>1. p \in DOMAIN w /\ p # path BY <1>3
  <2>2. p \in DOMAIN f /\ f[p] = w[p] /\ InWorkspace(p) BY <2>1 DEF StillThere
  <2> QED BY <2>1, <2>2, <1>1, <1>2, <1>3
<1>6. StillThere(v, g) /\ StillThere(v, h) BY <1>5 DEF StillThere
<1> QED BY <1>4, <1>6 DEF g, h, v

LEMMA FilesInvInit == Init => FilesInv
<1> SUFFICES ASSUME Init PROVE FilesInv
  OBVIOUS
<1>1. DOMAIN <<>> = {} OBVIOUS
<1>2. files = <<>> /\ written = <<>> BY DEF Init
<1> QED BY <1>1, <1>2 DEF FilesInv, HoldsTexts, StillThere

LEMMA FilesInvStep ==
  ASSUME FilesInv, [Next]_vars
  PROVE  FilesInv'
<1>1. FilesInv' <=> HoldsTexts(files') /\ StillThere(written', files')
  BY DEF FilesInv, HoldsTexts, StillThere, InWorkspace
<1>2. HoldsTexts(files) /\ StillThere(written, files) BY DEF FilesInv
<1>3. CASE UNCHANGED <<files, written>>
  BY <1>1, <1>2, <1>3
<1>4. CASE UnknownTool
  BY <1>3, <1>4 DEF UnknownTool, ToolError
<1>5. ASSUME NEW given \in Given, ReadFile(given) PROVE FilesInv'
  BY <1>3, <1>5 DEF ReadFile, ToolError
<1>6. ASSUME NEW given \in Given, ListFiles(given) PROVE FilesInv'
  BY <1>3, <1>6 DEF ListFiles, ToolError
<1>7. ASSUME NEW given \in Given, NEW text \in Texts, WriteFile(given, text)
      PROVE  FilesInv'
  <2> DEFINE path == ResolveWorkspacePath(given)
  <2>1. CASE UNCHANGED <<files, written>> BY <2>1, <1>3
  <2>2. CASE /\ path # None
             /\ files' = With(files, path, text)
             /\ written' = With(written, Walk(given), text)
    <3>1. Walk(given) = path /\ InWorkspace(path) BY <2>2, LeadsToTarget
    <3> HIDE DEF path
    <3>2. /\ HoldsTexts(With(files, path, text))
          /\ StillThere(With(written, path, text), With(files, path, text))
      BY <3>1, <1>2, WriteKeeps
    <3> QED BY <3>1, <3>2, <2>2, <1>1
  <2> QED BY <1>7, <2>1, <2>2 DEF WriteFile, ToolError
<1>8. ASSUME NEW text \in Texts, NEW failed \in BOOLEAN, Bash(text, failed)
      PROVE  FilesInv'
  <2>1. CASE UNCHANGED <<files, written>> BY <2>1, <1>3
  <2>2. ASSUME NEW f \in Touched, written' = Without(written, f),
               files' = With(files, f, text) \/ files' = Without(files, f)
        PROVE  FilesInv'
    <3>1. /\ HoldsTexts(With(files, f, text)) /\ HoldsTexts(Without(files, f))
          /\ StillThere(Without(written, f), With(files, f, text))
          /\ StillThere(Without(written, f), Without(files, f))
      BY <1>2, CommandKeeps
    <3> QED BY <3>1, <2>2, <1>1
  <2> QED BY <1>8, <2>1, <2>2 DEF Bash
<1>9. CASE Create
  <2>1. files' = <<>> /\ written' = <<>> BY <1>9 DEF Create
  <2>2. DOMAIN <<>> = {} OBVIOUS
  <2>3. HoldsTexts(<<>>) /\ StillThere(<<>>, <<>>) BY <2>2 DEF HoldsTexts, StillThere
  <2> QED BY <2>1, <2>3, <1>1
<1>10. CASE UNCHANGED vars
  BY <1>3, <1>10 DEF vars
<1> QED BY <1>4, <1>5, <1>6, <1>7, <1>8, <1>9, <1>10 DEF Next, Execute

-----------------------------------------------------------------------------
(* What is read                                                            *)

LEMMA TextsType ==
  ASSUME NEW text \in Texts
  PROVE  /\ text \in Seq(1..4) /\ text \in Seq(Characters)
         /\ text \in Seq(Characters \ {Notice})
         /\ ~ Contains(text, ExitCode)
<1>1. text \in Seq(1..4) BY TextsAssumption
<1>2. 1..4 \subseteq Characters /\ 1..4 \subseteq Characters \ {Notice} /\ ExitCode \notin 1..4
  BY DEF Characters, Notice, ExitCode
<1>3. text \in Seq(Characters) /\ text \in Seq(Characters \ {Notice})
  BY <1>1, <1>2, SeqMonotonic
<1>4. \A i \in 1..Len(text) : text[i] \in 1..4 BY <1>1
<1> QED BY <1>1, <1>2, <1>3, <1>4 DEF Contains

LEMMA ReadStep ==
  ASSUME FilesInv, FilesInv', ReadsWhatWasWritten, [Next]_vars
  PROVE  ReadsWhatWasWritten'
<1> SUFFICES ASSUME last'.tool = "read_file", ~ last'.isError, last'.leads \in DOMAIN written'
             PROVE  LET text == written'[last'.leads] IN
                    \/ last'.content = text
                    \/ \E n \in 0 .. Len(text) - 1 :
                         /\ Bytes(SubSeq(text, 1, n + 1)) > MaxOutputBytes
                         /\ \E cut \in {<<>>, <<Cut>>} :
                              last'.content = SubSeq(text, 1, n) \o cut \o <<Notice>>
  BY DEF ReadsWhatWasWritten
<1>1. CASE UnknownTool
  BY <1>1, NothingFacts DEF UnknownTool, ToolError
<1>2. ASSUME NEW given \in Given, ReadFile(given)
      PROVE  LET text == written'[last'.leads] IN
             \/ last'.content = text
             \/ \E n \in 0 .. Len(text) - 1 :
                  /\ Bytes(SubSeq(text, 1, n + 1)) > MaxOutputBytes
                  /\ \E cut \in {<<>>, <<Cut>>} :
                       last'.content = SubSeq(text, 1, n) \o cut \o <<Notice>>
  <2> DEFINE path == ResolveWorkspacePath(given)
             call == Call("read_file", given, path)
  <2>1. last' # [call EXCEPT !.isError = TRUE] BY DEF Call, Nothing
  <2>2. /\ path \in DOMAIN files
        /\ last' = [call EXCEPT !.content = Truncate(files[path])]
        /\ UNCHANGED <<files, written>>
    BY <1>2, <2>1 DEF ReadFile, ToolError, Result
  <2>3. last'.leads = Walk(given) /\ last'.content = Truncate(files[path])
    BY <2>2 DEF Call, Nothing
  <2>4. Walk(given) \in DOMAIN written /\ InWorkspace(Walk(given))
        /\ Walk(given) \in DOMAIN files /\ files[Walk(given)] = written[Walk(given)]
    BY <2>2, <2>3 DEF FilesInv, StillThere
  <2>5. path = Walk(given) BY <2>4, LeadsToTarget
  <2>6. PICK text \in Texts : text = files[path]
    BY <2>2 DEF FilesInv, HoldsTexts
  <2>7. written'[last'.leads] = text /\ last'.content = Truncate(text)
    BY <2>2, <2>3, <2>4, <2>5, <2>6
  <2>8. CASE Truncate(text) = text BY <2>7, <2>8
  <2>9. CASE \E n, cut : CutAt(text, n, cut, Truncate(text))
    <3>1. PICK n, cut : CutAt(text, n, cut, Truncate(text)) BY <2>9
    <3>2. /\ n \in 0..(Len(text) - 1) /\ Bytes(SubSeq(text, 1, n + 1)) > MaxOutputBytes
          /\ cut \in {<<>>, <<Cut>>}
          /\ Truncate(text) = SubSeq(text, 1, n) \o cut \o <<Notice>>
      BY <3>1 DEF CutAt
    <3> QED BY <3>2, <2>7, Zenon
  <2>10. text \in Seq(Characters) BY TextsType
  <2> QED BY <2>8, <2>9, <2>10, TruncateCuts
<1>3. ASSUME NEW given \in Given, ListFiles(given) PROVE FALSE
  BY <1>3 DEF ListFiles, ToolError, Result, Call, Nothing
<1>4. ASSUME NEW given \in Given, NEW text \in Texts, WriteFile(given, text) PROVE FALSE
  BY <1>4 DEF WriteFile, ToolError, Result, Throw, Call, Nothing
<1>5. ASSUME NEW text \in Texts, NEW failed \in BOOLEAN, Bash(text, failed) PROVE FALSE
  <2> DEFINE call == [Nothing EXCEPT !.tool = "bash", !.failed = failed]
             content == CommandOutput(text, failed)
  <2>1. last' = [call EXCEPT !.content = content] \/ last' = call
    BY <1>5 DEF Bash, Result, Throw
  <2>2. last'.tool = "bash" BY <2>1 DEF Nothing
  <2> QED BY <2>2
<1>6. CASE Create
  <2>1. written' = <<>> BY <1>6 DEF Create
  <2>2. DOMAIN <<>> = {} OBVIOUS
  <2> QED BY <2>1, <2>2
<1>7. CASE UNCHANGED vars
  BY <1>7 DEF vars, ReadsWhatWasWritten
<1> QED BY <1>1, <1>2, <1>3, <1>4, <1>5, <1>6, <1>7 DEF Next, Execute

\* What write_file wrote is what read_file reads of the same place, by whatever path,
\* and a cut is where the limit is crossed (ReadFileTool, WriteFileTool, truncate).
THEOREM ReadsSeeWrites == Spec => []ReadsWhatWasWritten
<1>1. Init => FilesInv /\ ReadsWhatWasWritten
  <2>1. DOMAIN <<>> = {} OBVIOUS
  <2>2. Init => ReadsWhatWasWritten BY <2>1 DEF Init, ReadsWhatWasWritten
  <2> QED BY <2>2, FilesInvInit
<1>2. FilesInv /\ ReadsWhatWasWritten /\ [Next]_vars => (FilesInv /\ ReadsWhatWasWritten)'
  BY FilesInvStep, ReadStep
<1> QED BY <1>1, <1>2, PTL DEF Spec

-----------------------------------------------------------------------------
(* What is printed                                                         *)

\* The output of a command is bounded and has the exit code if the command failed.
LEMMA CommandOutputFacts ==
  ASSUME NEW text \in Texts, NEW failed \in BOOLEAN
  PROVE  /\ Bytes(Printed(CommandOutput(text, failed))) <= MaxOutputBytes + 2
         /\ failed <=> Contains(CommandOutput(text, failed), ExitCode)
<1>1. CASE failed
  <2> DEFINE S == Characters \ {Notice}
             code == <<ExitCode>>
             whole == code \o text
  <2>1. code \in Seq(S) /\ Len(code) = 1 /\ code[1] = ExitCode
    BY DEF Characters, ExitCode, Notice
  <2>2. text \in Seq(S) /\ Len(text) \in Nat BY TextsType
  <2>3. CommandOutput(text, failed) = Truncate(whole) BY <1>1 DEF CommandOutput
  <2> HIDE DEF S, code
  <2>4. /\ whole \in Seq(S) /\ Len(whole) = Len(code) + Len(text)
        /\ \A i \in 1..(Len(code) + Len(text)) :
             whole[i] = IF i <= Len(code) THEN code[i] ELSE text[i - Len(code)]
    BY <2>1, <2>2, ConcatProperties
  <2> HIDE DEF whole
  <2>5. Len(whole) > 0 /\ whole[1] = ExitCode
    <3>1. 1 \in 1..(Len(code) + Len(text)) /\ 1 <= Len(code) BY <2>1, <2>2
    <3> QED BY <2>1, <2>2, <2>4, <3>1
  <2>6. whole \in Seq(Characters \ {Notice}) BY <2>4 DEF S
  <2>7. whole \in Seq(Characters) BY <2>6, SeqMonotonic
  <2>8. Contains(Truncate(whole), ExitCode) BY <2>5, <2>7, TruncateKeepsExitCode
  <2>9. Bytes(Printed(Truncate(whole))) <= MaxOutputBytes + 2 BY <2>6, TruncateIsBounded
  <2> QED BY <1>1, <2>3, <2>8, <2>9
<1>2. CASE ~ failed
  <2>1. CommandOutput(text, failed) = Truncate(text) BY <1>2 DEF CommandOutput
  <2>2. ~ Contains(Truncate(text), ExitCode) BY TextsType, TruncateAddsNoExitCode
  <2>3. Bytes(Printed(Truncate(text))) <= MaxOutputBytes + 2 BY TextsType, TruncateIsBounded
  <2> QED BY <1>2, <2>1, <2>2, <2>3
<1> QED BY <1>1, <1>2

\* What the model gets of a call that printed nothing, and of one that did.
PrintsWithin(r) ==
  /\ r.tool \in {"read_file", "bash"} => Bytes(Printed(r.content)) <= MaxOutputBytes + 2
  /\ r.tool = "bash" => (r.failed <=> Contains(r.content, ExitCode))

LEMMA NothingPrinted ==
  /\ Bytes(Printed(<<>>)) <= MaxOutputBytes + 2
  /\ ~ Contains(<<>>, ExitCode)
<1>1. Printed(<<>>) = <<>> BY DEF Printed
<1>2. Bytes(Printed(<<>>)) = 0 BY <1>1, BytesAppends
<1>3. MaxOutputBytes \in Nat BY TextsAssumption
<1>4. 1..Len(<<>>) = {} OBVIOUS
<1> QED BY <1>2, <1>3, <1>4 DEF Contains

LEMMA OutputStep ==
  ASSUME FilesInv, OutputBounded, [Next]_vars
  PROVE  OutputBounded'
<1>1. OutputBounded' <=> (live' => PrintsWithin(last'))
  BY DEF OutputBounded, PrintsWithin
<1>2. CASE UnknownTool
  <2>1. last'.content = <<>> /\ last'.failed = FALSE
    BY <1>2, NothingFacts DEF UnknownTool, ToolError
  <2> QED BY <1>1, <2>1, NothingPrinted DEF PrintsWithin
<1>3. ASSUME NEW given \in Given, ReadFile(given) PROVE OutputBounded'
  <2> DEFINE path == ResolveWorkspacePath(given)
             call == Call("read_file", given, path)
  <2>1. CASE last' = [call EXCEPT !.isError = TRUE]
    <3>1. last'.content = <<>> /\ last'.tool = "read_file" BY <2>1 DEF Call, Nothing
    <3> QED BY <1>1, <3>1, NothingPrinted DEF PrintsWithin
  <2>2. CASE path \in DOMAIN files /\ last' = [call EXCEPT !.content = Truncate(files[path])]
    <3>1. PICK text \in Texts : text = files[path] BY <2>2 DEF FilesInv, HoldsTexts
    <3>2. last'.content = Truncate(text) /\ last'.tool = "read_file"
      BY <2>2, <3>1 DEF Call, Nothing
    <3>3. Bytes(Printed(Truncate(text))) <= MaxOutputBytes + 2
      BY TextsType, TruncateIsBounded
    <3> QED BY <1>1, <3>2, <3>3 DEF PrintsWithin
  <2> QED BY <1>3, <2>1, <2>2 DEF ReadFile, ToolError, Result
<1>4. ASSUME NEW given \in Given, ListFiles(given) PROVE OutputBounded'
  <2>1. last'.tool = "list_files"
    BY <1>4 DEF ListFiles, ToolError, Result, Call, Nothing
  <2> QED BY <1>1, <2>1 DEF PrintsWithin
<1>5. ASSUME NEW given \in Given, NEW text \in Texts, WriteFile(given, text)
      PROVE  OutputBounded'
  <2>1. last'.tool = "write_file"
    BY <1>5 DEF WriteFile, ToolError, Result, Throw, Call, Nothing
  <2> QED BY <1>1, <2>1 DEF PrintsWithin
<1>6. ASSUME NEW text \in Texts, NEW failed \in BOOLEAN, Bash(text, failed)
      PROVE  OutputBounded'
  <2> DEFINE call == [Nothing EXCEPT !.tool = "bash", !.failed = failed]
             content == CommandOutput(text, failed)
  <2>1. CASE live' = FALSE BY <1>1, <2>1
  <2>2. CASE last' = [call EXCEPT !.content = content]
    <3>1. last'.tool = "bash" /\ last'.content = content /\ last'.failed = failed
      BY <2>2 DEF Nothing
    <3>2. /\ Bytes(Printed(content)) <= MaxOutputBytes + 2
          /\ failed <=> Contains(content, ExitCode)
      BY CommandOutputFacts
    <3> HIDE DEF content
    <3>3. PrintsWithin(last') BY <3>1, <3>2 DEF PrintsWithin
    <3> QED BY <1>1, <3>3
  <2> QED BY <1>6, <2>1, <2>2 DEF Bash, Result, Throw
<1>7. CASE Create
  <2>1. last'.content = <<>> /\ last'.failed = FALSE BY <1>7, NothingFacts DEF Create
  <2> QED BY <1>1, <2>1, NothingPrinted DEF PrintsWithin
<1>8. CASE UNCHANGED vars
  BY <1>8 DEF vars, OutputBounded
<1> QED BY <1>2, <1>3, <1>4, <1>5, <1>6, <1>7, <1>8 DEF Next, Execute

\* What a tool returns of a file or a command stays within MAX_OUTPUT_BYTES and the
\* width of U+FFFD, and the exit code of a failed command survives the cut (truncate,
\* runCommand).
THEOREM OutputsAreBounded == Spec => []OutputBounded
<1>1. Init => FilesInv /\ OutputBounded
  <2>1. ASSUME Init PROVE OutputBounded
    <3>1. last.content = <<>> /\ last.failed = FALSE BY <2>1, NothingFacts DEF Init
    <3> QED BY <3>1, NothingPrinted DEF OutputBounded
  <2> QED BY <2>1, FilesInvInit
<1>2. FilesInv /\ OutputBounded /\ [Next]_vars => (FilesInv /\ OutputBounded)'
  BY FilesInvStep, OutputStep
<1> QED BY <1>1, <1>2, PTL DEF Spec

==============================================================================
