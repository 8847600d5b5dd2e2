------------------------------- MODULE DataProofs -------------------------------
(***************************************************************************)
(* Theorems about the rules from a source to what the models are fitted    *)
(* on, for all their inputs: the sectors of a field, however many wells    *)
(* and edges it has; the windows, training steps and shut-ins of a history *)
(* of any length; and where the conversions of its wells cut a run.        *)
(*                                                                         *)
(* The induction that the recursive functions and the folds need is by     *)
(* sets: what is to be shown of all numbers is a set of them, which WFMin, *)
(* on the order of the naturals, shows to be all.                          *)
(***************************************************************************)
EXTENDS DataRules, FiniteSetTheorems, WellFoundedInduction, TLAPS

-----------------------------------------------------------------------------
(***************************************************************************)
(* Induction over data, with sets for predicates, and folds.               *)
(***************************************************************************)
LEMMA LeastOfSet ==
  ASSUME NEW T \in SUBSET Nat, T # {}
  PROVE  \E x \in T : \A y \in T : ~(y < x)
<1> DEFINE R == OpToRel(<, Nat)
<1>1. IsWellFoundedOn(R, Nat)
  BY NatLessThanWellFounded, Zenon
<1>2. R = {ss \in Nat \X Nat : ss[1] < ss[2]}
  BY DEF OpToRel
<1> HIDE DEF R
<1>3. PICK x \in T : \A y \in T : ~(<<y, x>> \in R)
  BY <1>1, WFMin
<1>4. \A y \in T : y < x => <<y, x>> \in R
  BY <1>2
<1> QED
  BY <1>3, <1>4

LEMMA SetInduction ==
  ASSUME NEW T, 0 \in T, \A n \in Nat : n \in T => n + 1 \in T
  PROVE  Nat \subseteq T
<1> SUFFICES ASSUME Nat \ T # {} PROVE FALSE
  OBVIOUS
<1>1. PICK x \in Nat \ T : \A y \in Nat \ T : ~(y < x)
  BY LeastOfSet
<1>2. x # 0 /\ x - 1 \in Nat /\ x - 1 < x /\ (x - 1) + 1 = x
  BY <1>1
<1> QED
  BY <1>1, <1>2

LEMMA LastOfUpTo ==
  ASSUME NEW n \in Nat, NEW s \in SUBSET (1 .. n + 1)
  PROVE  /\ n + 1 \in s => /\ s # {} /\ Max(s) = n + 1
                           /\ s \ {n + 1} \in SUBSET (1 .. n)
         /\ n + 1 \notin s => s \in SUBSET (1 .. n)
<1>1. \A k \in 1 .. n + 1 : k = n + 1 \/ k \in 1 .. n
  OBVIOUS
<1>2. ASSUME n + 1 \in s PROVE Max(s) = n + 1
  <2>1. \A y \in s : n + 1 >= y
    OBVIOUS
  <2>2. \A x \in s : (\A y \in s : x >= y) => x = n + 1
    BY <1>2
  <2> QED
    BY <1>2, <2>1, <2>2 DEF Max
<1> QED
  BY <1>1, <1>2

(***************************************************************************)
(* FoldLeft goes through the indices from the last one down.  h is such a  *)
(* fold: F gives what the k-th element makes of what was there before.     *)
(***************************************************************************)
IsFold(h, F, base, n) ==
  /\ h[{}] = base
  /\ \A s \in SUBSET (1 .. n) :
       s # {} => h[s] = F[Max(s)][h[s \ {Max(s)}]]

HasFold(A, F, base, n) ==
  \E h \in [SUBSET (1 .. n) -> A] : IsFold(h, F, base, n)

LEMMA FoldExists ==
  ASSUME NEW A, NEW base \in A, NEW N \in Nat, NEW F \in [1 .. N -> [A -> A]]
  PROVE  HasFold(A, F, base, N)
<1> DEFINE T == { n \in Nat : n <= N => HasFold(A, F, base, n) }
<1>1. 0 \in T
  <2> DEFINE h == [s \in SUBSET (1 .. 0) |-> base]
  <2>1. 1 .. 0 = {} /\ SUBSET (1 .. 0) = {{}}
    OBVIOUS
  <2>2. IsFold(h, F, base, 0)
    BY <2>1 DEF IsFold
  <2>3. h \in [SUBSET (1 .. 0) -> A]
    OBVIOUS
  <2> QED
    BY <2>2, <2>3 DEF HasFold
<1>2. ASSUME NEW n \in Nat, n \in T PROVE n + 1 \in T
  <2> SUFFICES ASSUME n + 1 <= N PROVE HasFold(A, F, base, n + 1)
    OBVIOUS
  <2>0. HasFold(A, F, base, n)
    BY <1>2
  <2>1. PICK g \in [SUBSET (1 .. n) -> A] : IsFold(g, F, base, n)
    BY <2>0 DEF HasFold
  <2> DEFINE h == [s \in SUBSET (1 .. n + 1) |->
                     IF n + 1 \in s THEN F[n + 1][g[s \ {n + 1}]] ELSE g[s]]
  <2>2. ASSUME NEW s \in SUBSET (1 .. n) PROVE h[s] = g[s]
    <3>1. s \in SUBSET (1 .. n + 1) /\ n + 1 \notin s
      OBVIOUS
    <3> QED
      BY <3>1
  <2>3. ASSUME NEW s \in SUBSET (1 .. n + 1), n + 1 \in s
        PROVE  /\ s # {} /\ Max(s) = n + 1 /\ s \ {n + 1} \in SUBSET (1 .. n)
               /\ h[s] = F[n + 1][g[s \ {n + 1}]]
               /\ h[s] \in A
    <3>1. s # {} /\ Max(s) = n + 1 /\ s \ {n + 1} \in SUBSET (1 .. n)
      BY <2>3, LastOfUpTo
    <3>2. h[s] = F[n + 1][g[s \ {n + 1}]]
      BY <2>3
    <3>3. g[s \ {n + 1}] \in A /\ n + 1 \in 1 .. N
      BY <3>1
    <3> QED
      BY <3>1, <3>2, <3>3
  <2>4. ASSUME NEW s \in SUBSET (1 .. n + 1), n + 1 \notin s
        PROVE  s \in SUBSET (1 .. n) /\ h[s] = g[s] /\ h[s] \in A
    <3>1. s \in SUBSET (1 .. n)
      BY <2>4, LastOfUpTo
    <3> HIDE DEF h
    <3> QED
      BY <2>2, <3>1
  <2>5. h \in [SUBSET (1 .. n + 1) -> A]
    <3>1. DOMAIN h = SUBSET (1 .. n + 1)
      OBVIOUS
    <3>2. h = [s \in SUBSET (1 .. n + 1) |-> h[s]]
      OBVIOUS
    <3> HIDE DEF h
    <3> QED
      BY <2>3, <2>4, <3>1, <3>2
  <2> HIDE DEF h
  <2>6. IsFold(h, F, base, n + 1)
    <3>1. h[{}] = base
      BY <2>1, <2>2 DEF IsFold
    <3>2. ASSUME NEW s \in SUBSET (1 .. n + 1), s # {}
          PROVE  h[s] = F[Max(s)][h[s \ {Max(s)}]]
      <4>1. CASE n + 1 \in s
        BY <2>2, <2>3, <4>1
      <4>2. CASE n + 1 \notin s
        <5>1. s \in SUBSET (1 .. n) /\ h[s] = g[s]
          BY <2>4, <4>2
        <5>2. s \ {Max(s)} \in SUBSET (1 .. n)
          BY <5>1
        <5>3. g[s] = F[Max(s)][g[s \ {Max(s)}]]
          BY <2>1, <3>2, <5>1 DEF IsFold
        <5> QED
          BY <2>2, <5>1, <5>2, <5>3
      <4> QED
        BY <4>1, <4>2
    <3> QED
      BY <3>1, <3>2 DEF IsFold
  <2> QED
    BY <2>5, <2>6 DEF HasFold
<1> HIDE DEF T
<1>3. Nat \subseteq T
  BY <1>1, <1>2, SetInduction
<1> QED
  BY <1>3 DEF T

(***************************************************************************)
(* The values on the way, from the first element to the last, where the    *)
(* steps are known only for values of A.                                   *)
(***************************************************************************)
FoldsIn(h, F, A, base, n) ==
  /\ h[{}] = base
  /\ \A s \in SUBSET (1 .. n) :
       s # {} /\ h[s \ {Max(s)}] \in A
         => h[s] = F[Max(s)][h[s \ {Max(s)}]]

LEMMA FoldGoesOn ==
  ASSUME NEW A, NEW base \in A, NEW n \in Nat, NEW h,
         NEW F \in [1 .. n -> [A -> A]], FoldsIn(h, F, A, base, n)
  PROVE  \A k \in 0 .. n :
           /\ h[1 .. k] \in A
           /\ k = 0 => h[1 .. k] = base
           /\ k # 0 => h[1 .. k] = F[k][h[1 .. k - 1]]
<1> DEFINE T == { k \in Nat : k <= n =>
                    /\ h[1 .. k] \in A
                    /\ k = 0 => h[1 .. k] = base
                    /\ k # 0 => h[1 .. k] = F[k][h[1 .. k - 1]] }
<1>1. 0 \in T
  <2>1. 1 .. 0 = {}
    OBVIOUS
  <2> QED
    BY <2>1 DEF FoldsIn
<1>2. ASSUME NEW k \in Nat, k \in T PROVE k + 1 \in T
  <2> SUFFICES ASSUME k + 1 <= n
               PROVE  /\ h[1 .. k + 1] \in A
                      /\ h[1 .. k + 1] = F[k + 1][h[1 .. (k + 1) - 1]]
    OBVIOUS
  <2>1. h[1 .. k] \in A
    BY <1>2
  <2>2. /\ 1 .. k + 1 \in SUBSET (1 .. k + 1) /\ k + 1 \in 1 .. k + 1
        /\ (1 .. k + 1) \ {k + 1} = 1 .. k
        /\ (k + 1) - 1 = k
        /\ 1 .. k + 1 \in SUBSET (1 .. n)
        /\ k + 1 \in 1 .. n
    OBVIOUS
  <2>3. 1 .. k + 1 # {} /\ Max(1 .. k + 1) = k + 1
    BY <2>2, LastOfUpTo
  <2>4. h[1 .. k + 1] = F[k + 1][h[1 .. k]]
    BY <2>1, <2>2, <2>3 DEF FoldsIn
  <2> QED
    BY <2>1, <2>2, <2>4
<1> HIDE DEF T
<1>3. Nat \subseteq T
  BY <1>1, <1>2, SetInduction
<1> QED
  BY <1>3 DEF T

LEMMA LastOfAny ==
  ASSUME NEW N \in Nat, NEW s \in SUBSET (1 .. N), s # {}
  PROVE  Max(s) \in s
<1> DEFINE HasLast(n) == \A d \in SUBSET (1 .. n) : d # {} => Max(d) \in d
           T == { n \in Nat : HasLast(n) }
<1>1. HasLast(0)
  <2>1. 1 .. 0 = {}
    OBVIOUS
  <2> QED
    BY <2>1
<1>2. ASSUME NEW n \in Nat, HasLast(n) PROVE HasLast(n + 1)
  <2> SUFFICES ASSUME NEW d \in SUBSET (1 .. n + 1), d # {} PROVE Max(d) \in d
    OBVIOUS
  <2>1. CASE n + 1 \in d
    BY <2>1, LastOfUpTo
  <2>2. CASE n + 1 \notin d
    <3>1. d \in SUBSET (1 .. n)
      BY <2>2, LastOfUpTo
    <3> QED
      BY <1>2, <3>1
  <2> QED
    BY <2>1, <2>2
<1> HIDE DEF HasLast
<1>3. 0 \in T /\ \A n \in Nat : n \in T => n + 1 \in T
  BY <1>1, <1>2
<1>4. Nat \subseteq T
  BY <1>3, SetInduction
<1>5. HasLast(N)
  BY <1>4
<1> QED
  BY <1>5 DEF HasLast


LEMMA LeastOf ==
  ASSUME NEW T \in SUBSET Nat, T # {}
  PROVE  \E x \in T : \A y \in T : x <= y
<1>1. PICK x \in T : \A y \in T : ~(y < x)
  BY LeastOfSet
<1> QED
  BY <1>1

LEMMA LatestOf ==
  ASSUME NEW n \in Nat, NEW T \in SUBSET (1 .. n), T # {}
  PROVE  \E x \in T : \A y \in T : y <= x
<1> DEFINE U == { k \in Nat : k <= n /\ n - k \in T }
<1>1. U # {}
  <2>1. PICK y \in T : TRUE
    OBVIOUS
  <2>2. n - y \in Nat /\ n - y <= n /\ n - (n - y) = y
    BY <2>1
  <2> QED
    BY <2>1, <2>2
<1>2. PICK k \in U : \A l \in U : k <= l
  BY <1>1, LeastOf
<1>3. n - k \in T /\ k \in Nat
  BY <1>2
<1>4. ASSUME NEW y \in T PROVE y <= n - k
  <2>1. n - y \in Nat /\ n - y <= n /\ n - (n - y) = y
    OBVIOUS
  <2>2. k <= n - y
    BY <1>2, <2>1
  <2> QED
    BY <1>3, <2>2
<1> QED
  BY <1>3, <1>4

(***************************************************************************)
(* A function that is computed from its value at the number before.        *)
(***************************************************************************)
IsIterate(h, F, base, n) ==
  /\ h[0] = base
  /\ \A k \in 1 .. n : h[k] = F[k][h[k - 1]]

HasIterate(A, F, base, n) ==
  \E h \in [0 .. n -> A] : IsIterate(h, F, base, n)

LEMMA IterateExists ==
  ASSUME NEW A, NEW base \in A, NEW N \in Nat, NEW F \in [1 .. N -> [A -> A]]
  PROVE  HasIterate(A, F, base, N)
<1> DEFINE T == { n \in Nat : n <= N => HasIterate(A, F, base, n) }
<1>1. 0 \in T
  <2> DEFINE h == [k \in 0 .. 0 |-> base]
  <2>1. h \in [0 .. 0 -> A] /\ h[0] = base /\ 1 .. 0 = {}
    OBVIOUS
  <2> QED
    BY <2>1 DEF IsIterate, HasIterate
<1>2. ASSUME NEW n \in Nat, n \in T PROVE n + 1 \in T
  <2> SUFFICES ASSUME n + 1 <= N PROVE HasIterate(A, F, base, n + 1)
    OBVIOUS
  <2>0. HasIterate(A, F, base, n)
    BY <1>2
  <2>1. PICK g \in [0 .. n -> A] : IsIterate(g, F, base, n)
    BY <2>0 DEF HasIterate
  <2> DEFINE h == [k \in 0 .. n + 1 |-> IF k = n + 1 THEN F[n + 1][g[n]] ELSE g[k]]
  <2>2. F[n + 1] \in [A -> A] /\ g[n] \in A
    OBVIOUS
  <2>3. F[n + 1][g[n]] \in A
    BY <2>2
  <2>4. h \in [0 .. n + 1 -> A]
    BY <2>3
  <2>5. h[0] = base
    BY <2>1 DEF IsIterate
  <2>6. ASSUME NEW k \in 1 .. n + 1 PROVE h[k] = F[k][h[k - 1]]
    <3>1. CASE k = n + 1
      BY <3>1
    <3>2. CASE k # n + 1
      <4>1. k \in 1 .. n /\ k - 1 \in 0 .. n + 1 /\ k - 1 # n + 1 /\ k \in 0 .. n + 1
        BY <3>2
      <4>2. h[k] = g[k] /\ h[k - 1] = g[k - 1]
        BY <3>2, <4>1
      <4>3. g[k] = F[k][g[k - 1]]
        BY <2>1, <4>1 DEF IsIterate
      <4> QED
        BY <4>2, <4>3
    <3> QED
      BY <3>1, <3>2
  <2> HIDE DEF h
  <2> QED
    BY <2>4, <2>5, <2>6 DEF IsIterate, HasIterate
<1> HIDE DEF T
<1>3. Nat \subseteq T
  BY <1>1, <1>2, SetInduction
<1> QED
  BY <1>3 DEF T

-----------------------------------------------------------------------------
(***************************************************************************)
(* The numbers of a finite set in their order, as the code sorts them: the *)
(* k-th has k - 1 before it.                                               *)
(***************************************************************************)
Earlier(S, b) == { c \in S : c < b }

LEMMA EarlierGrow ==
  ASSUME NEW S \in SUBSET Int, IsFiniteSet(S)
  PROVE  /\ \A b \in S : Cardinality(Earlier(S, b)) \in 0 .. Cardinality(S) - 1
         /\ \A b, d \in S : b < d => Cardinality(Earlier(S, b)) < Cardinality(Earlier(S, d))
<1>1. \A T \in SUBSET S : IsFiniteSet(T) /\ Cardinality(T) \in Nat
  BY FS_Subset, FS_CardinalityType
<1>2. Cardinality(S) \in Nat
  BY FS_CardinalityType
<1>3. ASSUME NEW T \in SUBSET S, NEW U \in SUBSET S, T \subseteq U, T # U
      PROVE  Cardinality(T) < Cardinality(U)
  <2>1. IsFiniteSet(U) /\ T \in SUBSET U
    BY <1>1, <1>3
  <2>2. Cardinality(T) <= Cardinality(U) /\ (Cardinality(U) = Cardinality(T) => U = T)
    BY <2>1, FS_Subset
  <2> QED
    BY <1>1, <1>3, <2>2
<1>4. ASSUME NEW b \in S PROVE Cardinality(Earlier(S, b)) \in 0 .. Cardinality(S) - 1
  <2>1. Earlier(S, b) \in SUBSET S /\ Earlier(S, b) # S /\ S \in SUBSET S
    BY DEF Earlier
  <2>2. Cardinality(Earlier(S, b)) < Cardinality(S) /\ Cardinality(Earlier(S, b)) \in Nat
    BY <1>1, <1>3, <2>1
  <2> QED
    BY <1>2, <2>2
<1>5. ASSUME NEW b \in S, NEW d \in S, b < d
      PROVE  Cardinality(Earlier(S, b)) < Cardinality(Earlier(S, d))
  <2>1. b \in Int /\ d \in Int /\ \A c \in S : c \in Int
    OBVIOUS
  <2>2. Earlier(S, b) \in SUBSET S /\ Earlier(S, d) \in SUBSET S
    BY DEF Earlier
  <2>3. ASSUME NEW c \in Earlier(S, b) PROVE c \in Earlier(S, d)
    <3>1. c \in S /\ c < b /\ c \in Int
      BY DEF Earlier
    <3>2. c < d
      BY <1>5, <2>1, <3>1
    <3> QED
      BY <3>1, <3>2 DEF Earlier
  <2>4. b \in Earlier(S, d) /\ b \notin Earlier(S, b)
    BY <1>5, <2>1 DEF Earlier
  <2> QED
    BY <1>3, <2>2, <2>3, <2>4
<1> QED
  BY <1>4, <1>5

\* Some number of the set has k - 1 before it.
LEMMA EachHasItsPlace ==
  ASSUME NEW S \in SUBSET Int, IsFiniteSet(S), NEW k \in 1 .. Cardinality(S)
  PROVE  \E b \in S : Cardinality(Earlier(S, b)) = k - 1
<1> DEFINE m == Cardinality(S)
           r == [b \in S |-> Cardinality(Earlier(S, b))]
<1>1. m \in Nat
  BY FS_CardinalityType
<1>2. r \in [S -> 0 .. m - 1]
  BY EarlierGrow
<1>3. \A b, d \in S : r[b] = r[d] => b = d
  <2>1. \A b, d \in S : b < d => r[b] < r[d]
    BY EarlierGrow
  <2>2. \A b, d \in S : b = d \/ b < d \/ d < b
    OBVIOUS
  <2>3. \A b \in S : r[b] \in Int
    BY <1>2, <1>1
  <2> HIDE DEF r
  <2> QED
    BY <2>1, <2>2, <2>3
<1>4. IsFiniteSet(0 .. m - 1) /\ Cardinality(0 .. m - 1) = m
  <2>1. 0 \in Int /\ m - 1 \in Int
    BY <1>1
  <2>2. /\ IsFiniteSet(0 .. m - 1)
        /\ Cardinality(0 .. m - 1) = IF 0 > m - 1 THEN 0 ELSE (m - 1) - 0 + 1
    BY <2>1, FS_Interval
  <2> HIDE DEF m
  <2> QED
    BY <1>1, <2>2
<1> HIDE DEF r
<1>5. r \in Injection(S, 0 .. m - 1)
  BY <1>2, <1>3 DEF Injection, IsInjective
<1>6. r \in Surjection(S, 0 .. m - 1)
  BY <1>4, <1>5, FS_Injection
<1>7. \A j \in 0 .. m - 1 : \E b \in S : r[b] = j
  BY <1>6 DEF Surjection
<1>8. k - 1 \in 0 .. m - 1
  BY <1>1
<1> QED
  BY <1>7, <1>8 DEF r

LEMMA InOrder ==
  ASSUME NEW S \in SUBSET Int, IsFiniteSet(S), NEW m, m = Cardinality(S),
         NEW e \in [1 .. m -> S],
         \A k \in 1 .. m : Cardinality(Earlier(S, e[k])) = k - 1
  PROVE  /\ \A k, l \in 1 .. m : k < l => e[k] < e[l]
         /\ \A b \in S : \E k \in 1 .. m : e[k] = b
<1> DEFINE r(b) == Cardinality(Earlier(S, b))
<1>1. m \in Nat
  BY FS_CardinalityType
<1>2. \A k \in 1 .. m : e[k] \in S /\ r(e[k]) = k - 1
  OBVIOUS
<1>4. \A b \in S : r(b) \in 0 .. m - 1
  BY EarlierGrow
<1>5. \A b, d \in S : b < d => r(b) < r(d)
  BY EarlierGrow
<1>6. \A b \in S : b \in Int
  OBVIOUS
<1>7. \A b, d \in S : b = d \/ b < d \/ d < b
  OBVIOUS
<1> HIDE DEF r
<1>8. ASSUME NEW k \in 1 .. m, NEW l \in 1 .. m, k < l PROVE e[k] < e[l]
  <2>1. r(e[k]) = k - 1 /\ r(e[l]) = l - 1 /\ e[k] \in S /\ e[l] \in S
    BY <1>2
  <2>2. ~ (r(e[l]) < r(e[k])) /\ r(e[k]) # r(e[l])
    BY <1>1, <1>8, <2>1
  <2> QED
    BY <1>5, <1>7, <2>1, <2>2
<1>9. ASSUME NEW b \in S PROVE \E k \in 1 .. m : e[k] = b
  <2>1. r(b) + 1 \in 1 .. m /\ (r(b) + 1) - 1 = r(b)
    BY <1>1, <1>4
  <2>2. e[r(b) + 1] \in S /\ r(e[r(b) + 1]) = r(b)
    BY <1>2, <2>1
  <2>3. r(b) \in Int
    BY <1>1, <1>4
  <2>4. ~ (r(b) < r(b))
    BY <2>3
  <2>5. e[r(b) + 1] = b
    BY <1>5, <1>7, <2>2, <2>4
  <2> QED
    BY <2>1, <2>5
<1> QED
  BY <1>8, <1>9

-----------------------------------------------------------------------------
(***************************************************************************)
(* Sectors.  FieldOK is what is known of a field: it has wells of both     *)
(* kinds, and a distance for each pair.                                    *)
(***************************************************************************)
FieldOK(f) ==
  /\ f.ni \in Nat \ {0} /\ f.np \in Nat \ {0}
  /\ f.dist \in [(1 .. f.ni) \X (1 .. f.np) -> Nat]
  /\ f.located \in BOOLEAN

WellsOf(f) == Sec!Wells(f.ni, f.np)

\* The wells an edge away from one.
Beside(f, v) ==
  IF v[1] = "I" THEN { Sec!Prod(e[2]) : e \in { d \in Sec!Edges(f) : Sec!Inj(d[1]) = v } }
                ELSE { Sec!Inj(e[1]) : e \in { d \in Sec!Edges(f) : Sec!Prod(d[2]) = v } }

\* No edge leaves a set.
IsClosed(f, s) == \A v \in s : Beside(f, v) \subseteq s

LEMMA WellIs ==
  ASSUME NEW f, NEW w \in WellsOf(f)
  PROVE  \/ w[1] = "I" /\ \E i \in 1 .. f.ni : w = Sec!Inj(i)
         \/ w[1] = "P" /\ \E j \in 1 .. f.np : w = Sec!Prod(j)
BY DEF WellsOf, Sec!Wells, Sec!Inj, Sec!Prod

LEMMA InjIs ==
  ASSUME NEW f, NEW i \in 1 .. f.ni
  PROVE  Sec!Inj(i) \in WellsOf(f) /\ Sec!Inj(i)[1] = "I" /\ Sec!Inj(i)[2] = i
BY DEF WellsOf, Sec!Wells, Sec!Inj, Sec!Prod

LEMMA ProdIs ==
  ASSUME NEW f, NEW j \in 1 .. f.np
  PROVE  Sec!Prod(j) \in WellsOf(f) /\ Sec!Prod(j)[1] = "P" /\ Sec!Prod(j)[2] = j
BY DEF WellsOf, Sec!Wells, Sec!Inj, Sec!Prod

LEMMA EdgeIs ==
  ASSUME NEW f, NEW e \in Sec!Edges(f)
  PROVE  /\ e[1] \in 1 .. f.ni /\ e[2] \in 1 .. f.np /\ e = <<e[1], e[2]>>
         /\ Sec!SameBlock(f.block[Sec!Inj(e[1])], f.block[Sec!Prod(e[2])])
BY DEF Sec!Edges, Sec!IsEdge

LEMMA BesideIs ==
  ASSUME NEW f, NEW v \in WellsOf(f), NEW u \in Beside(f, v)
  PROVE  /\ u \in WellsOf(f) /\ u[1] # v[1] /\ v \in Beside(f, u)
         /\ \/ f.block[u] = Sec!NoBlock \/ f.block[v] = Sec!NoBlock
            \/ f.block[u] = f.block[v]
<1>1. CASE v[1] = "I"
  <2>1. PICK e \in Sec!Edges(f) : Sec!Inj(e[1]) = v /\ u = Sec!Prod(e[2])
    BY <1>1 DEF Beside
  <2>2. e[1] \in 1 .. f.ni /\ e[2] \in 1 .. f.np
    BY EdgeIs
  <2>3. u \in WellsOf(f) /\ u[1] = "P"
    BY <2>1, <2>2, ProdIs
  <2>4. v \in Beside(f, u)
    BY <2>1, <2>3 DEF Beside
  <2>5. Sec!SameBlock(f.block[v], f.block[u])
    BY <2>1, EdgeIs
  <2> QED
    BY <1>1, <2>3, <2>4, <2>5 DEF Sec!SameBlock
<1>2. CASE v[1] # "I"
  <2>1. PICK e \in Sec!Edges(f) : Sec!Prod(e[2]) = v /\ u = Sec!Inj(e[1])
    BY <1>2 DEF Beside
  <2>2. e[1] \in 1 .. f.ni /\ e[2] \in 1 .. f.np
    BY EdgeIs
  <2>3. u \in WellsOf(f) /\ u[1] = "I"
    BY <2>1, <2>2, InjIs
  <2>4. v \in Beside(f, u)
    BY <2>1, <2>3 DEF Beside
  <2>5. Sec!SameBlock(f.block[u], f.block[v])
    BY <2>1, EdgeIs
  <2> QED
    BY <1>2, <2>3, <2>4, <2>5 DEF Sec!SameBlock
<1> QED
  BY <1>1, <1>2

LEMMA WellsFinite ==
  ASSUME NEW f, FieldOK(f)
  PROVE  /\ IsFiniteSet(WellsOf(f))
         /\ Cardinality(WellsOf(f)) \in Nat /\ Cardinality(WellsOf(f)) <= f.ni + f.np
<1> DEFINE N == f.ni + f.np
           g == [k \in 1 .. N |-> IF k <= f.ni THEN Sec!Inj(k) ELSE Sec!Prod(k - f.ni)]
<1>0. f.ni \in Nat /\ f.np \in Nat /\ N \in Nat
  BY DEF FieldOK
<1>1. ASSUME NEW k \in 1 .. N PROVE g[k] \in WellsOf(f)
  <2>1. CASE k <= f.ni
    BY <1>0, <2>1, InjIs
  <2>2. CASE ~(k <= f.ni)
    <3>1. k - f.ni \in 1 .. f.np
      BY <1>0, <2>2
    <3> QED
      BY <2>2, <3>1, ProdIs
  <2> QED
    BY <2>1, <2>2
<1>2. g \in [1 .. N -> WellsOf(f)]
  BY <1>1
<1>3. ASSUME NEW w \in WellsOf(f) PROVE \E k \in 1 .. N : g[k] = w
  <2>1. CASE \E i \in 1 .. f.ni : w = Sec!Inj(i)
    <3>1. PICK i \in 1 .. f.ni : w = Sec!Inj(i)
      BY <2>1
    <3>2. i \in 1 .. N /\ i <= f.ni
      BY <1>0
    <3> QED
      BY <3>1, <3>2
  <2>2. CASE \E j \in 1 .. f.np : w = Sec!Prod(j)
    <3>1. PICK j \in 1 .. f.np : w = Sec!Prod(j)
      BY <2>2
    <3>2. j + f.ni \in 1 .. N /\ ~(j + f.ni <= f.ni) /\ (j + f.ni) - f.ni = j
      BY <1>0
    <3> QED
      BY <3>1, <3>2
  <2> QED
    BY <2>1, <2>2, WellIs
<1> HIDE DEF g
<1>4. g \in Surjection(1 .. N, WellsOf(f))
  BY <1>2, <1>3 DEF Surjection
<1>5. ExistsSurjection(1 .. N, WellsOf(f))
  BY <1>4 DEF ExistsSurjection
<1> HIDE DEF N
<1>6. IsFiniteSet(WellsOf(f)) /\ Cardinality(WellsOf(f)) <= N
  BY <1>0, <1>5, FS_NatSurjection, FS_SurjCardinalityBound
<1>7. Cardinality(WellsOf(f)) \in Nat
  BY <1>6, FS_CardinalityType
<1> QED
  BY <1>6, <1>7 DEF N

(***************************************************************************)
(* A component grows from a well until no edge leaves it: it contains as   *)
(* many wells as it has grown steps, or grows no more, and there are no    *)
(* more wells than steps.                                                  *)
(***************************************************************************)
LEMMA ComponentGrows ==
  ASSUME NEW f, FieldOK(f), NEW w \in WellsOf(f)
  PROVE  \E h \in [0 .. f.ni + f.np -> SUBSET WellsOf(f)] :
           /\ h[0] = {w}
           /\ \A n \in 1 .. f.ni + f.np :
                h[n] = h[n - 1] \cup UNION { Beside(f, v) : v \in h[n - 1] }
           /\ Sec!Component(f, w) = h[f.ni + f.np]
<1> DEFINE N == f.ni + f.np
           A == SUBSET WellsOf(f)
           G == [s \in A |-> s \cup UNION { Beside(f, v) : v \in s }]
           F == [n \in 1 .. N |-> G]
<1>0. N \in Nat
  BY DEF FieldOK
<1>1. ASSUME NEW s \in A PROVE s \cup UNION { Beside(f, v) : v \in s } \in A
  BY BesideIs
<1>2. G \in [A -> A]
  BY <1>1
<1>3. F \in [1 .. N -> [A -> A]]
  BY <1>2
<1>4. {w} \in A
  OBVIOUS
<1>5. HasIterate(A, F, {w}, N)
  <2> HIDE DEF A, F, N
  <2> QED
    BY <1>0, <1>3, <1>4, IterateExists
<1>6. PICK h \in [0 .. N -> A] : IsIterate(h, F, {w}, N)
  BY <1>5 DEF HasIterate
<1>7. h[0] = {w}
  BY <1>6 DEF IsIterate
<1>8. ASSUME NEW n \in 1 .. N
      PROVE  h[n] = h[n - 1] \cup UNION { Beside(f, v) : v \in h[n - 1] }
  <2>1. h[n] = F[n][h[n - 1]]
    BY <1>6 DEF IsIterate
  <2>2. n - 1 \in 0 .. N
    BY <1>0
  <2>3. h[n - 1] \in A
    BY <2>2
  <2> QED
    BY <2>1, <2>3
<1> DEFINE Within(g) ==
      g = [n \in 0 .. N |-> IF n = 0 THEN {w}
             ELSE g[n - 1] \cup UNION { Beside(f, v) : v \in g[n - 1] }]
           within == CHOOSE g : Within(g)
<1>9. Within(h)
  <2>1. ASSUME NEW n \in 0 .. N
        PROVE  h[n] = IF n = 0 THEN {w}
                      ELSE h[n - 1] \cup UNION { Beside(f, v) : v \in h[n - 1] }
    <3>1. CASE n = 0
      BY <1>7, <3>1
    <3>2. CASE n # 0
      <4>1. n \in 1 .. N
        BY <1>0, <3>2
      <4> QED
        BY <1>8, <3>2, <4>1
    <3> QED
      BY <3>1, <3>2
  <2>2. h = [n \in 0 .. N |-> h[n]]
    OBVIOUS
  <2> QED
    BY <2>1, <2>2, Zenon
<1>10. Within(within)
  <2> HIDE DEF Within
  <2> QED
    BY <1>9
<1> HIDE DEF within
<1>11. \A n \in 0 .. N : within[n] = h[n]
  <2> DEFINE T == { n \in Nat : n <= N => within[n] = h[n] }
  <2>1. \A n \in 0 .. N :
          within[n] = IF n = 0 THEN {w}
             ELSE within[n - 1] \cup UNION { Beside(f, v) : v \in within[n - 1] }
    BY <1>10
  <2>2. 0 \in T
    <3>1. 0 \in 0 .. N
      BY <1>0
    <3>2. within[0] = {w}
      BY <2>1, <3>1
    <3> QED
      BY <1>7, <3>2
  <2>3. ASSUME NEW n \in Nat, n \in T PROVE n + 1 \in T
    <3> SUFFICES ASSUME n + 1 <= N PROVE within[n + 1] = h[n + 1]
      OBVIOUS
    <3>1. n + 1 \in 0 .. N /\ n + 1 \in 1 .. N /\ n + 1 # 0 /\ (n + 1) - 1 = n
      BY <1>0
    <3>2. within[n] = h[n]
      BY <1>0, <2>3
    <3>3. within[n + 1] = within[n] \cup UNION { Beside(f, v) : v \in within[n] }
      BY <2>1, <3>1
    <3>4. h[n + 1] = h[n] \cup UNION { Beside(f, v) : v \in h[n] }
      BY <1>8, <3>1
    <3> QED
      BY <3>2, <3>3, <3>4
  <2> HIDE DEF T
  <2>4. Nat \subseteq T
    BY <2>2, <2>3, SetInduction
  <2> QED
    BY <1>0, <2>4 DEF T
<1>12. Sec!Component(f, w) = within[N]
  BY DEF Sec!Component, within, Within, Beside
<1>13. N \in 0 .. N
  BY <1>0
<1> QED
  BY <1>6, <1>7, <1>8, <1>11, <1>12, <1>13

LEMMA ComponentIs ==
  ASSUME NEW f, FieldOK(f), NEW w \in WellsOf(f)
  PROVE  /\ w \in Sec!Component(f, w)
         /\ Sec!Component(f, w) \subseteq WellsOf(f)
         /\ IsClosed(f, Sec!Component(f, w))
         /\ \A s : w \in s /\ IsClosed(f, s) => Sec!Component(f, w) \subseteq s
<1> DEFINE N == f.ni + f.np
<1>0. N \in Nat
  BY DEF FieldOK
<1>1. PICK h \in [0 .. N -> SUBSET WellsOf(f)] :
        /\ h[0] = {w}
        /\ \A n \in 1 .. N : h[n] = h[n - 1] \cup UNION { Beside(f, v) : v \in h[n - 1] }
        /\ Sec!Component(f, w) = h[N]
  BY ComponentGrows
<1> HIDE DEF N
<1>2. \A n \in Nat : n + 1 <= N => h[n + 1] = h[n] \cup UNION { Beside(f, v) : v \in h[n] }
  <2> SUFFICES ASSUME NEW n \in Nat, n + 1 <= N
               PROVE  h[n + 1] = h[n] \cup UNION { Beside(f, v) : v \in h[n] }
    OBVIOUS
  <2>1. n + 1 \in 1 .. N /\ (n + 1) - 1 = n
    BY <1>0
  <2> QED
    BY <1>1, <2>1
<1>3. \A n \in Nat : n <= N => w \in h[n]
  <2> DEFINE T == { n \in Nat : n <= N => w \in h[n] }
  <2>1. 0 \in T
    BY <1>1
  <2>2. \A n \in Nat : n \in T => n + 1 \in T
    BY <1>0, <1>2
  <2> HIDE DEF T
  <2>3. Nat \subseteq T
    BY <2>1, <2>2, SetInduction
  <2> QED
    BY <2>3 DEF T
<1>4. ASSUME NEW s, w \in s, IsClosed(f, s) PROVE \A n \in Nat : n <= N => h[n] \subseteq s
  <2> DEFINE T == { n \in Nat : n <= N => h[n] \subseteq s }
  <2>1. 0 \in T
    BY <1>1, <1>4
  <2>2. ASSUME NEW n \in Nat, n \in T, n + 1 <= N PROVE h[n + 1] \subseteq s
    <3>1. h[n] \subseteq s
      BY <1>0, <2>2
    <3> QED
      BY <1>2, <1>4, <2>2, <3>1 DEF IsClosed
  <2>3. \A n \in Nat : n \in T => n + 1 \in T
    BY <2>2
  <2> HIDE DEF T
  <2>4. Nat \subseteq T
    BY <2>1, <2>3, SetInduction
  <2> QED
    BY <2>4 DEF T
<1>5. \A n \in Nat : n <= N => /\ IsFiniteSet(h[n]) /\ Cardinality(h[n]) \in Nat
                               /\ h[n] \subseteq WellsOf(f)
  <2> SUFFICES ASSUME NEW n \in Nat, n <= N
               PROVE  /\ IsFiniteSet(h[n]) /\ Cardinality(h[n]) \in Nat
                      /\ h[n] \subseteq WellsOf(f)
    OBVIOUS
  <2>1. n \in 0 .. N
    BY <1>0
  <2>2. h[n] \in SUBSET WellsOf(f)
    BY <1>1, <2>1
  <2>3. IsFiniteSet(h[n])
    BY <2>2, WellsFinite, FS_Subset
  <2> QED
    BY <2>2, <2>3, FS_CardinalityType
<1>6. \A n \in Nat : n <= N => IsClosed(f, h[n]) \/ Cardinality(h[n]) >= n + 1
  <2> DEFINE T == { n \in Nat : n <= N => IsClosed(f, h[n]) \/ Cardinality(h[n]) >= n + 1 }
  <2>1. 0 \in T
    <3>1. Cardinality({w}) = 1
      BY FS_Singleton
    <3>2. h[0] = {w}
      BY <1>1
    <3>3. Cardinality(h[0]) >= 0 + 1
      BY <3>1, <3>2
    <3> QED
      BY <3>3
  <2>2. ASSUME NEW n \in Nat, n \in T, n + 1 <= N
        PROVE  IsClosed(f, h[n + 1]) \/ Cardinality(h[n + 1]) >= (n + 1) + 1
    <3>1. n <= N /\ n + 1 \in Nat
      BY <1>0, <2>2
    <3>2. h[n + 1] = h[n] \cup UNION { Beside(f, v) : v \in h[n] }
      BY <1>2, <2>2
    <3>3. CASE IsClosed(f, h[n])
      <4>1. h[n + 1] = h[n]
        BY <3>2, <3>3 DEF IsClosed
      <4> QED
        BY <3>3, <4>1
    <3>4. CASE ~IsClosed(f, h[n])
      <4>1. Cardinality(h[n]) >= n + 1
        BY <2>2, <3>1, <3>4
      <4>2. h[n] \subseteq h[n + 1] /\ h[n] # h[n + 1]
        BY <3>2, <3>4 DEF IsClosed
      <4>3. /\ IsFiniteSet(h[n + 1]) /\ Cardinality(h[n + 1]) \in Nat
            /\ Cardinality(h[n]) \in Nat
        BY <1>5, <2>2, <3>1
      <4>4. /\ Cardinality(h[n]) <= Cardinality(h[n + 1])
            /\ Cardinality(h[n]) # Cardinality(h[n + 1])
        BY <4>2, <4>3, FS_Subset
      <4>5. Cardinality(h[n + 1]) >= (n + 1) + 1
        BY <4>1, <4>3, <4>4
      <4> QED
        BY <4>5
    <3> QED
      BY <3>3, <3>4
  <2>3. \A n \in Nat : n \in T => n + 1 \in T
    BY <2>2
  <2> HIDE DEF T
  <2>4. Nat \subseteq T
    BY <2>1, <2>3, SetInduction
  <2> QED
    BY <2>4 DEF T
<1>7. IsClosed(f, h[N])
  <2> SUFFICES ASSUME ~IsClosed(f, h[N]) PROVE FALSE
    OBVIOUS
  <2>1. Cardinality(h[N]) >= N + 1
    BY <1>0, <1>6
  <2>2. Cardinality(h[N]) \in Nat /\ h[N] \in SUBSET WellsOf(f)
    BY <1>0, <1>5
  <2>3. /\ Cardinality(h[N]) <= Cardinality(WellsOf(f))
        /\ Cardinality(WellsOf(f)) \in Nat /\ Cardinality(WellsOf(f)) <= N
    BY <2>2, WellsFinite, FS_Subset DEF N
  <2> QED
    BY <1>0, <2>1, <2>2, <2>3
<1> QED
  BY <1>0, <1>1, <1>3, <1>4, <1>5, <1>7

\* Components are classes: of two wells one is in the component of the other
\* exactly when they have the same.
LEMMA ComponentsAreClasses ==
  ASSUME NEW f, FieldOK(f), NEW v \in WellsOf(f), NEW w \in WellsOf(f),
         v \in Sec!Component(f, w)
  PROVE  Sec!Component(f, v) = Sec!Component(f, w)
<1> DEFINE C == Sec!Component(f, v)
           D == Sec!Component(f, w)
<1>1. /\ v \in C /\ IsClosed(f, C) /\ \A s : v \in s /\ IsClosed(f, s) => C \subseteq s
      /\ IsClosed(f, D) /\ \A s : w \in s /\ IsClosed(f, s) => D \subseteq s
  BY ComponentIs
<1> HIDE DEF C, D
<1>2. C \subseteq D
  BY <1>1 DEF D
<1>3. IsClosed(f, WellsOf(f) \ C)
  <2> SUFFICES ASSUME NEW x \in WellsOf(f) \ C, NEW y \in Beside(f, x)
               PROVE  y \in WellsOf(f) \ C
    BY DEF IsClosed
  <2>1. y \in WellsOf(f) /\ x \in Beside(f, y)
    BY BesideIs
  <2> QED
    BY <1>1, <2>1 DEF IsClosed
<1>4. w \in C
  <2> SUFFICES ASSUME w \notin C PROVE FALSE
    OBVIOUS
  <2>1. D \subseteq WellsOf(f) \ C
    BY <1>1, <1>3
  <2> QED
    BY <1>1, <2>1 DEF D
<1>5. D \subseteq C
  BY <1>1, <1>4
<1>6. C = D
  BY <1>2, <1>5
<1> QED
  BY <1>6 DEF C, D

LEMMA SameCardinality == \A S : Sec!Cardinality(S) = Cardinality(S)
BY DEF Sec!Cardinality, Cardinality

LEMMA ComponentInBlock ==
  ASSUME NEW f, FieldOK(f), NEW w \in WellsOf(f), NEW v \in Sec!Component(f, w),
         \A u \in WellsOf(f) : f.block[u] # Sec!NoBlock
  PROVE  f.block[v] = f.block[w]
<1> DEFINE s == { u \in WellsOf(f) : f.block[u] = f.block[w] }
<1>1. ASSUME NEW x \in s, NEW y \in Beside(f, x) PROVE y \in s
  BY <1>1, BesideIs
<1>2. w \in s /\ IsClosed(f, s)
  BY <1>1 DEF IsClosed
<1> HIDE DEF s
<1>3. Sec!Component(f, w) \subseteq s
  BY <1>2, ComponentIs
<1> QED
  BY <1>3 DEF s

\* The sectors before the isolated wells are given one: whole components, each with
\* wells of both kinds.
LEMMA RealIs ==
  ASSUME NEW f, FieldOK(f), NEW c \in Sec!Real(f)
  PROVE  /\ c \subseteq WellsOf(f)
         /\ \A v \in c : Sec!Component(f, v) = c /\ ~Sec!Isolated(f, v)
         /\ \E i \in 1 .. f.ni : Sec!Inj(i) \in c
         /\ \E j \in 1 .. f.np : Sec!Prod(j) \in c
<1>1. PICK w \in WellsOf(f) : c = Sec!Component(f, w) /\ Cardinality(c) > 1
  BY SameCardinality DEF Sec!Real, Sec!Components, WellsOf
<1>2. /\ w \in c /\ c \subseteq WellsOf(f) /\ IsClosed(f, c)
      /\ \A s : w \in s /\ IsClosed(f, s) => c \subseteq s
  BY <1>1, ComponentIs
<1>3. \A v : c # {v}
  <2>1. \A v : Cardinality({v}) = 1
    BY FS_Singleton
  <2> QED
    BY <1>1, <2>1
<1>4. ASSUME NEW v \in c PROVE Sec!Component(f, v) = c /\ ~Sec!Isolated(f, v)
  <2>1. Sec!Component(f, v) = c
    BY <1>1, <1>2, ComponentsAreClasses
  <2> QED
    BY <1>3, <2>1 DEF Sec!Isolated
<1>5. PICK u : u \in Beside(f, w)
  <2> SUFFICES ASSUME Beside(f, w) = {} PROVE FALSE
    OBVIOUS
  <2>1. IsClosed(f, {w})
    BY DEF IsClosed
  <2> QED
    BY <1>2, <1>3, <2>1
<1>6. u \in c /\ u \in WellsOf(f) /\ u[1] # w[1]
  BY <1>2, <1>5, BesideIs DEF IsClosed
<1>7. \E x, y \in c : x[1] = "I" /\ y[1] = "P"
  <2>1. \/ w[1] = "I" /\ u[1] = "P"
        \/ w[1] = "P" /\ u[1] = "I"
    BY <1>6, WellIs
  <2> QED
    BY <1>2, <1>6, <2>1
<1>8. PICK x \in c, y \in c : x[1] = "I" /\ y[1] = "P"
  BY <1>7
<1>9. /\ \E i \in 1 .. f.ni : Sec!Inj(i) = x
      /\ \E j \in 1 .. f.np : Sec!Prod(j) = y
  BY <1>2, <1>8, WellIs
<1> QED
  BY <1>2, <1>4, <1>8, <1>9

LEMMA RealDisjoint ==
  ASSUME NEW f, FieldOK(f), NEW c \in Sec!Real(f), NEW d \in Sec!Real(f), c # d
  PROVE  c \cap d = {}
BY RealIs

LEMMA JoinedIsReal ==
  ASSUME NEW f, FieldOK(f), NEW w \in WellsOf(f), ~Sec!Isolated(f, w)
  PROVE  Sec!Component(f, w) \in Sec!Real(f) /\ w \in Sec!Component(f, w)
<1> DEFINE C == Sec!Component(f, w)
<1>1. w \in C /\ C \subseteq WellsOf(f) /\ C # {w}
  BY ComponentIs DEF Sec!Isolated
<1> HIDE DEF C
<1>2. IsFiniteSet(C)
  BY <1>1, WellsFinite, FS_Subset
<1>3. IsFiniteSet({w}) /\ Cardinality({w}) = 1
  BY FS_Singleton
<1>4. Cardinality({w}) <= Cardinality(C) /\ Cardinality({w}) # Cardinality(C)
  BY <1>1, <1>2, FS_Subset
<1>5. Cardinality(C) \in Nat
  BY <1>2, FS_CardinalityType
<1>6. Cardinality(C) > 1
  BY <1>3, <1>4, <1>5
<1>7. C \in Sec!Components(f)
  BY DEF C, Sec!Components, WellsOf
<1> QED
  BY <1>1, <1>6, <1>7, SameCardinality DEF C, Sec!Real

LEMMA LeastIs ==
  ASSUME NEW T \in SUBSET Nat, T # {}
  PROVE  Sec!MinOf(T) \in T /\ \A y \in T : Sec!MinOf(T) <= y
<1>1. PICK x \in T : \A y \in T : ~(y < x)
  BY LeastOfSet
<1>2. \A y \in T : x <= y
  BY <1>1
<1> QED
  BY <1>2 DEF Sec!MinOf

LEMMA NearestAreWells ==
  ASSUME NEW f, FieldOK(f)
  PROVE  /\ \A i \in 1 .. f.ni : Sec!NearestProd(f, i) \in 1 .. f.np
         /\ \A j \in 1 .. f.np : Sec!NearestInj(f, j) \in 1 .. f.ni
<1>0. /\ f.ni \in Nat \ {0} /\ f.np \in Nat \ {0}
      /\ \A i \in 1 .. f.ni : \A j \in 1 .. f.np : f.dist[<<i, j>>] \in Nat
  BY DEF FieldOK
<1>1. ASSUME NEW i \in 1 .. f.ni PROVE Sec!NearestProd(f, i) \in 1 .. f.np
  <2> DEFINE D == { f.dist[<<i, j>>] : j \in 1 .. f.np }
             m == Sec!MinOf(D)
             S == { j \in 1 .. f.np : f.dist[<<i, j>>] = m }
  <2>1. 1 \in 1 .. f.np
    BY <1>0
  <2>2. D \in SUBSET Nat /\ D # {}
    BY <2>1, <1>0
  <2> HIDE DEF m
  <2>3. m \in D
    BY <2>2, LeastIs DEF m
  <2>4. S # {} /\ S \in SUBSET Nat
    BY <1>0, <2>3
  <2>5. Sec!NearestProd(f, i) = Sec!MinOf(S)
    BY DEF Sec!NearestProd, Sec!NearestOfInj, m
  <2> QED
    BY <2>4, <2>5, LeastIs
<1>2. ASSUME NEW j \in 1 .. f.np PROVE Sec!NearestInj(f, j) \in 1 .. f.ni
  <2> DEFINE D == { f.dist[<<i, j>>] : i \in 1 .. f.ni }
             m == Sec!MinOf(D)
             S == { i \in 1 .. f.ni : f.dist[<<i, j>>] = m }
  <2>1. 1 \in 1 .. f.ni
    BY <1>0
  <2>2. D \in SUBSET Nat /\ D # {}
    BY <2>1, <1>0
  <2> HIDE DEF m
  <2>3. m \in D
    BY <2>2, LeastIs DEF m
  <2>4. S # {} /\ S \in SUBSET Nat
    BY <1>0, <2>3
  <2>5. Sec!NearestInj(f, j) = Sec!MinOf(S)
    BY DEF Sec!NearestInj, Sec!NearestOfProd, m
  <2> QED
    BY <2>4, <2>5, LeastIs
<1> QED
  BY <1>1, <1>2

LEMMA FirstSectorIs ==
  ASSUME NEW f, FieldOK(f), Sec!Real(f) # {}
  PROVE  Sec!FirstSector(f) \in Sec!Real(f)
<1> DEFINE I(c) == { i \in 1 .. f.ni : Sec!Inj(i) \in c }
           first(c) == Sec!MinOf(I(c))
           T == { first(c) : c \in Sec!Real(f) }
<1>1. ASSUME NEW c \in Sec!Real(f) PROVE first(c) \in Nat
  <2>1. I(c) # {} /\ I(c) \in SUBSET Nat
    BY RealIs
  <2> HIDE DEF I
  <2> QED
    BY <2>1, LeastIs
<1> HIDE DEF first
<1>2. T \in SUBSET Nat /\ T # {}
  BY <1>1
<1>3. PICK t \in T : \A s \in T : ~(s < t)
  BY <1>2, LeastOfSet
<1>4. PICK c \in Sec!Real(f) : t = first(c)
  BY <1>3
<1>5. \A d \in Sec!Real(f) : first(c) <= first(d)
  BY <1>1, <1>3, <1>4
<1>6. \E e \in Sec!Real(f) : \A d \in Sec!Real(f) : first(e) <= first(d)
  BY <1>5
<1> QED
  BY <1>6 DEF Sec!FirstSector, first

\* What SectorsPartition says of the sectors r of a field f.
IsSplit(f, r) ==
  LET kept == UNION r
      joined(c) == { w \in c : ~Sec!Isolated(f, w) }
  IN  /\ \A c, d \in r : c # d => c \cap d = {}
      /\ \A w \in WellsOf(f) \ kept : Sec!Isolated(f, w) /\ f.located
      /\ \A i \in 1 .. f.ni :
           Sec!Inj(i) \notin kept => Sec!Isolated(f, Sec!Prod(Sec!NearestProd(f, i)))
      /\ \A j \in 1 .. f.np :
           Sec!Prod(j) \notin kept => Sec!Inj(Sec!NearestInj(f, j)) \notin kept
      /\ \A c \in r : { w[1] : w \in c } = {"I", "P"}
      /\ (\A w \in WellsOf(f) : f.block[w] # Sec!NoBlock) =>
           \A c \in r : \A v, w \in joined(c) : f.block[v] = f.block[w]

LEMMA BothKinds ==
  ASSUME NEW f, NEW c \in SUBSET WellsOf(f), NEW i \in 1 .. f.ni, NEW j \in 1 .. f.np,
         Sec!Inj(i) \in c, Sec!Prod(j) \in c
  PROVE  { w[1] : w \in c } = {"I", "P"}
<1>1. \A w \in c : w[1] \in {"I", "P"}
  BY WellIs
<1>2. Sec!Inj(i)[1] = "I" /\ Sec!Prod(j)[1] = "P"
  BY InjIs, ProdIs
<1> QED
  BY <1>1, <1>2

LEMMA RealInOneBlock ==
  ASSUME NEW f, FieldOK(f), NEW c \in Sec!Real(f), NEW v \in c, NEW w \in c,
         \A u \in WellsOf(f) : f.block[u] # Sec!NoBlock
  PROVE  f.block[v] = f.block[w]
<1>1. w \in WellsOf(f) /\ v \in Sec!Component(f, w)
  BY RealIs
<1> QED
  BY <1>1, ComponentInBlock

\* Isolated wells are in none of the whole components.
LEMMA IsolatedNotReal ==
  ASSUME NEW f, FieldOK(f), NEW w, Sec!Isolated(f, w)
  PROVE  \A c \in Sec!Real(f) : w \notin c
BY RealIs

LEMMA SplitWhenAllIsolated ==
  ASSUME NEW f, FieldOK(f), Sec!Real(f) = {}
  PROVE  IsSplit(f, Sec!Sectorize(f))
<1>1. Sec!Sectorize(f) = {WellsOf(f)}
  BY DEF Sec!Sectorize, WellsOf
<1>2. \A w \in WellsOf(f) : Sec!Isolated(f, w)
  BY JoinedIsReal
<1>3. 1 \in 1 .. f.ni /\ 1 \in 1 .. f.np
  BY DEF FieldOK
<1>4. \A i \in 1 .. f.ni : Sec!Inj(i) \in WellsOf(f)
  BY InjIs
<1>5. \A j \in 1 .. f.np : Sec!Prod(j) \in WellsOf(f)
  BY ProdIs
<1>6. { w[1] : w \in WellsOf(f) } = {"I", "P"}
  BY <1>3, <1>4, <1>5, BothKinds
<1> DEFINE r == {WellsOf(f)}
<1>7. UNION r = WellsOf(f) /\ \A c \in r : c = WellsOf(f)
  OBVIOUS
<1> HIDE DEF r
<1>8. IsSplit(f, r)
  BY <1>2, <1>4, <1>5, <1>6, <1>7 DEF IsSplit
<1> QED
  BY <1>1, <1>8 DEF r

\* What the isolated wells add to the whole component c.
LEMMA SpreadIs ==
  ASSUME NEW f, FieldOK(f), NEW c \in Sec!Real(f)
  PROVE  LET d == Sec!WithProducers(f, Sec!WithInjectors(f, c))
         IN  /\ c \subseteq d /\ d \subseteq WellsOf(f)
             /\ \A i \in 1 .. f.ni :
                  Sec!Inj(i) \in d <=>
                    \/ Sec!Inj(i) \in c
                    \/ Sec!Isolated(f, Sec!Inj(i)) /\ Sec!Prod(Sec!NearestProd(f, i)) \in c
             /\ \A j \in 1 .. f.np :
                  Sec!Prod(j) \in d <=>
                    \/ Sec!Prod(j) \in c
                    \/ Sec!Isolated(f, Sec!Prod(j)) /\ Sec!Inj(Sec!NearestInj(f, j)) \in d
<1> DEFINE A == { Sec!Inj(i) : i \in { k \in 1 .. f.ni :
                    Sec!Isolated(f, Sec!Inj(k)) /\ Sec!Prod(Sec!NearestProd(f, k)) \in c } }
           e == c \cup A
           B == { Sec!Prod(j) : j \in { k \in 1 .. f.np :
                    Sec!Isolated(f, Sec!Prod(k)) /\ Sec!Inj(Sec!NearestInj(f, k)) \in e } }
           d == e \cup B
<1>1. Sec!WithProducers(f, Sec!WithInjectors(f, c)) = d
  BY DEF Sec!WithProducers, Sec!WithInjectors
<1>2. c \subseteq WellsOf(f)
  BY RealIs
<1>3. A \subseteq WellsOf(f) /\ B \subseteq WellsOf(f)
  BY InjIs, ProdIs
<1>4. \A i, j : Sec!Inj(i) # Sec!Prod(j)
  BY DEF Sec!Inj, Sec!Prod
<1>5. \A i, k : Sec!Inj(i) = Sec!Inj(k) => i = k
  BY DEF Sec!Inj
<1>6. \A j, k : Sec!Prod(j) = Sec!Prod(k) => j = k
  BY DEF Sec!Prod
<1>7. ASSUME NEW i \in 1 .. f.ni
      PROVE  Sec!Inj(i) \in d <=>
               \/ Sec!Inj(i) \in c
               \/ Sec!Isolated(f, Sec!Inj(i)) /\ Sec!Prod(Sec!NearestProd(f, i)) \in c
  BY <1>4, <1>5
<1>8. \A i : Sec!Inj(i) \in e <=> Sec!Inj(i) \in d
  BY <1>4
<1>9. ASSUME NEW j \in 1 .. f.np
      PROVE  Sec!Prod(j) \in d <=>
               \/ Sec!Prod(j) \in c
               \/ Sec!Isolated(f, Sec!Prod(j)) /\ Sec!Inj(Sec!NearestInj(f, j)) \in d
  <2>1. Sec!Prod(j) \notin A
    BY <1>4
  <2>2. Sec!Prod(j) \in B <=>
          Sec!Isolated(f, Sec!Prod(j)) /\ Sec!Inj(Sec!NearestInj(f, j)) \in e
    BY <1>6
  <2> QED
    BY <1>8, <2>1, <2>2
<1>10. c \subseteq d /\ d \subseteq WellsOf(f)
  BY <1>2, <1>3
<1> HIDE DEF d
<1> QED
  BY <1>1, <1>7, <1>9, <1>10

LEMMA SplitByDistance ==
  ASSUME NEW f, FieldOK(f), Sec!Real(f) # {}, f.located = TRUE
  PROVE  IsSplit(f, Sec!Sectorize(f))
<1> DEFINE D(c) == Sec!WithProducers(f, Sec!WithInjectors(f, c))
           r == { D(c) : c \in Sec!Real(f) }
<1>1. Sec!Sectorize(f) = r
  BY DEF Sec!Sectorize
<1>2. ASSUME NEW c \in Sec!Real(f)
      PROVE  /\ c \subseteq D(c) /\ D(c) \subseteq WellsOf(f)
             /\ \A i \in 1 .. f.ni :
                  Sec!Inj(i) \in D(c) <=>
                    \/ Sec!Inj(i) \in c
                    \/ Sec!Isolated(f, Sec!Inj(i)) /\ Sec!Prod(Sec!NearestProd(f, i)) \in c
             /\ \A j \in 1 .. f.np :
                  Sec!Prod(j) \in D(c) <=>
                    \/ Sec!Prod(j) \in c
                    \/ Sec!Isolated(f, Sec!Prod(j)) /\ Sec!Inj(Sec!NearestInj(f, j)) \in D(c)
  BY SpreadIs
<1> HIDE DEF D
<1>3. ASSUME NEW c \in Sec!Real(f), NEW d \in Sec!Real(f), c # d
      PROVE  D(c) \cap D(d) = {}
  <2>1. c \cap d = {}
    BY <1>3, RealDisjoint
  <2>2. ASSUME NEW i \in 1 .. f.ni, Sec!Inj(i) \in D(c), Sec!Inj(i) \in D(d) PROVE FALSE
    BY <1>2, <2>1, <2>2, IsolatedNotReal
  <2>3. ASSUME NEW j \in 1 .. f.np, Sec!Prod(j) \in D(c), Sec!Prod(j) \in D(d) PROVE FALSE
    <3>1. Sec!NearestInj(f, j) \in 1 .. f.ni
      BY NearestAreWells
    <3>2. CASE Sec!Isolated(f, Sec!Prod(j))
      <4>1. /\ Sec!Inj(Sec!NearestInj(f, j)) \in D(c)
            /\ Sec!Inj(Sec!NearestInj(f, j)) \in D(d)
        BY <1>2, <2>3, <3>2, IsolatedNotReal
      <4> QED
        BY <2>2, <3>1, <4>1
    <3>3. CASE ~Sec!Isolated(f, Sec!Prod(j))
      BY <1>2, <2>1, <2>3, <3>3
    <3> QED
      BY <3>2, <3>3
  <2> QED
    BY <1>2, <2>2, <2>3, WellIs
<1>4. ASSUME NEW w \in WellsOf(f), ~Sec!Isolated(f, w) PROVE w \in UNION r
  <2>1. PICK c \in Sec!Real(f) : w \in c
    BY <1>4, JoinedIsReal
  <2>2. w \in D(c)
    BY <1>2, <2>1
  <2> QED
    BY <2>1, <2>2
<1>5. ASSUME NEW i \in 1 .. f.ni, Sec!Inj(i) \notin UNION r
      PROVE  Sec!Isolated(f, Sec!Prod(Sec!NearestProd(f, i)))
  <2> SUFFICES ASSUME ~Sec!Isolated(f, Sec!Prod(Sec!NearestProd(f, i))) PROVE FALSE
    OBVIOUS
  <2>1. Sec!Prod(Sec!NearestProd(f, i)) \in WellsOf(f) /\ Sec!Inj(i) \in WellsOf(f)
    BY NearestAreWells, ProdIs, InjIs
  <2>2. PICK c \in Sec!Real(f) : Sec!Prod(Sec!NearestProd(f, i)) \in c
    BY <2>1, JoinedIsReal
  <2>3. Sec!Isolated(f, Sec!Inj(i))
    BY <1>4, <1>5, <2>1
  <2>4. Sec!Inj(i) \in D(c)
    BY <1>2, <2>2, <2>3
  <2> QED
    BY <1>5, <2>4
<1>6. ASSUME NEW j \in 1 .. f.np, Sec!Prod(j) \notin UNION r
      PROVE  Sec!Inj(Sec!NearestInj(f, j)) \notin UNION r
  <2> SUFFICES ASSUME NEW c \in Sec!Real(f), Sec!Inj(Sec!NearestInj(f, j)) \in D(c)
               PROVE  FALSE
    OBVIOUS
  <2>1. Sec!Isolated(f, Sec!Prod(j))
    BY <1>4, <1>6, ProdIs
  <2>2. Sec!Prod(j) \in D(c)
    BY <1>2, <2>1
  <2> QED
    BY <1>6, <2>2
<1>7. ASSUME NEW c \in Sec!Real(f) PROVE { w[1] : w \in D(c) } = {"I", "P"}
  <2>1. PICK i \in 1 .. f.ni : Sec!Inj(i) \in c
    BY RealIs
  <2>2. PICK j \in 1 .. f.np : Sec!Prod(j) \in c
    BY RealIs
  <2>3. Sec!Inj(i) \in D(c) /\ Sec!Prod(j) \in D(c) /\ D(c) \in SUBSET WellsOf(f)
    BY <1>2, <2>1, <2>2
  <2> QED
    BY <2>3, BothKinds
<1>8. ASSUME NEW c \in Sec!Real(f), NEW w \in D(c), ~Sec!Isolated(f, w) PROVE w \in c
  BY <1>2, <1>8, WellIs
<1>9. ASSUME \A u \in WellsOf(f) : f.block[u] # Sec!NoBlock, NEW c \in Sec!Real(f),
             NEW v \in D(c), NEW w \in D(c), ~Sec!Isolated(f, v), ~Sec!Isolated(f, w)
      PROVE  f.block[v] = f.block[w]
  <2>1. v \in c /\ w \in c
    BY <1>8, <1>9
  <2> QED
    BY <1>9, <2>1, RealInOneBlock
<1>10. \A x, y \in r : x # y => x \cap y = {}
  BY <1>3
<1>11. \A x \in r : { w[1] : w \in x } = {"I", "P"}
  BY <1>7
<1>12. (\A u \in WellsOf(f) : f.block[u] # Sec!NoBlock) =>
         \A x \in r : \A v, w \in { u \in x : ~Sec!Isolated(f, u) } :
           f.block[v] = f.block[w]
  BY <1>9
<1> HIDE DEF r
<1>13. IsSplit(f, r)
  BY <1>4, <1>5, <1>6, <1>10, <1>11, <1>12 DEF IsSplit
<1> QED
  BY <1>1, <1>13

LEMMA SplitByFirst ==
  ASSUME NEW f, FieldOK(f), Sec!Real(f) # {}, f.located = FALSE
  PROVE  IsSplit(f, Sec!Sectorize(f))
<1> DEFINE I == { w \in WellsOf(f) : Sec!Isolated(f, w) }
           D(c) == IF c = Sec!FirstSector(f) THEN c \cup I ELSE c
           r == { D(c) : c \in Sec!Real(f) }
<1>1. Sec!Sectorize(f) = r
  BY DEF Sec!Sectorize, WellsOf
<1>2. ASSUME NEW c \in Sec!Real(f)
      PROVE  /\ c \subseteq D(c) /\ D(c) \subseteq WellsOf(f)
             /\ \A w \in D(c) : w \in c \/ (w \in I /\ c = Sec!FirstSector(f))
             /\ c = Sec!FirstSector(f) => I \subseteq D(c)
  <2>1. c \subseteq WellsOf(f)
    BY RealIs
  <2>2. I \subseteq WellsOf(f)
    OBVIOUS
  <2>3. CASE c = Sec!FirstSector(f)
    <3>1. D(c) = c \cup I
      BY <2>3
    <3> HIDE DEF D, I
    <3> QED
      BY <2>1, <2>2, <2>3, <3>1
  <2>4. CASE c # Sec!FirstSector(f)
    <3>1. D(c) = c
      BY <2>4
    <3>2. c \subseteq D(c) /\ D(c) \subseteq WellsOf(f)
      BY <2>1, <3>1
    <3>3. \A w \in D(c) : w \in c
      BY <3>1
    <3> QED
      BY <2>4, <3>2, <3>3
  <2> QED
    BY <2>3, <2>4
<1> HIDE DEF D
<1>3. ASSUME NEW c \in Sec!Real(f), NEW d \in Sec!Real(f), c # d
      PROVE  D(c) \cap D(d) = {}
  <2>1. c \cap d = {}
    BY <1>3, RealDisjoint
  <2>2. \A w \in I : w \notin c /\ w \notin d
    BY IsolatedNotReal
  <2> QED
    BY <1>2, <1>3, <2>1, <2>2
<1>4. ASSUME NEW w \in WellsOf(f) PROVE w \in UNION r
  <2>1. CASE Sec!Isolated(f, w)
    <3>1. Sec!FirstSector(f) \in Sec!Real(f)
      BY FirstSectorIs
    <3>2. w \in D(Sec!FirstSector(f))
      BY <1>2, <2>1, <3>1
    <3> QED
      BY <3>1, <3>2
  <2>2. CASE ~Sec!Isolated(f, w)
    <3>1. PICK c \in Sec!Real(f) : w \in c
      BY <2>2, JoinedIsReal
    <3>2. w \in D(c)
      BY <1>2, <3>1
    <3> QED
      BY <3>1, <3>2
  <2> QED
    BY <2>1, <2>2
<1>5. \A i \in 1 .. f.ni : Sec!Inj(i) \in UNION r
  BY <1>4, InjIs
<1>6. \A j \in 1 .. f.np : Sec!Prod(j) \in UNION r
  BY <1>4, ProdIs
<1>7. ASSUME NEW c \in Sec!Real(f) PROVE { w[1] : w \in D(c) } = {"I", "P"}
  <2>1. PICK i \in 1 .. f.ni : Sec!Inj(i) \in c
    BY RealIs
  <2>2. PICK j \in 1 .. f.np : Sec!Prod(j) \in c
    BY RealIs
  <2>3. Sec!Inj(i) \in D(c) /\ Sec!Prod(j) \in D(c) /\ D(c) \in SUBSET WellsOf(f)
    BY <1>2, <2>1, <2>2
  <2> QED
    BY <2>3, BothKinds
<1>8. ASSUME \A u \in WellsOf(f) : f.block[u] # Sec!NoBlock, NEW c \in Sec!Real(f),
             NEW v \in D(c), NEW w \in D(c), ~Sec!Isolated(f, v), ~Sec!Isolated(f, w)
      PROVE  f.block[v] = f.block[w]
  <2>1. v \in c /\ w \in c
    BY <1>2, <1>8
  <2> QED
    BY <1>8, <2>1, RealInOneBlock
<1>10. \A x, y \in r : x # y => x \cap y = {}
  BY <1>3
<1>11. \A x \in r : { w[1] : w \in x } = {"I", "P"}
  BY <1>7
<1>12. (\A u \in WellsOf(f) : f.block[u] # Sec!NoBlock) =>
         \A x \in r : \A v, w \in { u \in x : ~Sec!Isolated(f, u) } :
           f.block[v] = f.block[w]
  BY <1>8
<1> HIDE DEF r
<1>13. IsSplit(f, r)
  BY <1>4, <1>5, <1>6, <1>10, <1>11, <1>12 DEF IsSplit
<1> QED
  BY <1>1, <1>13

LEMMA FieldIsSplit ==
  ASSUME NEW f, FieldOK(f)
  PROVE  IsSplit(f, Sec!Sectorize(f))
<1>1. f.located = TRUE \/ f.located = FALSE
  BY DEF FieldOK
<1> QED
  BY <1>1, SplitWhenAllIsolated, SplitByDistance, SplitByFirst

-----------------------------------------------------------------------------
(***************************************************************************)
(* Windows (events.py, 50-81).  Cuts are the steps at which a piece starts *)
(* or ends.                                                                *)
(***************************************************************************)
LEMMA PrepCardinality == \A S : Prep!Cardinality(S) = Cardinality(S)
  BY DEF Prep!Cardinality, Cardinality

Cuts(n, breaks) == {0, n} \cup breaks

IsTimeline(n, breaks) == n \in Nat \ {0} /\ breaks \in SUBSET (1 .. n - 1)

LEMMA BoundsAre ==
  ASSUME NEW n, NEW breaks, IsTimeline(n, breaks),
         NEW b, b = Prep!Bounds(n, breaks),
         NEW m, m = Cardinality(Cuts(n, breaks))
  PROVE  /\ m \in Nat /\ 2 <= m /\ m <= n + 1
         /\ b \in [1 .. m -> 0 .. n] /\ Len(b) = m
         /\ b[1] = 0 /\ b[m] = n
         /\ \A k, l \in 1 .. m : k < l => b[k] < b[l]
         /\ \A c \in breaks : \E k \in 1 .. m : b[k] = c
<1> DEFINE S == Cuts(n, breaks)
<1>0. n \in Nat /\ 0 < n /\ breaks \subseteq 1 .. n - 1
  BY DEF IsTimeline
<1>1. S \subseteq 0 .. n /\ 0 \in S /\ n \in S /\ breaks \subseteq S /\ S \in SUBSET Int
  BY <1>0 DEF Cuts
<1>2. IsFiniteSet(S) /\ Cardinality(S) <= n + 1
  <2>1. 0 \in Int /\ n \in Int /\ ~ (0 > n)
    BY <1>0
  <2>2. IsFiniteSet(0 .. n) /\ Cardinality(0 .. n) = n - 0 + 1
    BY <2>1, FS_Interval
  <2>3. IsFiniteSet(S) /\ Cardinality(S) <= Cardinality(0 .. n)
    BY <1>1, <2>2, FS_Subset
  <2> QED
    BY <1>0, <2>2, <2>3
<1>3. m \in Nat
  BY <1>2, FS_CardinalityType
<1>4. b = [k \in 1 .. m |-> CHOOSE c \in S : Prep!Cardinality({ d \in S : d < c }) = k - 1]
  BY PrepCardinality DEF Prep!Bounds, Cuts
<1>5. m = Cardinality(S)
  OBVIOUS
<1> HIDE DEF S
<1>17. ASSUME NEW k \in 1 .. m
       PROVE  b[k] \in S /\ Cardinality(Earlier(S, b[k])) = k - 1
  <2>1. \A c : Prep!Cardinality({ d \in S : d < c }) = Cardinality(Earlier(S, c))
    BY PrepCardinality DEF Earlier
  <2>2. \E c \in S : Prep!Cardinality({ d \in S : d < c }) = k - 1
    BY <1>1, <1>2, <1>5, <2>1, EachHasItsPlace
  <2>3. b[k] = CHOOSE c \in S : Prep!Cardinality({ d \in S : d < c }) = k - 1
    BY <1>4
  <2>4. b[k] \in S /\ Prep!Cardinality({ d \in S : d < b[k] }) = k - 1
    BY <2>2, <2>3
  <2> QED
    BY <2>1, <2>4
<1>18. b \in [1 .. m -> S]
  BY <1>4, <1>17
<1>6. /\ \A k, l \in 1 .. m : k < l => b[k] < b[l]
      /\ \A c \in S : \E k \in 1 .. m : b[k] = c
  <2>1. S \in SUBSET Int
    BY <1>1
  <2>2. \A k \in 1 .. m : Cardinality(Earlier(S, b[k])) = k - 1
    BY <1>17
  <2> QED
    BY <1>2, <1>5, <1>18, <2>1, <2>2, InOrder, Zenon
<1>7. PICK k \in 1 .. m : b[k] = 0
  BY <1>1, <1>6
<1>8. PICK l \in 1 .. m : b[l] = n
  BY <1>1, <1>6
<1>9. \A i \in 1 .. m : b[i] \in 0 .. n /\ b[i] \in Int
  BY <1>0, <1>1, <1>18
<1>10. 1 \in 1 .. m /\ m \in 1 .. m
  BY <1>3, <1>7
<1>11. k = 1
  <2>1. ~ (b[1] < b[k])
    BY <1>0, <1>7, <1>9, <1>10
  <2>2. ~ (1 < k)
    BY <1>6, <1>10, <2>1
  <2> QED
    BY <2>2
<1>12. l = m
  <2>1. ~ (b[l] < b[m])
    BY <1>0, <1>8, <1>9, <1>10
  <2>2. ~ (l < m)
    BY <1>6, <1>10, <2>1
  <2> QED
    BY <1>3, <2>2
<1>13. m # 1
  BY <1>0, <1>7, <1>8, <1>11, <1>12
<1>14. 2 <= m
  BY <1>3, <1>10, <1>13
<1>15. b \in [1 .. m -> 0 .. n]
  BY <1>1, <1>18
<1>16. Len(b) = m
  BY <1>3, <1>15
<1> QED
  BY <1>1, <1>2, <1>5, <1>3, <1>6, <1>7, <1>8, <1>11, <1>12, <1>14, <1>15, <1>16

\* The pieces between cuts that follow one another.
LEMMA PiecesAre ==
  ASSUME NEW n, NEW breaks, IsTimeline(n, breaks),
         NEW b, b = Prep!Bounds(n, breaks),
         NEW m, m = Cardinality(Cuts(n, breaks))
  PROVE  /\ DOMAIN Prep!Pieces(n, breaks) = 1 .. m - 1
         /\ \A k \in 1 .. m - 1 : Prep!Pieces(n, breaks)[k] = <<b[k], b[k + 1]>>
<1>1. Len(b) = m
  BY BoundsAre
<1> QED
  BY <1>1 DEF Prep!Pieces

Window == Int \X Int

\* v is what becomes of the windows w when the window p follows.
IsMerge(w, p, least, v) ==
  LET joins == \/ Prep!Length(p) < least
               \/ Prep!Length(w[Len(w)]) < least
  IN  /\ v \in Seq(Window)
      /\ w # <<>> /\ joins =>
           /\ Len(v) = Len(w)
           /\ \A k \in 1 .. Len(w) - 1 : v[k] = w[k]
           /\ v[Len(w)] = <<w[Len(w)][1], p[2]>>
      /\ w = <<>> \/ ~joins =>
           /\ Len(v) = Len(w) + 1
           /\ \A k \in 1 .. Len(w) : v[k] = w[k]
           /\ v[Len(w) + 1] = p

LEMMA MergeIs ==
  ASSUME NEW w \in Seq(Window), NEW p \in Window, NEW least \in Int
  PROVE  IsMerge(w, p, least, Prep!Merge(w, p, least))
<1> SUFFICES ASSUME NEW v, v = Prep!Merge(w, p, least)
             PROVE  IsMerge(w, p, least, v)
  OBVIOUS
<1> DEFINE n == Len(w)
           joins == Prep!Length(p) < least \/ Prep!Length(w[n]) < least
<1>1. n \in Nat /\ w \in [1 .. n -> Window]
  OBVIOUS
<1>2. CASE w # <<>> /\ joins
  <2>1. v = Append(SubSeq(w, 1, n - 1), <<w[n][1], p[2]>>)
    BY <1>2 DEF Prep!Merge, Prep!Front, Prep!Last
  <2>2. n >= 1
    BY <1>1, <1>2
  <2>3. w[n] \in Window
    BY <1>1, <2>2
  <2>4. <<w[n][1], p[2]>> \in Window
    BY <2>3 DEF Window
  <2>5. /\ SubSeq(w, 1, n - 1) \in Seq(Window) /\ Len(SubSeq(w, 1, n - 1)) = n - 1
        /\ \A k \in 1 .. n - 1 : SubSeq(w, 1, n - 1)[k] = w[k]
    BY <1>1, <2>2
  <2> DEFINE u == SubSeq(w, 1, n - 1)
             x == <<w[n][1], p[2]>>
  <2>6. v = Append(u, x) /\ u \in Seq(Window) /\ x \in Window /\ Len(u) = n - 1
    BY <2>1, <2>4, <2>5
  <2> HIDE DEF u, x
  <2>7. /\ v \in Seq(Window) /\ Len(v) = (n - 1) + 1
        /\ \A k \in 1 .. n - 1 : v[k] = u[k]
        /\ v[(n - 1) + 1] = x
    BY <2>6
  <2>8. (n - 1) + 1 = n
    BY <1>1
  <2>9. \A k \in 1 .. n - 1 : u[k] = w[k]
    BY <2>5 DEF u
  <2> QED
    BY <1>2, <2>7, <2>8, <2>9 DEF x, IsMerge
<1>3. CASE w = <<>> \/ ~joins
  <2>1. v = Append(w, p)
    BY <1>3 DEF Prep!Merge, Prep!Last
  <2> QED
    BY <1>3, <2>1 DEF IsMerge
<1> QED
  BY <1>2, <1>3

\* The windows before the first piece and after each of c of them.
Merges(p, least, c, best, built) ==
  /\ best[0] = <<>>
  /\ \A k \in 0 .. c : best[k] \in Seq(Window)
  /\ \A k \in 1 .. c : best[k] = Prep!Merge(best[k - 1], p[k], least)
  /\ built = best[c]

LEMMA Merging ==
  ASSUME NEW n, NEW breaks, NEW least \in Int, NEW c \in Nat, NEW p,
         p = Prep!Pieces(n, breaks), DOMAIN p = 1 .. c,
         \A k \in 1 .. c : p[k] \in Window
  PROVE  \E best : Merges(p, least, c, best, Prep!BuildWindows(n, breaks, least))
<1> DEFINE A == Seq(Window)
           F == [k \in 1 .. c |-> [a \in A |-> Prep!Merge(a, p[k], least)]]
           iter == CHOOSE h : h = [s \in SUBSET (1 .. c) |->
                     IF s = {} THEN <<>>
                     ELSE Prep!Merge(h[s \ {Max(s)}], p[Max(s)], least)]
<1>1. F \in [1 .. c -> [A -> A]]
  <2>1. \A k \in 1 .. c, a \in A : Prep!Merge(a, p[k], least) \in A
    BY MergeIs DEF IsMerge
  <2> QED
    BY <2>1
<1>2. \A a \in A, k \in 1 .. c : F[k][a] = Prep!Merge(a, p[k], least)
  OBVIOUS
<1>3. <<>> \in A
  OBVIOUS
<1> HIDE DEF A, F
<1>4. \A s \in SUBSET (1 .. c) : s # {} => Max(s) \in s
  BY LastOfAny
<1>5. \E h : h = [s \in SUBSET (1 .. c) |->
                    IF s = {} THEN <<>>
                    ELSE Prep!Merge(h[s \ {Max(s)}], p[Max(s)], least)]
  <2>1. PICK h \in [SUBSET (1 .. c) -> A] : IsFold(h, F, <<>>, c)
    BY <1>1, <1>3, FoldExists DEF HasFold
  <2>2. ASSUME NEW s \in SUBSET (1 .. c), s # {}
        PROVE  h[s] = Prep!Merge(h[s \ {Max(s)}], p[Max(s)], least)
    <3>1. h[s] = F[Max(s)][h[s \ {Max(s)}]]
      BY <2>1, <2>2 DEF IsFold
    <3>2. Max(s) \in 1 .. c /\ h[s \ {Max(s)}] \in A
      BY <1>4, <2>2
    <3> QED
      BY <1>2, <3>1, <3>2
  <2>3. h[{}] = <<>>
    BY <2>1 DEF IsFold
  <2> QED
    BY <2>2, <2>3
<1>6. iter = [s \in SUBSET (1 .. c) |->
                IF s = {} THEN <<>>
                ELSE Prep!Merge(iter[s \ {Max(s)}], p[Max(s)], least)]
  BY <1>5
<1>7. Prep!BuildWindows(n, breaks, least) = iter[1 .. c]
  BY DEF Prep!BuildWindows, Prep!FoldLeft, Prep!MapThenFoldSet, Prep!Max, Max
<1> HIDE DEF iter
<1>8. \A k \in 0 .. c :
        /\ iter[1 .. k] \in A
        /\ k = 0 => iter[1 .. k] = <<>>
        /\ k # 0 => iter[1 .. k] = F[k][iter[1 .. k - 1]]
  <2>1. iter[{}] = <<>>
    BY <1>6
  <2>2. ASSUME NEW s \in SUBSET (1 .. c), s # {}, iter[s \ {Max(s)}] \in A
        PROVE  iter[s] = F[Max(s)][iter[s \ {Max(s)}]]
    <3>1. Max(s) \in 1 .. c
      BY <1>4, <2>2
    <3>2. iter[s] = Prep!Merge(iter[s \ {Max(s)}], p[Max(s)], least)
      BY <1>6, <2>2
    <3> QED
      BY <1>2, <2>2, <3>1, <3>2
  <2>3. \A s \in SUBSET (1 .. c) :
          s # {} /\ iter[s \ {Max(s)}] \in A
            => iter[s] = F[Max(s)][iter[s \ {Max(s)}]]
    BY <2>2
  <2>4. FoldsIn(iter, F, A, <<>>, c)
    BY <2>1, <2>3 DEF FoldsIn
  <2> QED
    BY <1>1, <1>3, <2>4, FoldGoesOn
<1> DEFINE best == [k \in 0 .. c |-> iter[1 .. k]]
<1>9. best[0] = <<>> /\ best[c] = iter[1 .. c] /\ \A k \in 0 .. c : best[k] \in A
  BY <1>8
<1>10. ASSUME NEW k \in 1 .. c
       PROVE  best[k] = Prep!Merge(best[k - 1], p[k], least)
  <2>1. k \in 0 .. c /\ k - 1 \in 0 .. c /\ k # 0
    OBVIOUS
  <2>2. iter[1 .. k] = F[k][iter[1 .. k - 1]] /\ iter[1 .. k - 1] \in A
    BY <1>8, <2>1
  <2> QED
    BY <1>2, <2>1, <2>2
<1> HIDE DEF best
<1> QED
  BY <1>7, <1>9, <1>10 DEF Merges, A

(***************************************************************************)
(* What holds of the windows w of the first k pieces, cut at b: they go    *)
(* from the first cut to the last without a gap; only a window that is     *)
(* alone is short; and at a cut a window starts or a piece is short.       *)
(***************************************************************************)
ShortAt(b, m, least, i) ==
  \E j \in 1 .. m - 1 : i \in {j, j + 1} /\ b[j + 1] - b[j] < least

WindowsOf(w, b, m, least, k) ==
  /\ w \in Seq(Window) /\ 1 <= Len(w) /\ Len(w) <= k
  /\ w[1][1] = b[1] /\ w[Len(w)][2] = b[k + 1] /\ w[Len(w)][1] <= b[k]
  /\ \A j \in 1 .. Len(w) - 1 : w[j][2] = w[j + 1][1]
  /\ Len(w) > 1 => \A j \in 1 .. Len(w) : w[j][2] - w[j][1] >= least
  /\ \A i \in 1 .. k :
       (\E j \in 1 .. Len(w) : w[j][1] = b[i]) \/ ShortAt(b, m, least, i)

IsCuts(b, m) ==
  /\ m \in Nat /\ 2 <= m /\ b \in [1 .. m -> Int]
  /\ \A k, l \in 1 .. m : k < l => b[k] < b[l]

LEMMA FirstWindow ==
  ASSUME NEW b, NEW m, IsCuts(b, m), NEW least \in Int,
         NEW v, v = Prep!Merge(<<>>, <<b[1], b[2]>>, least)
  PROVE  WindowsOf(v, b, m, least, 1)
<1>1. 1 \in 1 .. m /\ 2 \in 1 .. m /\ b[1] < b[2] /\ b[1] \in Int /\ b[2] \in Int
  BY DEF IsCuts
<1>2. <<b[1], b[2]>> \in Window /\ <<>> \in Seq(Window) /\ Len(<<>>) = 0
  BY <1>1 DEF Window
<1>3. v \in Seq(Window) /\ Len(v) = 0 + 1 /\ v[0 + 1] = <<b[1], b[2]>>
  <2>1. IsMerge(<<>>, <<b[1], b[2]>>, least, v)
    BY <1>2, MergeIs
  <2> QED
    BY <1>2, <2>1 DEF IsMerge
<1>4. Len(v) = 1 /\ v[1] = <<b[1], b[2]>>
  BY <1>3
<1>5. v[1][1] = b[1] /\ v[1][2] = b[2] /\ 1 + 1 = 2 /\ 1 <= 1
  BY <1>4
<1>6. \A j \in 1 .. 1 - 1 : FALSE
  OBVIOUS
<1>7. \A i \in 1 .. 1 : i = 1
  OBVIOUS
<1>8. b[1] <= b[1] /\ ~ (1 > 1)
  BY <1>1
<1>9. 1 \in 1 .. 1
  OBVIOUS
<1> QED
  BY <1>3, <1>4, <1>5, <1>6, <1>7, <1>8, <1>9 DEF WindowsOf

LEMMA NextWindow ==
  ASSUME NEW b, NEW m, IsCuts(b, m), NEW least \in Int,
         NEW k \in 1 .. m - 2, NEW w, WindowsOf(w, b, m, least, k),
         NEW v, v = Prep!Merge(w, <<b[k + 1], b[k + 2]>>, least)
  PROVE  WindowsOf(v, b, m, least, k + 1)
<1> DEFINE n == Len(w)
           p == <<b[k + 1], b[k + 2]>>
<1>1. /\ m \in Nat /\ k \in 1 .. m - 1 /\ k + 1 \in 1 .. m - 1
      /\ k \in 1 .. m /\ k + 1 \in 1 .. m /\ k + 2 \in 1 .. m
      /\ (k + 1) + 1 = k + 2
  BY DEF IsCuts
<1>2. /\ b[k] \in Int /\ b[k + 1] \in Int /\ b[k + 2] \in Int
      /\ b[k] < b[k + 1] /\ b[k + 1] < b[k + 2]
  BY <1>1 DEF IsCuts
<1>3. w \in Seq(Window) /\ n \in Nat /\ 1 <= n /\ \A j \in 1 .. n : w[j] \in Window
  BY DEF WindowsOf
<1>4. p \in Window /\ p[1] = b[k + 1] /\ p[2] = b[k + 2]
  BY <1>2 DEF Window
<1>5. \A j \in 1 .. n : w[j][1] \in Int /\ w[j][2] \in Int
  BY <1>3 DEF Window
<1>13. n <= k
  BY DEF WindowsOf
<1>6. /\ w[1][1] = b[1] /\ w[n][2] = b[k + 1] /\ w[n][1] <= b[k]
      /\ \A j \in 1 .. n - 1 : w[j][2] = w[j + 1][1]
      /\ n > 1 => \A j \in 1 .. n : w[j][2] - w[j][1] >= least
      /\ \A i \in 1 .. k :
           (\E j \in 1 .. n : w[j][1] = b[i]) \/ ShortAt(b, m, least, i)
  BY DEF WindowsOf
<1>7. w # <<>> /\ n \in 1 .. n /\ 1 \in 1 .. n
  BY <1>3
<1>8. \A i \in 1 .. k + 1 : i \in 1 .. k \/ i = k + 1
  OBVIOUS
<1> DEFINE joins == Prep!Length(p) < least \/ Prep!Length(w[n]) < least
<1>9. joins <=> b[k + 2] - b[k + 1] < least \/ w[n][2] - w[n][1] < least
  BY <1>4 DEF Prep!Length
<1>10. /\ v \in Seq(Window)
       /\ joins => /\ Len(v) = n
                   /\ \A j \in 1 .. n - 1 : v[j] = w[j]
                   /\ v[n] = <<w[n][1], p[2]>>
       /\ ~joins => /\ Len(v) = n + 1
                    /\ \A j \in 1 .. n : v[j] = w[j]
                    /\ v[n + 1] = p
  <2>1. IsMerge(w, p, least, v)
    BY <1>3, <1>4, MergeIs
  <2> QED
    BY <1>7, <2>1 DEF IsMerge
<1> HIDE DEF joins, p, n
<1>11. CASE joins
  <2>1. /\ Len(v) = n /\ v[n][1] = w[n][1] /\ v[n][2] = b[k + 2]
        /\ \A j \in 1 .. n - 1 : v[j] = w[j]
    <3>1. v[n] = <<w[n][1], p[2]>> /\ <<w[n][1], p[2]>>[1] = w[n][1]
          /\ <<w[n][1], p[2]>>[2] = p[2]
      BY <1>10, <1>11
    <3> QED
      BY <1>4, <1>10, <1>11, <3>1
  <2>2. \A j \in 1 .. n : v[j][1] = w[j][1]
    <3>1. \A j \in 1 .. n : j \in 1 .. n - 1 \/ j = n
      BY <1>3
    <3> QED
      BY <2>1, <3>1
  <2>3. \A j \in 1 .. n - 1 : v[j][2] = v[j + 1][1]
    <3>1. \A j \in 1 .. n - 1 : j + 1 \in 1 .. n
      BY <1>3
    <3> QED
      BY <1>6, <2>1, <2>2, <3>1
  <2>4. ShortAt(b, m, least, k + 1)
    <3>1. CASE b[k + 2] - b[k + 1] < least
      BY <1>1, <3>1 DEF ShortAt
    <3>2. CASE w[n][2] - w[n][1] < least
      <4>1. b[k + 1] - b[k] < least
        BY <1>2, <1>5, <1>6, <1>7, <3>2
      <4> QED
        BY <1>1, <4>1 DEF ShortAt
    <3> QED
      BY <1>9, <1>11, <3>1, <3>2
  <2>5. ASSUME n > 1, NEW j \in 1 .. n PROVE v[j][2] - v[j][1] >= least
    <3>1. CASE j = n
      <4>1. w[n][2] - w[n][1] >= least
        BY <1>6, <1>7, <2>5
      <4> QED
        BY <1>2, <1>5, <1>6, <1>7, <2>1, <3>1, <4>1
    <3>2. CASE j # n
      <4>1. j \in 1 .. n - 1
        BY <1>3, <3>2
      <4> QED
        BY <1>6, <2>1, <2>5, <4>1
    <3> QED
      BY <3>1, <3>2
  <2>6. v[1][1] = b[1]
    BY <1>6, <1>7, <2>2
  <2>7. v[n][1] <= b[k + 1]
    BY <1>2, <1>5, <1>6, <1>7, <2>1
  <2>8. ASSUME NEW i \in 1 .. k + 1
        PROVE  (\E j \in 1 .. n : v[j][1] = b[i]) \/ ShortAt(b, m, least, i)
    BY <1>6, <1>8, <2>2, <2>4
  <2>9. n <= k + 1
    BY <1>3, <1>13
  <2> QED
    BY <1>1, <1>3, <1>10, <2>9, <2>1, <2>3, <2>5, <2>6, <2>7, <2>8 DEF WindowsOf
<1>12. CASE ~joins
  <2>1. /\ Len(v) = n + 1 /\ v[n + 1][1] = b[k + 1] /\ v[n + 1][2] = b[k + 2]
        /\ \A j \in 1 .. n : v[j] = w[j]
    BY <1>4, <1>10, <1>12
  <2>2. \A j \in 1 .. n + 1 : j \in 1 .. n \/ j = n + 1
    BY <1>3
  <2>3. ASSUME NEW j \in 1 .. (n + 1) - 1 PROVE v[j][2] = v[j + 1][1]
    <3>1. CASE j = n
      BY <1>6, <1>7, <2>1, <3>1
    <3>2. CASE j # n
      <4>1. j \in 1 .. n - 1 /\ j \in 1 .. n /\ j + 1 \in 1 .. n
        BY <1>3, <3>2
      <4> QED
        BY <1>6, <2>1, <4>1
    <3> QED
      BY <3>1, <3>2
  <2>4. ASSUME NEW j \in 1 .. n + 1 PROVE v[j][2] - v[j][1] >= least
    <3>1. CASE j = n + 1
      BY <1>2, <1>9, <1>12, <2>1, <3>1
    <3>2. CASE j # n + 1 /\ n > 1
      BY <1>6, <2>1, <2>2, <3>2
    <3>3. CASE j # n + 1 /\ ~ (n > 1)
      <4>1. j = n
        BY <1>3, <2>2, <3>3
      <4>2. w[n][2] - w[n][1] >= least
        BY <1>5, <1>7, <1>9, <1>12
      <4> QED
        BY <1>7, <2>1, <4>1, <4>2
    <3> QED
      BY <3>1, <3>2, <3>3
  <2>5. v[1][1] = b[1]
    BY <1>6, <1>7, <2>1
  <2>6. v[n + 1][1] <= b[k + 1]
    BY <1>2, <2>1
  <2>7. \A j \in 1 .. n : j \in 1 .. n + 1
    BY <1>3
  <2>8. n + 1 \in 1 .. n + 1 /\ 1 <= n + 1 /\ n + 1 <= k + 1
    BY <1>3, <1>13
  <2>9. ASSUME NEW i \in 1 .. k + 1
        PROVE  (\E j \in 1 .. n + 1 : v[j][1] = b[i]) \/ ShortAt(b, m, least, i)
    <3>1. CASE i = k + 1
      BY <2>1, <2>8, <3>1
    <3>2. CASE i # k + 1
      BY <1>6, <1>8, <2>1, <2>7, <3>2
    <3> QED
      BY <3>1, <3>2
  <2> QED
    BY <1>1, <1>10, <2>1, <2>3, <2>4, <2>5, <2>6, <2>8, <2>9 DEF WindowsOf
<1> QED
  BY <1>11, <1>12

LEMMA AllMerged ==
  ASSUME NEW b, NEW m, IsCuts(b, m), NEW least \in Int, NEW p, NEW best, NEW built,
         \A k \in 1 .. m - 1 : p[k] = <<b[k], b[k + 1]>>,
         Merges(p, least, m - 1, best, built)
  PROVE  WindowsOf(built, b, m, least, m - 1)
<1>1. m \in Nat /\ 2 <= m
  BY DEF IsCuts
<1> DEFINE T == { k \in Nat : k + 1 <= m - 1 => WindowsOf(best[k + 1], b, m, least, k + 1) }
<1>2. 0 \in T
  <2>1. 1 \in 1 .. m - 1 /\ 1 - 1 = 0 /\ 1 + 1 = 2 /\ 0 + 1 = 1
    BY <1>1
  <2>2. best[1] = Prep!Merge(<<>>, <<b[1], b[2]>>, least)
    BY <2>1 DEF Merges
  <2>3. WindowsOf(best[1], b, m, least, 1)
    BY <2>2, FirstWindow
  <2> QED
    BY <2>1, <2>3
<1>3. ASSUME NEW k \in Nat, k \in T PROVE k + 1 \in T
  <2> SUFFICES ASSUME (k + 1) + 1 <= m - 1
               PROVE  WindowsOf(best[(k + 1) + 1], b, m, least, (k + 1) + 1)
    OBVIOUS
  <2> DEFINE j == k + 1
  <2>1. /\ j \in 1 .. m - 2 /\ j + 1 \in 1 .. m - 1 /\ (j + 1) - 1 = j
        /\ (j + 1) + 1 = j + 2
    BY <1>1
  <2>2. WindowsOf(best[j], b, m, least, j)
    BY <1>1, <1>3
  <2> HIDE DEF j
  <2>3. best[j + 1] = Prep!Merge(best[j], <<b[j + 1], b[j + 2]>>, least)
    BY <2>1 DEF Merges
  <2>4. WindowsOf(best[j + 1], b, m, least, j + 1)
    BY <2>1, <2>2, <2>3, NextWindow
  <2> QED
    BY <2>4 DEF j
<1> HIDE DEF T
<1>4. Nat \subseteq T
  BY <1>2, <1>3, SetInduction
<1>5. m - 2 \in Nat /\ (m - 2) + 1 = m - 1 /\ m - 1 <= m - 1
  BY <1>1
<1>6. m - 2 \in T
  BY <1>4, <1>5
<1>7. WindowsOf(best[m - 1], b, m, least, m - 1)
  BY <1>5, <1>6 DEF T
<1> QED
  BY <1>7 DEF Merges

(***************************************************************************)
(* Built windows go from the first step to the last, only one that is      *)
(* alone is short, and at a break one starts or a piece is short.          *)
(***************************************************************************)
IsSplitInTime(w, n, breaks, least) ==
  /\ w \in Seq(Window) /\ 1 <= Len(w) /\ Len(w) <= n
  /\ w[1][1] = 0 /\ w[Len(w)][2] = n
  /\ \A k \in 1 .. Len(w) - 1 : w[k][2] = w[k + 1][1]
  /\ Len(w) > 1 => \A k \in 1 .. Len(w) : Prep!Length(w[k]) >= least
  /\ \A c \in breaks :
       \/ \E k \in 1 .. Len(w) : w[k][1] = c
       \/ ShortPieceAt(c, n, breaks, least)

LEMMA TimelineIsSplit ==
  ASSUME NEW n, NEW breaks, IsTimeline(n, breaks), NEW least \in Int
  PROVE  IsSplitInTime(Prep!BuildWindows(n, breaks, least), n, breaks, least)
<1> DEFINE b == Prep!Bounds(n, breaks)
           m == Cardinality(Cuts(n, breaks))
           p == Prep!Pieces(n, breaks)
           w == Prep!BuildWindows(n, breaks, least)
<1> HIDE DEF b, m, p, w
<1>1. /\ m \in Nat /\ 2 <= m /\ m <= n + 1
      /\ b \in [1 .. m -> 0 .. n] /\ b[1] = 0 /\ b[m] = n
      /\ \A k, l \in 1 .. m : k < l => b[k] < b[l]
      /\ \A c \in breaks : \E k \in 1 .. m : b[k] = c
  BY BoundsAre DEF b, m
<1>2. DOMAIN p = 1 .. m - 1 /\ \A k \in 1 .. m - 1 : p[k] = <<b[k], b[k + 1]>>
  BY PiecesAre DEF b, m, p
<1>3. n \in Nat /\ breaks \subseteq 1 .. n - 1
  BY DEF IsTimeline
<1>4. b \in [1 .. m -> Int]
  BY <1>1, <1>3
<1>5. IsCuts(b, m)
  BY <1>1, <1>4 DEF IsCuts
<1>6. \A k \in 1 .. m - 1 : p[k] \in Window
  <2>1. \A k \in 1 .. m - 1 : k \in 1 .. m /\ k + 1 \in 1 .. m
    BY <1>1
  <2>2. \A k \in 1 .. m - 1 : b[k] \in Int /\ b[k + 1] \in Int
    BY <1>4, <2>1
  <2>3. \A k \in 1 .. m - 1 : <<b[k], b[k + 1]>> \in Int \X Int
    BY <2>2
  <2> QED
    BY <1>2, <2>3 DEF Window
<1>7. m - 1 \in Nat
  BY <1>1
<1>8. PICK best : Merges(p, least, m - 1, best, w)
  BY <1>2, <1>6, <1>7, Merging DEF p, w
<1>9. WindowsOf(w, b, m, least, m - 1)
  BY <1>2, <1>5, <1>8, AllMerged
<1>10. (m - 1) + 1 = m
  BY <1>1
<1>11. \A k \in 1 .. Len(w) : Prep!Length(w[k]) = w[k][2] - w[k][1]
  BY DEF Prep!Length
<1>12. ASSUME NEW c \in breaks
       PROVE  (\E k \in 1 .. Len(w) : w[k][1] = c) \/ ShortPieceAt(c, n, breaks, least)
  <2>1. PICK i \in 1 .. m : b[i] = c
    BY <1>1
  <2>2. i # m
    BY <1>1, <1>3, <2>1
  <2>3. i \in 1 .. m - 1
    BY <1>1, <2>2
  <2>4. (\E j \in 1 .. Len(w) : w[j][1] = b[i]) \/ ShortAt(b, m, least, i)
    BY <1>9, <2>3 DEF WindowsOf
  <2>5. ASSUME ShortAt(b, m, least, i) PROVE ShortPieceAt(c, n, breaks, least)
    <3>1. PICK j \in 1 .. m - 1 : i \in {j, j + 1} /\ b[j + 1] - b[j] < least
      BY <2>5 DEF ShortAt
    <3>2. p[j] \in Range(p) /\ p[j] = <<b[j], b[j + 1]>>
      BY <1>2 DEF Range
    <3>3. p[j][1] = b[j] /\ p[j][2] = b[j + 1]
      BY <3>2
    <3>4. Prep!Length(p[j]) < least
      BY <3>1, <3>3 DEF Prep!Length
    <3>5. c \in {p[j][1], p[j][2]}
      BY <2>1, <3>1, <3>3
    <3> QED
      BY <3>2, <3>4, <3>5 DEF ShortPieceAt, p
  <2> QED
    BY <2>1, <2>4, <2>5
<1>14. Len(w) <= n
  <2>1. Len(w) <= m - 1 /\ Len(w) \in Nat
    BY <1>9 DEF WindowsOf
  <2> QED
    BY <1>1, <1>3, <2>1
<1>13. IsSplitInTime(w, n, breaks, least)
  BY <1>1, <1>14, <1>9, <1>10, <1>11, <1>12 DEF IsSplitInTime, WindowsOf
<1> QED
  BY <1>13 DEF w

-----------------------------------------------------------------------------
(***************************************************************************)
(* The steps that are held out (split.py, 25-33).                          *)
(***************************************************************************)
LEMMA RoundedIs ==
  ASSUME NEW a \in Nat
  PROVE  /\ Prep!Rounded(a) \in Nat
         /\ 100 * Prep!Rounded(a) <= a + 50
<1>1. /\ a \div 100 \in Nat /\ a % 100 \in 0 .. 99
      /\ a = 100 * (a \div 100) + (a % 100)
  <2>1. a \div 100 \in Nat
    OBVIOUS
  <2>2. a % 100 \in 0 .. 99
    OBVIOUS
  <2>3. a = 100 * (a \div 100) + (a % 100)
    OBVIOUS
  <2> QED
    BY <2>1, <2>2, <2>3
<1>2. a \div 100 + 1 \in Nat
  BY <1>1
<1>3. CASE a % 100 > 50 \/ (a % 100 = 50 /\ (a \div 100) % 2 = 1)
  <2>1. Prep!Rounded(a) = a \div 100 + 1
    BY <1>3 DEF Prep!Rounded
  <2> QED
    BY <1>1, <1>2, <1>3, <2>1
<1>4. CASE ~ (a % 100 > 50 \/ (a % 100 = 50 /\ (a \div 100) % 2 = 1))
  <2>1. Prep!Rounded(a) = a \div 100
    BY <1>4 DEF Prep!Rounded
  <2> QED
    BY <1>1, <1>4, <2>1
<1> QED
  BY <1>3, <1>4

LEMMA HeldOut ==
  ASSUME NEW n \in Nat, NEW percent \in Nat, NEW least \in Nat,
         NEW train, train = Prep!TrainSteps(n, percent, least)
  PROVE  LET blind == n - train
         IN  /\ train >= Prep!Smaller(2, n)
             /\ n >= least + 2 => blind >= least
             /\ 100 * blind > n * percent + 50 => blind <= least
<1> DEFINE r == Prep!Rounded(n * percent)
           x == n * percent
<1>1. x \in Nat
  OBVIOUS
<1>2. r \in Nat /\ 100 * r <= x + 50
  BY <1>1, RoundedIs
<1> HIDE DEF r, x
<1>3. train = n - Prep!Smaller(Prep!Larger(least, r), Prep!Larger(0, n - 2))
  BY DEF Prep!TrainSteps, Prep!BlindSteps, r
<1>4. /\ train >= Prep!Smaller(2, n)
      /\ n >= least + 2 => n - train >= least
      /\ 100 * (n - train) > x + 50 => n - train <= least
  BY <1>1, <1>2, <1>3 DEF Prep!Smaller, Prep!Larger
<1> QED
  BY <1>4 DEF x

-----------------------------------------------------------------------------
(***************************************************************************)
(* Long shut-ins (events.py, 84-108): the steps off between the last step  *)
(* on before and the next one on.                                          *)
(***************************************************************************)
LEMMA ShutInsAre ==
  ASSUME NEW s \in Seq(BOOLEAN), NEW t \in 1 .. Len(s)
  PROVE  LET off(a, b) == \A u \in a .. b : ~s[u]
         IN  (\E w \in Prep!LongShutIns(s, 2) : w[1] < t /\ t <= w[2])
               <=> /\ ~ (off(1, t) \/ off(t, Len(s)))
                   /\ \E u \in {t - 1, t} : u \in 1 .. Len(s) - 1 /\ off(u, u + 1)
<1> DEFINE n == Len(s)
           off(a, b) == \A u \in a .. b : ~s[u]
           long == Prep!LongShutIns(s, 2)
<1>1. n \in Nat /\ t \in 1 .. n
  OBVIOUS
<1>2. \A w \in long : /\ w[1] \in 1 .. n - 1 /\ w[2] \in 1 .. n - 1
                      /\ w[2] - w[1] >= 2
                      /\ s[w[1]] /\ s[w[2] + 1]
                      /\ \A u \in w[1] + 1 .. w[2] : ~s[u]
  BY DEF Prep!LongShutIns, Prep!Length
<1>3. \A a, c \in 1 .. n - 1 :
        /\ c - a >= 2 /\ s[a] /\ s[c + 1] /\ \A u \in a + 1 .. c : ~s[u]
        => <<a, c>> \in long
  BY DEF Prep!LongShutIns, Prep!Length
<1> HIDE DEF n, long
<1>4. ASSUME NEW w \in long, w[1] < t, t <= w[2]
      PROVE  /\ ~ (off(1, t) \/ off(t, n))
             /\ \E u \in {t - 1, t} : u \in 1 .. n - 1 /\ off(u, u + 1)
  <2>1. /\ w[1] \in 1 .. n - 1 /\ w[2] \in 1 .. n - 1
        /\ w[2] - w[1] >= 2
        /\ s[w[1]] /\ s[w[2] + 1]
        /\ \A u \in w[1] + 1 .. w[2] : ~s[u]
    BY <1>2
  <2>2. ~off(1, t)
    <3>1. w[1] \in 1 .. t
      BY <1>1, <1>4, <2>1
    <3> QED
      BY <2>1, <3>1
  <2>3. ~off(t, n)
    <3>1. w[2] + 1 \in t .. n
      BY <1>1, <1>4, <2>1
    <3> QED
      BY <2>1, <3>1
  <2>4. \E u \in {t - 1, t} : u \in 1 .. n - 1 /\ off(u, u + 1)
    <3>1. CASE t = w[2]
      <4>1. /\ t - 1 \in 1 .. n - 1
            /\ \A u \in t - 1 .. (t - 1) + 1 : u \in w[1] + 1 .. w[2]
        BY <1>1, <1>4, <2>1, <3>1
      <4>2. off(t - 1, (t - 1) + 1)
        BY <2>1, <4>1
      <4> QED
        BY <4>1, <4>2
    <3>2. CASE t # w[2]
      <4>1. t \in 1 .. n - 1 /\ \A u \in t .. t + 1 : u \in w[1] + 1 .. w[2]
        BY <1>1, <1>4, <2>1, <3>2
      <4>2. off(t, t + 1)
        BY <2>1, <4>1
      <4> QED
        BY <4>1, <4>2
    <3> QED
      BY <3>1, <3>2
  <2> QED
    BY <2>2, <2>3, <2>4
<1>5. ASSUME ~off(1, t), ~off(t, n),
             NEW u \in {t - 1, t}, u \in 1 .. n - 1, off(u, u + 1)
      PROVE  \E w \in long : w[1] < t /\ t <= w[2]
  <2> DEFINE B == { k \in 1 .. n : k <= t /\ s[k] }
             C == { k \in 1 .. n : t <= k /\ s[k] }
  <2>0. u \in Int /\ u \in u .. u + 1 /\ u + 1 \in u .. u + 1 /\ (u = t \/ u = t - 1)
    BY <1>1, <1>5
  <2>1. ~s[u] /\ ~s[u + 1] /\ ~s[t]
    <3>1. ~s[u] /\ ~s[u + 1]
      BY <1>5, <2>0
    <3>2. t = u \/ t = u + 1
      BY <1>1, <2>0
    <3> QED
      BY <3>1, <3>2
  <2>2. B # {} /\ B \in SUBSET (1 .. n)
    <3>1. PICK k \in 1 .. t : s[k]
      BY <1>5
    <3> QED
      BY <1>1, <3>1
  <2>3. C # {} /\ C \in SUBSET Nat
    <3>1. PICK k \in t .. n : s[k]
      BY <1>5
    <3> QED
      BY <1>1, <3>1
  <2>4. PICK a \in B : \A k \in B : k <= a
    BY <1>1, <2>2, LatestOf
  <2>5. PICK c \in C : \A k \in C : c <= k
    BY <2>3, LeastOf
  <2>6. a \in 1 .. n /\ a <= t /\ s[a] /\ c \in 1 .. n /\ t <= c /\ s[c]
    BY <2>4, <2>5
  <2>7. a < t /\ t < c
    BY <1>1, <2>1, <2>6
  <2>8. a # u /\ a # u + 1 /\ c # u /\ c # u + 1
    BY <2>1, <2>6
  <2>9. a \in 1 .. n - 1 /\ c - 1 \in 1 .. n - 1 /\ (c - 1) - a >= 2 /\ (c - 1) + 1 = c
    BY <1>1, <1>5, <2>0, <2>6, <2>7, <2>8
  <2>10. ASSUME NEW k \in a + 1 .. c - 1, s[k] PROVE FALSE
    <3>1. k \in 1 .. n /\ (k <= t \/ t <= k) /\ a < k /\ k < c
      BY <1>1, <2>6
    <3>2. k \in B \/ k \in C
      BY <2>10, <3>1
    <3> HIDE DEF B, C
    <3>3. k <= a \/ c <= k
      BY <2>4, <2>5, <3>2
    <3> QED
      BY <2>6, <3>1, <3>3
  <2>11. <<a, c - 1>> \in long
    BY <1>3, <2>6, <2>9, <2>10
  <2>12. t <= c - 1
    BY <1>1, <2>6, <2>7
  <2> QED
    BY <2>7, <2>11, <2>12
<1> HIDE DEF off
<1>6. (\E w \in long : w[1] < t /\ t <= w[2])
        <=> /\ ~ (off(1, t) \/ off(t, n))
            /\ \E u \in {t - 1, t} : u \in 1 .. n - 1 /\ off(u, u + 1)
  BY <1>4, <1>5
<1> QED
  BY <1>6 DEF off, n, long

-----------------------------------------------------------------------------
(***************************************************************************)
(* The windows and runs of an engine run (engine.py, 80-230).              *)
(***************************************************************************)
LEMMA SameWindows ==
  \A n, breaks, least :
    Eng!P!BuildWindows(n, breaks, least) = Prep!BuildWindows(n, breaks, least)
BY DEF Eng!P!BuildWindows, Eng!P!FoldLeft, Eng!P!MapThenFoldSet, Eng!P!Merge,
       Eng!P!Length, Eng!P!Pieces, Eng!P!Bounds, Eng!P!Max, Eng!P!Front, Eng!P!Last,
       Eng!P!Cardinality, Prep!BuildWindows, Prep!FoldLeft, Prep!MapThenFoldSet,
       Prep!Merge, Prep!Length, Prep!Pieces, Prep!Bounds, Prep!Max, Prep!Front,
       Prep!Last, Prep!Cardinality

LEMMA SameConversions == \A h : Eng!W!Conversions(h) = WT!Conversions(h)
BY DEF Eng!W!Conversions, Eng!W!IsConversion, Eng!W!Role, Eng!W!Active, Eng!W!Before,
       Eng!W!Pure, Eng!W!Mode, Eng!W!Earliest, Eng!W!Latest,
       WT!Conversions, WT!IsConversion, WT!Role, WT!Active, WT!Before, WT!Pure,
       WT!Mode, WT!Earliest, WT!Latest

Badges == {"HIGH", "MEDIUM", "LOW"}

RunOK(f) ==
  LET n == Eng!Steps(f)
  IN  /\ n \in Nat \ {0}
      /\ \A w \in DOMAIN f.history : DOMAIN f.history[w] = 1 .. n
      /\ f.table \in {"none", "complete", "no note"}
      /\ f.breaks \in SUBSET Nat
      /\ f.minWindow \in Nat /\ f.minSteps \in Nat
      /\ f.badge \in [1 .. n -> Badges]

\* A well is converted at a step that has one before it.
LEMMA ConversionsInside ==
  ASSUME NEW h, NEW n \in Nat, DOMAIN h = 1 .. n, NEW t \in WT!Conversions(h)
  PROVE  t \in 2 .. n
<1>1. t \in 1 .. n /\ WT!Before(WT!Active(h), t) # {}
  BY DEF WT!Conversions, WT!IsConversion
<1>2. PICK u \in 1 .. n : u < t
  BY <1>1 DEF WT!Before, WT!Active
<1> QED
  BY <1>1, <1>2

\* What the breaks of a run are; step k is dated k.
LEMMA BreaksAre ==
  ASSUME NEW n \in Nat \ {0}, NEW days \in SUBSET Nat
  PROVE  Eng!P!Breaks([k \in 1 .. n |-> k], days) = { t - 1 : t \in days } \cap (1 .. n - 1)
<1> DEFINE dates == [k \in 1 .. n |-> k]
           step(d) == Eng!P!StepOf(dates, d)
<1>1. Len(dates) = n /\ DOMAIN dates = 1 .. n /\ \A k \in 1 .. n : dates[k] = k
  OBVIOUS
<1>2. \A S : Eng!P!Cardinality(S) = Cardinality(S)
  BY DEF Eng!P!Cardinality, Cardinality
<1>3. ASSUME NEW d \in Nat
      PROVE  /\ d \in 1 .. n => step(d) = d - 1
             /\ d = 0 => step(d) = 0
             /\ d > n => step(d) = n
  <2> DEFINE S == { t \in 1 .. n : t < d }
  <2>1. step(d) = Cardinality(S)
    <3>1. S = { t \in DOMAIN dates : dates[t] < d }
      BY <1>1
    <3> HIDE DEF S, dates
    <3> QED
      BY <1>2, <3>1 DEF Eng!P!StepOf
  <2>2. CASE d \in 1 .. n
    <3>1. S = 1 .. d - 1
      BY <2>2
    <3>2. Cardinality(1 .. d - 1) = d - 1
      <4>1. 1 \in Int /\ d - 1 \in Int
        OBVIOUS
      <4>2. Cardinality(1 .. d - 1) = IF 1 > d - 1 THEN 0 ELSE (d - 1) - 1 + 1
        BY <4>1, FS_Interval
      <4> QED
        BY <2>2, <4>2
    <3> HIDE DEF S, step, dates
    <3>3. step(d) = d - 1
      BY <2>1, <3>1, <3>2
    <3> QED
      BY <2>2, <3>3
  <2>3. CASE d = 0
    <3>1. S = {}
      BY <2>3
    <3> QED
      BY <2>1, <2>3, <3>1, FS_EmptySet
  <2>4. CASE d > n
    <3>1. S = 1 .. n
      BY <2>4
    <3>2. Cardinality(1 .. n) = n
      <4>1. 1 \in Int /\ n \in Int
        OBVIOUS
      <4>2. Cardinality(1 .. n) = IF 1 > n THEN 0 ELSE n - 1 + 1
        BY <4>1, FS_Interval
      <4> QED
        BY <4>2
    <3> HIDE DEF S, step, dates
    <3>3. step(d) = n
      BY <2>1, <3>1, <3>2
    <3> QED
      BY <2>4, <3>3
  <2> HIDE DEF step, dates, S
  <2> QED
    BY <2>2, <2>3, <2>4
<1>4. Eng!P!Breaks(dates, days) = { step(d) : d \in days } \cap (1 .. n - 1)
  BY <1>1 DEF Eng!P!Breaks
<1> HIDE DEF step
<1>5. ASSUME NEW x \in 1 .. n - 1
      PROVE  (\E d \in days : x = step(d)) <=> \E t \in days : x = t - 1
  <2>1. ASSUME NEW d \in days PROVE x = step(d) <=> x = d - 1
    <3>1. d \in Nat /\ (d \in 1 .. n \/ d = 0 \/ d > n)
      OBVIOUS
    <3> QED
      BY <1>3, <3>1
  <2> QED
    BY <2>1
<1> QED
  BY <1>4, <1>5

RunBreaks(f) ==
  LET events == IF f.table = "none" THEN {} ELSE f.breaks
  IN  { t - 1 : t \in events \cup Eng!ConversionSteps(f) } \cap (1 .. Eng!Steps(f) - 1)

LEMMA ConversionDays ==
  ASSUME NEW f, RunOK(f)
  PROVE  /\ Eng!ConversionSteps(f) \in SUBSET (2 .. Eng!Steps(f))
         /\ \A w \in DOMAIN f.history :
              WT!Conversions(f.history[w]) \subseteq Eng!ConversionSteps(f)
<1>1. Eng!Steps(f) \in Nat
  BY Zenon DEF RunOK
<1>2. \A w \in DOMAIN f.history :
        WT!Conversions(f.history[w]) \subseteq 2 .. Eng!Steps(f)
  BY <1>1, ConversionsInside, Zenon DEF RunOK
<1>3. Eng!ConversionSteps(f) = UNION { WT!Conversions(f.history[w]) : w \in DOMAIN f.history }
  BY SameConversions DEF Eng!ConversionSteps
<1> QED
  BY <1>2, <1>3

LEMMA RunWindows ==
  ASSUME NEW f, RunOK(f)
  PROVE  \E breaks :
           /\ IsTimeline(Eng!Steps(f), breaks)
           /\ Eng!Windows(f) = Prep!BuildWindows(Eng!Steps(f), breaks, f.minWindow)
           /\ f.table # "no note" => breaks = RunBreaks(f)
<1> DEFINE n == Eng!Steps(f)
           days == Eng!EventSteps(f)
           breaks == { t - 1 : t \in days } \cap (1 .. n - 1)
<1>1. n \in Nat \ {0}
  BY Zenon DEF RunOK
<1>2. Eng!ConversionSteps(f) \in SUBSET Nat
  BY <1>1, ConversionDays
<1>3. /\ days \in SUBSET Nat
      /\ f.table # "no note" =>
           days = (IF f.table = "none" THEN {} ELSE f.breaks) \cup Eng!ConversionSteps(f)
  BY <1>2, Zenon DEF RunOK, Eng!EventSteps
<1> HIDE DEF n, days
<1>4. Eng!P!Breaks([k \in 1 .. n |-> k], days) = breaks
  BY <1>1, <1>3, BreaksAre, Zenon
<1>5. Eng!Windows(f) = Eng!P!BuildWindows(n, breaks, f.minWindow)
  BY <1>4 DEF Eng!Windows, n, days
<1>6. IsTimeline(n, breaks)
  BY <1>1 DEF IsTimeline
<1>7. f.table # "no note" => breaks = RunBreaks(f)
  BY <1>3, Zenon DEF RunBreaks, n
<1> HIDE DEF breaks
<1> QED
  BY <1>5, <1>6, <1>7, SameWindows, Zenon DEF n

\* An entity is active in every window, if the role has any: none with enough
\* steps means all of them.
LEMMA SomeActive ==
  ASSUME NEW f, NEW role, NEW window, Eng!Entities(f, role) # {}
  PROVE  Eng!ActiveWells(f, role, window) # {}
BY DEF Eng!ActiveWells, Eng!P!ActiveEntities, Eng!P!Subset

LEMMA RunsAre ==
  ASSUME NEW f, RunOK(f)
  PROVE  LET n == Eng!Steps(f)
             w == Eng!Windows(f)
         IN  /\ w \in Seq(Window) /\ DOMAIN w = 1 .. Len(w) /\ Len(w) \in 0 .. n
             /\ Eng!SectorRuns(f) \in SUBSET (1 .. Len(w))
             /\ Eng!LatestRuns(f) \in SUBSET Eng!SectorRuns(f)
             /\ Eng!SectorRuns(f) # {} => Eng!LatestRuns(f) # {}
             /\ \A k \in Eng!LatestRuns(f), j \in Eng!SectorRuns(f) : j <= k
<1> DEFINE n == Eng!Steps(f)
           w == Eng!Windows(f)
<1>1. PICK breaks :
        /\ IsTimeline(Eng!Steps(f), breaks)
        /\ Eng!Windows(f) = Prep!BuildWindows(Eng!Steps(f), breaks, f.minWindow)
        /\ f.table # "no note" => breaks = RunBreaks(f)
  BY RunWindows, Zenon
<1>2. n \in Nat /\ f.minWindow \in Int
  <2>1. n \in Nat /\ f.minWindow \in Nat
    BY Zenon DEF RunOK
  <2> QED
    BY <2>1
<1>3. IsSplitInTime(w, n, breaks, f.minWindow)
  BY <1>1, <1>2, TimelineIsSplit, Zenon
<1>4. w \in Seq(Window) /\ 1 <= Len(w) /\ Len(w) <= n
  BY <1>3 DEF IsSplitInTime
<1>5. DOMAIN w = 1 .. Len(w) /\ Len(w) \in 0 .. n
  BY <1>2, <1>4
<1>6. Eng!SectorRuns(f) \in SUBSET (1 .. Len(w))
  BY <1>5 DEF Eng!SectorRuns, Eng!Fitted
<1>7. Eng!LatestRuns(f) \in SUBSET Eng!SectorRuns(f)
  BY DEF Eng!LatestRuns
<1>8. \A k \in Eng!LatestRuns(f), j \in Eng!SectorRuns(f) : j <= k
  BY DEF Eng!LatestRuns
<1>9. ASSUME Eng!SectorRuns(f) # {} PROVE Eng!LatestRuns(f) # {}
  <2>1. PICK k \in Eng!SectorRuns(f) : \A j \in Eng!SectorRuns(f) : j <= k
    <3>1. Len(w) \in Nat
      BY <1>2, <1>5
    <3> HIDE DEF w
    <3> QED
      BY <1>6, <1>9, <3>1, LatestOf
  <2> QED
    BY <2>1 DEF Eng!LatestRuns
<1> QED
  BY <1>4, <1>5, <1>6, <1>7, <1>8, <1>9

\* A window that is long enough has a run, if the field has both kinds of wells.
LEMMA LongHasRun ==
  ASSUME NEW f, RunOK(f), NEW k \in DOMAIN Eng!Windows(f),
         Eng!Entities(f, "P") # {}, Eng!Entities(f, "I") # {},
         ~ (Prep!Length(Eng!Windows(f)[k]) < f.minSteps)
  PROVE  k \in Eng!SectorRuns(f)
<1>1. k \in Eng!Fitted(f)
  BY SomeActive DEF Eng!Fitted
<1>2. Eng!Windows(f)[k] \in Window
  BY RunsAre
<1>3. Prep!Length(Eng!Windows(f)[k]) = Eng!Windows(f)[k][2] - Eng!Windows(f)[k][1]
  BY DEF Prep!Length
<1>4. Eng!Windows(f)[k][2] \in Int /\ Eng!Windows(f)[k][1] \in Int /\ f.minSteps \in Int
  <2>1. \A p \in Window : p[1] \in Int /\ p[2] \in Int
    BY DEF Window
  <2>2. f.minSteps \in Nat
    BY Zenon DEF RunOK
  <2> QED
    BY <1>2, <2>1, <2>2
<1>5. Eng!Windows(f)[k][2] - Eng!Windows(f)[k][1] >= f.minSteps
  BY <1>3, <1>4
<1> QED
  BY <1>1, <1>5 DEF Eng!SectorRuns

LEMMA FittedHasEntities ==
  ASSUME NEW f, NEW k \in Eng!SectorRuns(f)
  PROVE  Eng!Entities(f, "P") # {} /\ Eng!Entities(f, "I") # {}
<1>1. \A role, window : Eng!ActiveWells(f, role, window) # {} => Eng!Entities(f, role) # {}
  BY DEF Eng!ActiveWells, Eng!P!ActiveEntities, Eng!P!Subset
<1> QED
  BY <1>1 DEF Eng!SectorRuns, Eng!Fitted

\* The confidence is the lowest of the badges.
LEMMA ConfidenceIs ==
  ASSUME NEW B \in SUBSET Badges
  PROVE  LET c == Eng!Confidence(B)
         IN  /\ B = {} => c = "LOW"
             /\ B # {} => c \in B
             /\ c # "LOW" => "LOW" \notin B
<1>1. /\ Eng!Rank["HIGH"] = 2 /\ Eng!Rank["MEDIUM"] = 1 /\ Eng!Rank["LOW"] = 0
  BY DEF Eng!Rank
<1>2. B = {} => Eng!Confidence(B) = "LOW"
  BY DEF Eng!Confidence, Eng!NoConfidence
<1>3. ASSUME B # {}
      PROVE  /\ Eng!Confidence(B) \in B
             /\ \A c \in B : Eng!Rank[Eng!Confidence(B)] <= Eng!Rank[c]
  <2>1. \E b \in B : \A c \in B : Eng!Rank[b] <= Eng!Rank[c]
    <3>1. CASE "LOW" \in B
      BY <1>1, <3>1 DEF Badges
    <3>2. CASE "LOW" \notin B /\ "MEDIUM" \in B
      BY <1>1, <3>2 DEF Badges
    <3>3. CASE B = {"HIGH"}
      BY <1>1, <3>3
    <3> QED
      BY <1>3, <3>1, <3>2, <3>3 DEF Badges
  <2>2. Eng!Confidence(B) = CHOOSE b \in B : \A c \in B : Eng!Rank[b] <= Eng!Rank[c]
    BY <1>3 DEF Eng!Confidence
  <2> QED
    BY <2>1, <2>2
<1>4. ASSUME B # {}, "LOW" \in B PROVE Eng!Confidence(B) = "LOW"
  <2>1. /\ Eng!Confidence(B) \in {"HIGH", "MEDIUM", "LOW"}
        /\ Eng!Rank[Eng!Confidence(B)] <= Eng!Rank["LOW"]
    BY <1>3, <1>4 DEF Badges
  <2> QED
    BY <1>1, <2>1
<1> QED
  BY <1>2, <1>3, <1>4

-----------------------------------------------------------------------------
(***************************************************************************)
(* A rule that is asked keeps its question, and answers it in one step.    *)
(***************************************************************************)
WindowsAnswer ==
  [ windows |-> Prep!BuildWindows(input.n, input.breaks, input.least),
    train |-> Prep!TrainSteps(input.n, input.percent, input.least) ]

RunAnswer ==
  [ windows |-> Eng!Windows(input),
    runs |-> Eng!SectorRuns(input),
    latest |-> Eng!LatestRuns(input),
    confidence |-> Eng!Confidence({ input.badge[k] : k \in Eng!LatestRuns(input) }) ]

DataAsked ==
  /\ kind = "windows" => input \in Timelines /\ (done => result = WindowsAnswer)
  /\ kind = "shut in" =>
       input \in Stretches /\ (done => result = Prep!LongShutIns(input, 2))
  /\ kind = "run" => input \in Runs /\ (done => result = RunAnswer)
  /\ kind = "sectors" => input \in Fields /\ (done => result = Sec!Sectorize(input))

LEMMA AskedData == DataInit => DataAsked
  BY Zenon DEF DataInit, DataAsked, Asked

LEMMA AnsweredData == DataAsked /\ [DataNext]_questionVars => DataAsked'
<1> SUFFICES ASSUME DataAsked, [DataNext]_questionVars PROVE DataAsked'
  OBVIOUS
<1>1. CASE CutWindows
  <2>1. kind = "windows" /\ kind' = kind /\ input' = input /\ result' = WindowsAnswer
    BY <1>1 DEF CutWindows, Open, Answer, WindowsAnswer
  <2>2. WindowsAnswer' = WindowsAnswer
    BY <2>1 DEF WindowsAnswer
  <2> QED
    BY <2>1, <2>2 DEF DataAsked
<1>2. CASE FindShutIns
  BY <1>2, Zenon DEF FindShutIns, Open, Answer, DataAsked
<1>3. CASE SplitSectors
  BY <1>3 DEF SplitSectors, Open, Answer, DataAsked
<1>4. ASSUME \/ TypeWell \/ SplitReservoirs \/ MapColumns \/ LoadProject \/ ApplyMapping
             \/ BuildGrid \/ ConvertUnits \/ ReservoirVolumes \/ CleanRates
             \/ FillPressure
      PROVE  DataAsked'
  <2>1. kind' = kind /\ kind \notin {"windows", "shut in", "sectors", "run"}
    BY <1>4, Zenon DEF TypeWell, SplitReservoirs, MapColumns, LoadProject, ApplyMapping,
                BuildGrid, ConvertUnits, ReservoirVolumes, CleanRates, FillPressure,
                Open, Answer
  <2> QED
    BY <2>1, Zenon DEF DataAsked
<1>5. CASE UNCHANGED questionVars
  BY <1>5, Zenon DEF questionVars, DataAsked, WindowsAnswer, RunAnswer
<1>6. CASE RunEngine
  <2>1. kind = "run" /\ kind' = kind /\ input' = input /\ result' = RunAnswer
    BY <1>6 DEF RunEngine, Open, Answer, RunAnswer
  <2>2. RunAnswer' = RunAnswer
    BY <2>1 DEF RunAnswer
  <2> QED
    BY <2>1, <2>2 DEF DataAsked
<1> QED
  BY <1>1, <1>2, <1>3, <1>4, <1>5, <1>6 DEF DataNext

LEMMA AlwaysAskedData == DataSpec => []DataAsked
  BY AskedData, AnsweredData, PTL DEF DataSpec

\* The sectors of a window share no well, keep every well that has an edge, can be
\* fitted, and do not reach over a block boundary, for a field of any size
\* (sectors.py, 55-103).
THEOREM SectorsArePartitions == DataSpec => []SectorsPartition
<1>1. ASSUME DataAsked PROVE SectorsPartition
  <2> SUFFICES ASSUME Answered("sectors") PROVE SectorsPartition
    BY DEF SectorsPartition
  <2>1. input \in Fields /\ result = Sec!Sectorize(input)
    BY <1>1 DEF DataAsked, Answered
  <2>2. FieldOK(input)
    BY <2>1, FieldsAssumption DEF FieldOK
  <2>3. IsSplit(input, result)
    BY <2>1, <2>2, FieldIsSplit
  <2> QED
    BY <2>3 DEF SectorsPartition, IsSplit, WellsOf
<1> QED
  BY <1>1, AlwaysAskedData, PTL

-----------------------------------------------------------------------------
\* Windows follow one another over all steps, only a lone one is short, and at an
\* event one starts unless a piece is short; what is held out leaves two steps and
\* is as many as the minimum asks for; a long shut-in is reported for each of its
\* steps (events.py, 50-108; split.py, 25-33).
THEOREM WindowsAreUsable == DataSpec => []WindowsUsable
<1>1. ASSUME DataAsked, Answered("shut in") PROVE WindowsUsable
  <2>1. kind = "shut in" /\ input \in Stretches /\ result = Prep!LongShutIns(input, 2)
    BY <1>1, Zenon DEF DataAsked, Answered
  <2>6. input \in Seq(BOOLEAN)
    BY <2>1, TimelinesAssumption, Zenon
  <2>2. DOMAIN input = 1 .. Len(input)
    BY <2>6
  <2>3. ~Answered("windows")
    BY <2>1, Zenon DEF Answered
  <2> DEFINE off(a, b) == \A t \in a .. b : ~input[t]
             ends(t) == off(1, t) \/ off(t, Len(input))
  <2>4. \A t \in 1 .. Len(input) :
          (\E w \in Prep!LongShutIns(input, 2) : w[1] < t /\ t <= w[2])
            <=> /\ ~ (off(1, t) \/ off(t, Len(input)))
                /\ \E s \in {t - 1, t} : s \in 1 .. Len(input) - 1 /\ off(s, s + 1)
    BY <2>6, ShutInsAre
  <2>5. \A t \in DOMAIN input :
          (\E w \in result : w[1] < t /\ t <= w[2])
            <=> /\ ~ends(t)
                /\ \E s \in {t - 1, t} : s \in 1 .. Len(input) - 1 /\ off(s, s + 1)
    BY <2>1, <2>2, <2>4, Zenon
  <2> QED
    BY <2>3, <2>5, Zenon DEF WindowsUsable
<1>2. ASSUME DataAsked, Answered("windows") PROVE WindowsUsable
  <2>1. kind = "windows" /\ input \in Timelines /\ result = WindowsAnswer
    BY <1>2 DEF DataAsked, Answered
  <2>2. ~Answered("shut in")
    BY <2>1 DEF Answered
  <2> DEFINE w == result.windows
             blind == input.n - result.train
  <2>3. /\ w = Prep!BuildWindows(input.n, input.breaks, input.least)
        /\ result.train = Prep!TrainSteps(input.n, input.percent, input.least)
    BY <2>1 DEF WindowsAnswer
  <2>4. /\ input.n \in Nat \ {0} /\ input.breaks \in SUBSET (1 .. input.n - 1)
        /\ input.least \in Nat /\ input.percent \in Nat
    BY <2>1, TimelinesAssumption
  <2>5. input.n \in Nat /\ input.least \in Int
    BY <2>4
  <2>6. IsTimeline(input.n, input.breaks)
    BY <2>4 DEF IsTimeline
  <2>7. IsSplitInTime(w, input.n, input.breaks, input.least)
    BY <2>3, <2>5, <2>6, TimelineIsSplit
  <2>8. /\ result.train >= Prep!Smaller(2, input.n)
        /\ input.n >= input.least + 2 => blind >= input.least
        /\ 100 * blind > input.n * input.percent + 50 => blind <= input.least
    BY <2>3, <2>4, <2>5, HeldOut
  <2>9. w \in Seq(Window) /\ DOMAIN w = 1 .. Len(w)
    BY <2>7 DEF IsSplitInTime
  <2> HIDE DEF w, blind
  <2>10. /\ w[1][1] = 0 /\ w[Len(w)][2] = input.n
         /\ \A k \in 1 .. Len(w) - 1 : w[k][2] = w[k + 1][1]
         /\ Len(w) > 1 => \A k \in DOMAIN w : Prep!Length(w[k]) >= input.least
         /\ \A b \in input.breaks :
              \/ \E k \in DOMAIN w : w[k][1] = b
              \/ ShortPieceAt(b, input.n, input.breaks, input.least)
    BY <2>7, <2>9 DEF IsSplitInTime
  <2> QED
    BY <2>2, <2>8, <2>10, Zenon DEF WindowsUsable, w, blind
<1>3. DataAsked => WindowsUsable
  BY <1>1, <1>2, Zenon DEF WindowsUsable
<1> QED
  BY <1>3, AlwaysAskedData, PTL

\* No window goes on over a conversion, unless a piece beside it is too short or
\* the events table has no column note; the forecast starts from the runs of the
\* last window that is long enough, and their worst badge is the confidence
\* (engine.py, 88-97, 159-203).
THEOREM ConversionsAreCut == DataSpec => []ConversionsCut
<1>1. ASSUME DataAsked PROVE ConversionsCut
  <2> SUFFICES ASSUME Answered("run") PROVE ConversionsCut
    BY Zenon DEF ConversionsCut
  <2> DEFINE n == Eng!Steps(input)
             breaks == RunBreaks(input)
             latest == result.latest
             windows == result.windows
             B == { input.badge[k] : k \in latest }
  <2>1. input \in Runs /\ result = RunAnswer
    BY <1>1 DEF DataAsked, Answered
  <2>2. RunOK(input)
    BY <2>1, RunsAssumption, Zenon DEF RunOK, Badges
  <2>3. /\ windows = Eng!Windows(input) /\ latest = Eng!LatestRuns(input)
        /\ result.confidence = Eng!Confidence(B)
    BY <2>1 DEF RunAnswer
  <2>4. n \in Nat \ {0} /\ input.minWindow \in Nat /\ input.minSteps \in Nat
    BY <2>2, Zenon DEF RunOK
  <2>5. /\ windows \in Seq(Window) /\ DOMAIN windows = 1 .. Len(windows)
        /\ Len(windows) \in 0 .. n
        /\ Eng!SectorRuns(input) \in SUBSET (1 .. Len(windows))
        /\ latest \in SUBSET Eng!SectorRuns(input)
        /\ Eng!SectorRuns(input) # {} => latest # {}
        /\ \A k \in latest, j \in Eng!SectorRuns(input) : j <= k
    BY <2>2, <2>3, RunsAre
  <2> HIDE DEF n, breaks, latest, windows, B
  <2>6. ASSUME input.table # "no note", NEW w \in DOMAIN input.history,
               NEW t \in WT!Conversions(input.history[w])
        PROVE  \/ \E k \in DOMAIN windows : windows[k][1] = t - 1
               \/ ShortPieceAt(t - 1, n, breaks, input.minWindow)
    <3>1. PICK cuts :
            /\ IsTimeline(Eng!Steps(input), cuts)
            /\ Eng!Windows(input) = Prep!BuildWindows(Eng!Steps(input), cuts, input.minWindow)
            /\ input.table # "no note" => cuts = RunBreaks(input)
      BY <2>2, RunWindows, Zenon
    <3>2. cuts = breaks
      BY <2>6, <3>1, Zenon DEF breaks
    <3>3. input.minWindow \in Int
      BY <2>4
    <3>4. IsSplitInTime(windows, n, breaks, input.minWindow)
      BY <2>3, <3>1, <3>2, <3>3, TimelineIsSplit, Zenon DEF n
    <3>5. t \in Eng!ConversionSteps(input) /\ t \in 2 .. n
      BY <2>2, ConversionDays DEF n
    <3>6. t - 1 \in 1 .. n - 1
      BY <2>4, <3>5
    <3>7. t - 1 \in breaks
      BY <3>5, <3>6 DEF breaks, RunBreaks, n
    <3> QED
      BY <2>5, <3>4, <3>7 DEF IsSplitInTime
  <2>7. ASSUME NEW k \in latest, NEW j \in DOMAIN windows, j > k,
               ~ (Prep!Length(windows[j]) < input.minSteps)
        PROVE  FALSE
    <3>1. Eng!Entities(input, "P") # {} /\ Eng!Entities(input, "I") # {}
      BY <2>5, FittedHasEntities
    <3>2. j \in Eng!SectorRuns(input)
      BY <2>2, <2>3, <2>7, <3>1, LongHasRun
    <3>3. j <= k /\ j \in 1 .. Len(windows) /\ k \in 1 .. Len(windows)
      BY <2>5, <3>2
    <3> QED
      BY <2>5, <2>7, <3>3
  <2>8. \A k \in latest : input.badge[k] \in Badges
    <3>1. \A k \in latest : k \in 1 .. n
      BY <2>4, <2>5
    <3>2. input.badge \in [1 .. n -> Badges]
      BY <2>2, Zenon DEF RunOK, n
    <3> QED
      BY <3>1, <3>2
  <2>9. B \in SUBSET Badges
    BY <2>8 DEF B
  <2>10. /\ B = {} => result.confidence = "LOW"
         /\ B # {} => result.confidence \in B
         /\ result.confidence # "LOW" => "LOW" \notin B
    BY <2>3, <2>9, ConfidenceIs
  <2>11. latest = {} => result.confidence = "LOW"
    BY <2>10 DEF B
  <2>12. result.confidence = "LOW" \/ \E k \in latest :
           /\ result.confidence = input.badge[k]
           /\ \A j \in latest : input.badge[j] # "LOW"
    <3>1. ASSUME result.confidence # "LOW"
          PROVE  \E k \in latest : /\ result.confidence = input.badge[k]
                                   /\ \A j \in latest : input.badge[j] # "LOW"
      <4>1. result.confidence \in B /\ "LOW" \notin B
        BY <2>10, <3>1
      <4> QED
        BY <4>1 DEF B
    <3> QED
      BY <3>1
  <2>13. ASSUME latest = {}, Eng!Entities(input, "P") # {}, Eng!Entities(input, "I") # {},
                NEW k \in DOMAIN windows, ~ (Prep!Length(windows[k]) < input.minSteps)
         PROVE  FALSE
    <3>1. k \in Eng!SectorRuns(input)
      BY <2>2, <2>3, <2>13, LongHasRun
    <3> QED
      BY <2>5, <2>13, <3>1
  <2>14. /\ input.table # "no note" =>
              \A w \in DOMAIN input.history :
                \A t \in WT!Conversions(input.history[w]) :
                  \/ \E k \in DOMAIN windows : windows[k][1] = t - 1
                  \/ ShortPieceAt(t - 1, n, breaks, input.minWindow)
         /\ \A k \in latest : \A j \in DOMAIN windows :
              j > k => Prep!Length(windows[j]) < input.minSteps
    BY <2>6, <2>7, Zenon
  <2>15. latest = {} =>
           \/ \A k \in DOMAIN windows : Prep!Length(windows[k]) < input.minSteps
           \/ Eng!Entities(input, "P") = {}
           \/ Eng!Entities(input, "I") = {}
    BY <2>13
  <2> QED
    BY <2>11, <2>12, <2>14, <2>15, Zenon DEF ConversionsCut, RunBreaks, n, breaks, latest, windows
<1> QED
  BY <1>1, AlwaysAskedData, PTL
=============================================================================
