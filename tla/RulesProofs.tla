------------------------------ MODULE RulesProofs ------------------------------
(***************************************************************************)
(* Theorems about what keeps no state, or only data: the split of a        *)
(* window, the weekly ramp, the plan of a sector, the dates and rules of   *)
(* evaluations, the merge of settings, and the database as the replay of   *)
(* its committed statements - for all their inputs, however many points a  *)
(* solver finds and however many statements there were.                    *)
(*                                                                         *)
(* The induction over data that the folds need is by sets: what is to be   *)
(* shown of all numbers is a set of them, which WFMin, on the order of the *)
(* naturals, shows to be all.                                              *)
(***************************************************************************)
EXTENDS PlanRules, SettingsRules, Database, FiniteSetTheorems,
        WellFoundedInduction, TLAPS

Prep == INSTANCE Preparation

-----------------------------------------------------------------------------
(***************************************************************************)
(* Arithmetic that the provers need spelled out.                           *)
(***************************************************************************)
LEMMA ProductIsNat == ASSUME NEW a \in Nat, NEW b \in Nat PROVE a * b \in Nat
  OBVIOUS

LEMMA HundredthIsNat == ASSUME NEW a \in Nat PROVE a \div 100 \in Nat
  OBVIOUS

-----------------------------------------------------------------------------
(***************************************************************************)
(* Induction over data, with sets for predicates, and folds.               *)
(***************************************************************************)
LEMMA LeastOfSet ==
  ASSUME NEW T \in SUBSET Nat, T # {}
  PROVE  \E x \in T : \A y \in T : ~(y < x)
<1> DEFINE R == OpToRel(<, Nat)
<1>1. IsWellFoundedOn(R, Nat)
  BY NatLessThanWellFounded
<1>2. R = {ss \in Nat \X Nat : ss[1] < ss[2]}
  BY DEF OpToRel
<1> HIDE DEF R
<1>3. PICK x \in T : \A y \in T : ~(<<y, x>> \in R)
  BY <1>1, WFMin
<1>4. \A y \in T : y < x => <<y, x>> \in R
  BY <1>2
<1> QED
  BY <1>3, <1>4

LEMMA SetInduction ==
  ASSUME NEW T, 0 \in T, \A n \in Nat : n \in T => n + 1 \in T
  PROVE  Nat \subseteq T
<1> SUFFICES ASSUME Nat \ T # {} PROVE FALSE
  OBVIOUS
<1>1. PICK x \in Nat \ T : \A y \in Nat \ T : ~(y < x)
  BY LeastOfSet
<1>2. x # 0 /\ x - 1 \in Nat /\ x - 1 < x /\ (x - 1) + 1 = x
  BY <1>1
<1> QED
  BY <1>1, <1>2

LEMMA LastOfUpTo ==
  ASSUME NEW n \in Nat, NEW s \in SUBSET (1 .. n + 1)
  PROVE  /\ n + 1 \in s => /\ s # {} /\ Max(s) = n + 1
                           /\ s \ {n + 1} \in SUBSET (1 .. n)
         /\ n + 1 \notin s => s \in SUBSET (1 .. n)
<1>1. \A k \in 1 .. n + 1 : k = n + 1 \/ k \in 1 .. n
  OBVIOUS
<1>2. ASSUME n + 1 \in s PROVE Max(s) = n + 1
  <2>1. \A y \in s : n + 1 >= y
    OBVIOUS
  <2>2. \A x \in s : (\A y \in s : x >= y) => x = n + 1
    BY <1>2
  <2> QED
    BY <1>2, <2>1, <2>2 DEF Max
<1> QED
  BY <1>1, <1>2

(***************************************************************************)
(* FoldLeft goes through the indices from the last one down.  h is such a  *)
(* fold: F gives what the k-th element makes of what was there before.     *)
(***************************************************************************)
IsFold(h, F, base, n) ==
  /\ h[{}] = base
  /\ \A s \in SUBSET (1 .. n) :
       s # {} => h[s] = F[Max(s)][h[s \ {Max(s)}]]

HasFold(A, F, base, n) ==
  \E h \in [SUBSET (1 .. n) -> A] : IsFold(h, F, base, n)

LEMMA FoldExists ==
  ASSUME NEW A, NEW base \in A, NEW N \in Nat, NEW F \in [1 .. N -> [A -> A]]
  PROVE  HasFold(A, F, base, N)
<1> DEFINE T == { n \in Nat : n <= N => HasFold(A, F, base, n) }
<1>1. 0 \in T
  <2> DEFINE h == [s \in SUBSET (1 .. 0) |-> base]
  <2>1. 1 .. 0 = {} /\ SUBSET (1 .. 0) = {{}}
    OBVIOUS
  <2>2. IsFold(h, F, base, 0)
    BY <2>1 DEF IsFold
  <2>3. h \in [SUBSET (1 .. 0) -> A]
    OBVIOUS
  <2> QED
    BY <2>2, <2>3 DEF HasFold
<1>2. ASSUME NEW n \in Nat, n \in T PROVE n + 1 \in T
  <2> SUFFICES ASSUME n + 1 <= N PROVE HasFold(A, F, base, n + 1)
    OBVIOUS
  <2>0. HasFold(A, F, base, n)
    BY <1>2
  <2>1. PICK g \in [SUBSET (1 .. n) -> A] : IsFold(g, F, base, n)
    BY <2>0 DEF HasFold
  <2> DEFINE h == [s \in SUBSET (1 .. n + 1) |->
                     IF n + 1 \in s THEN F[n + 1][g[s \ {n + 1}]] ELSE g[s]]
  <2>2. ASSUME NEW s \in SUBSET (1 .. n) PROVE h[s] = g[s]
    <3>1. s \in SUBSET (1 .. n + 1) /\ n + 1 \notin s
      OBVIOUS
    <3> QED
      BY <3>1
  <2>3. ASSUME NEW s \in SUBSET (1 .. n + 1), n + 1 \in s
        PROVE  /\ s # {} /\ Max(s) = n + 1 /\ s \ {n + 1} \in SUBSET (1 .. n)
               /\ h[s] = F[n + 1][g[s \ {n + 1}]]
               /\ h[s] \in A
    <3>1. s # {} /\ Max(s) = n + 1 /\ s \ {n + 1} \in SUBSET (1 .. n)
      BY <2>3, LastOfUpTo
    <3>2. h[s] = F[n + 1][g[s \ {n + 1}]]
      BY <2>3
    <3>3. g[s \ {n + 1}] \in A /\ n + 1 \in 1 .. N
      BY <3>1
    <3> QED
      BY <3>1, <3>2, <3>3
  <2>4. ASSUME NEW s \in SUBSET (1 .. n + 1), n + 1 \notin s
        PROVE  s \in SUBSET (1 .. n) /\ h[s] = g[s] /\ h[s] \in A
    <3>1. s \in SUBSET (1 .. n)
      BY <2>4, LastOfUpTo
    <3> HIDE DEF h
    <3> QED
      BY <2>2, <3>1
  <2>5. h \in [SUBSET (1 .. n + 1) -> A]
    <3>1. DOMAIN h = SUBSET (1 .. n + 1)
      OBVIOUS
    <3>2. h = [s \in SUBSET (1 .. n + 1) |-> h[s]]
      OBVIOUS
    <3> HIDE DEF h
    <3> QED
      BY <2>3, <2>4, <3>1, <3>2
  <2> HIDE DEF h
  <2>6. IsFold(h, F, base, n + 1)
    <3>1. h[{}] = base
      BY <2>1, <2>2 DEF IsFold
    <3>2. ASSUME NEW s \in SUBSET (1 .. n + 1), s # {}
          PROVE  h[s] = F[Max(s)][h[s \ {Max(s)}]]
      <4>1. CASE n + 1 \in s
        BY <2>2, <2>3, <4>1
      <4>2. CASE n + 1 \notin s
        <5>1. s \in SUBSET (1 .. n) /\ h[s] = g[s]
          BY <2>4, <4>2
        <5>2. s \ {Max(s)} \in SUBSET (1 .. n)
          BY <5>1
        <5>3. g[s] = F[Max(s)][g[s \ {Max(s)}]]
          BY <2>1, <3>2, <5>1 DEF IsFold
        <5> QED
          BY <2>2, <5>1, <5>2, <5>3
      <4> QED
        BY <4>1, <4>2
    <3> QED
      BY <3>1, <3>2 DEF IsFold
  <2> QED
    BY <2>5, <2>6 DEF HasFold
<1> HIDE DEF T
<1>3. Nat \subseteq T
  BY <1>1, <1>2, SetInduction
<1> QED
  BY <1>3 DEF T

(***************************************************************************)
(* The values on the way, from the first element to the last, where the    *)
(* steps are known only for values of A.                                   *)
(***************************************************************************)
FoldsIn(h, F, A, base, n) ==
  /\ h[{}] = base
  /\ \A s \in SUBSET (1 .. n) :
       s # {} /\ h[s \ {Max(s)}] \in A
         => h[s] = F[Max(s)][h[s \ {Max(s)}]]

LEMMA FoldGoesOn ==
  ASSUME NEW A, NEW base \in A, NEW n \in Nat, NEW h,
         NEW F \in [1 .. n -> [A -> A]], FoldsIn(h, F, A, base, n)
  PROVE  \A k \in 0 .. n :
           /\ h[1 .. k] \in A
           /\ k = 0 => h[1 .. k] = base
           /\ k # 0 => h[1 .. k] = F[k][h[1 .. k - 1]]
<1> DEFINE T == { k \in Nat : k <= n =>
                    /\ h[1 .. k] \in A
                    /\ k = 0 => h[1 .. k] = base
                    /\ k # 0 => h[1 .. k] = F[k][h[1 .. k - 1]] }
<1>1. 0 \in T
  <2>1. 1 .. 0 = {}
    OBVIOUS
  <2> QED
    BY <2>1 DEF FoldsIn
<1>2. ASSUME NEW k \in Nat, k \in T PROVE k + 1 \in T
  <2> SUFFICES ASSUME k + 1 <= n
               PROVE  /\ h[1 .. k + 1] \in A
                      /\ h[1 .. k + 1] = F[k + 1][h[1 .. (k + 1) - 1]]
    OBVIOUS
  <2>1. h[1 .. k] \in A
    BY <1>2
  <2>2. /\ 1 .. k + 1 \in SUBSET (1 .. k + 1) /\ k + 1 \in 1 .. k + 1
        /\ (1 .. k + 1) \ {k + 1} = 1 .. k
        /\ (k + 1) - 1 = k
        /\ 1 .. k + 1 \in SUBSET (1 .. n)
        /\ k + 1 \in 1 .. n
    OBVIOUS
  <2>3. 1 .. k + 1 # {} /\ Max(1 .. k + 1) = k + 1
    BY <2>2, LastOfUpTo
  <2>4. h[1 .. k + 1] = F[k + 1][h[1 .. k]]
    BY <2>1, <2>2, <2>3 DEF FoldsIn
  <2> QED
    BY <2>1, <2>2, <2>4
<1> HIDE DEF T
<1>3. Nat \subseteq T
  BY <1>1, <1>2, SetInduction
<1> QED
  BY <1>3 DEF T

LEMMA LastOfAny ==
  ASSUME NEW N \in Nat, NEW s \in SUBSET (1 .. N), s # {}
  PROVE  Max(s) \in s
<1> DEFINE HasLast(n) == \A d \in SUBSET (1 .. n) : d # {} => Max(d) \in d
           T == { n \in Nat : HasLast(n) }
<1>1. HasLast(0)
  <2>1. 1 .. 0 = {}
    OBVIOUS
  <2> QED
    BY <2>1
<1>2. ASSUME NEW n \in Nat, HasLast(n) PROVE HasLast(n + 1)
  <2> SUFFICES ASSUME NEW d \in SUBSET (1 .. n + 1), d # {} PROVE Max(d) \in d
    OBVIOUS
  <2>1. CASE n + 1 \in d
    BY <2>1, LastOfUpTo
  <2>2. CASE n + 1 \notin d
    <3>1. d \in SUBSET (1 .. n)
      BY <2>2, LastOfUpTo
    <3> QED
      BY <1>2, <3>1
  <2> QED
    BY <2>1, <2>2
<1> HIDE DEF HasLast
<1>3. 0 \in T /\ \A n \in Nat : n \in T => n + 1 \in T
  BY <1>1, <1>2
<1>4. Nat \subseteq T
  BY <1>3, SetInduction
<1>5. HasLast(N)
  BY <1>4
<1> QED
  BY <1>5 DEF HasLast

-----------------------------------------------------------------------------
(***************************************************************************)
(* The split (split.py, 25-33): at least two steps are left to train on    *)
(* where there are two, and as many are held out as the minimum asks for   *)
(* where that leaves two, whatever the share.                              *)
(***************************************************************************)
THEOREM TwoLeftToTrain ==
  ASSUME NEW n \in Nat, NEW percent \in Nat, NEW atLeast \in Nat
  PROVE  /\ Prep!BlindSteps(n, percent, atLeast) \in Nat
         /\ n >= 2 => Prep!TrainSteps(n, percent, atLeast) >= 2
         /\ n >= atLeast + 2 => Prep!BlindSteps(n, percent, atLeast) >= atLeast
<1> DEFINE share == Prep!Rounded(n * percent)
<1>1. n * percent \in Nat
  BY ProductIsNat
<1>2. share \in Nat
  BY <1>1, HundredthIsNat DEF Prep!Rounded
<1> HIDE DEF share
<1> QED
  BY <1>2 DEF share, Prep!BlindSteps, Prep!TrainSteps, Prep!Smaller, Prep!Larger

-----------------------------------------------------------------------------
(***************************************************************************)
(* The ramp (ramping.py, 37-68).                                           *)
(***************************************************************************)
LEMMA CapIsPositive ==
  ASSUME NEW r, r.step \in Nat, r.least \in Nat, NEW x \in Nat, NEW tgt \in Nat
  PROVE  Pl!Cap(r, x, tgt) \in Nat /\ Pl!Cap(r, x, tgt) >= 1
<1> DEFINE share == (r.least * tgt) \div 100
           rate == Pl!Bigger(x, share)
<1>1. share \in Nat
  BY ProductIsNat, HundredthIsNat
<1>2. rate \in Nat
  BY <1>1 DEF Pl!Bigger
<1>3. (r.step * rate) \div 100 \in Nat
  BY <1>2, ProductIsNat, HundredthIsNat
<1> QED
  BY <1>3 DEF Pl!Cap

(***************************************************************************)
(* A week changes a rate by no more than the cap, never past the target,   *)
(* and always comes nearer to it, also from zero: no ramp stands still     *)
(* before the weeks are over.                                              *)
(***************************************************************************)
THEOREM RampApproaches ==
  ASSUME NEW r, r.step \in Nat, r.least \in Nat, NEW x \in Nat, NEW tgt \in Nat
  PROVE  LET y == Pl!NextWeek(r, x, tgt)
         IN  /\ y \in Nat
             /\ Pl!AbsOf(y - x) <= Pl!Cap(r, x, tgt)
             /\ x <= tgt => x <= y /\ y <= tgt
             /\ tgt <= x => tgt <= y /\ y <= x
             /\ x # tgt => Pl!AbsOf(tgt - y) < Pl!AbsOf(tgt - x)
<1> DEFINE c == Pl!Cap(r, x, tgt)
<1>1. c \in Nat /\ c >= 1
  BY CapIsPositive
<1> HIDE DEF c
<1> QED
  BY <1>1 DEF c, Pl!NextWeek, Pl!Bigger, Pl!Lesser, Pl!AbsOf

-----------------------------------------------------------------------------
(***************************************************************************)
(* The date of an evaluation is a day of the calendar, exactly so many     *)
(* months after that of the implementation, and no later in its month      *)
(* (evaluation.py, 74-86).                                                 *)
(***************************************************************************)
THEOREM DueDateOnCalendar ==
  ASSUME NEW at \in [y : Nat, m : 1 .. 12, d : 1 .. 31], NEW months \in Nat
  PROVE  LET due == Sv!DueDate(at, months)
         IN  /\ Sv!IsDate(due)
             /\ 12 * due.y + due.m = 12 * at.y + at.m + months
             /\ due.d <= at.d
<1> DEFINE m == at.m + months - 1
           due == Sv!DueDate(at, months)
<1>1. m \in Nat /\ at.y \in Nat /\ at.d \in 1 .. 31
  OBVIOUS
<1>2. /\ due.y = at.y + m \div 12 /\ due.m = (m % 12) + 1
      /\ due.d = IF at.d > 28 THEN 28 ELSE at.d
  BY DEF Sv!DueDate
<1>3. m % 12 \in 0 .. 11 /\ m = 12 * (m \div 12) + (m % 12) /\ m \div 12 \in Nat
  BY <1>1
<1>4. due.d \in 1 .. 28 /\ due.d <= at.d
  BY <1>1, <1>2
<1>5. Sv!DaysIn(due.y, due.m) \in {28, 29, 30, 31}
  BY DEF Sv!DaysIn
<1>6. Sv!IsDate(due)
  <2>1. due.m \in 1 .. 12
    BY <1>2, <1>3
  <2>2. due.d \in 1 .. Sv!DaysIn(due.y, due.m)
    BY <1>4, <1>5
  <2> QED
    BY <2>1, <2>2 DEF Sv!IsDate
<1>7. 12 * due.y + due.m = 12 * at.y + at.m + months
  <2> DEFINE years == m \div 12
             rest == m % 12
  <2>1. years \in Nat /\ rest \in 0 .. 11 /\ 12 * years + rest = at.m + months - 1
    BY <1>3
  <2>2. due.y = at.y + years /\ due.m = rest + 1
    BY <1>2
  <2> HIDE DEF years, rest, due, m
  <2> QED
    BY <1>1, <2>1, <2>2
<1> QED
  BY <1>4, <1>6, <1>7

-----------------------------------------------------------------------------
(***************************************************************************)
(* With the robust posture, to which low confidence leads, what a sector   *)
(* is advised to do lowers no member's value of the objective, whatever    *)
(* the search returned; where the objective is the oil, no member loses    *)
(* oil (run.py; solvers.py, 125, 257-285; posture.py).                     *)
(***************************************************************************)
THEOREM RobustLosesNothing ==
  ASSUME NEW q, NEW winner, NEW found, NEW requested,
         \A m \in DOMAIN q.gain : Pl!Values(q, q.current)[m] \in Int,
         q.posture = Pl!Posture(requested, "LOW") \/ q.posture = "robust"
  PROVE  LET x == Pl!SectorPlan(q, winner, found)
         IN  /\ ~Pl!LosesValue(q, x)
             /\ q.objective = "oil" => ~Pl!LosesOil(q, x)
<1> DEFINE x == Pl!SectorPlan(q, winner, found)
<1>1. Pl!RejectsLoss(q.posture)
  BY DEF Pl!Posture, Pl!RejectsLoss
<1>2. ~Pl!LosesValue(q, q.current)
  BY DEF Pl!LosesValue
<1>3. ~Pl!LosesValue(q, x)
  BY <1>1, <1>2 DEF Pl!SectorPlan, Pl!BestPlan
<1> HIDE DEF x
<1>4. ASSUME q.objective = "oil" PROVE ~Pl!LosesOil(q, x)
  <2>1. Pl!Values(q, x) = Pl!Oils(q, x) /\ Pl!Values(q, q.current) = Pl!Oils(q, q.current)
    BY <1>4 DEF Pl!Values
  <2> QED
    BY <1>3, <2>1 DEF Pl!LosesValue, Pl!LosesOil
<1> QED
  BY <1>3, <1>4 DEF x

-----------------------------------------------------------------------------
(***************************************************************************)
(* The choice of a plan (solvers.py, 133-285).                             *)
(***************************************************************************)
\* A sum of numbers of a set that is closed under addition is one of them.
LEMMA TotalStays ==
  ASSUME NEW A, 0 \in A, \A a \in A, b \in A : a + b \in A,
         NEW n \in Nat, NEW x \in [1 .. n -> A]
  PROVE  Pl!Total(x) \in A
<1> DEFINE F == [k \in 1 .. n |-> [a \in A |-> a + x[k]]]
           iter == CHOOSE h : h = [s \in SUBSET (1 .. n) |->
                     IF s = {} THEN 0 ELSE h[s \ {Max(s)}] + x[Max(s)]]
<1>1. F \in [1 .. n -> [A -> A]]
  OBVIOUS
<1>2. \A a \in A, k \in 1 .. n : F[k][a] = a + x[k]
  OBVIOUS
<1> HIDE DEF F
<1>3. \A s \in SUBSET (1 .. n) : s # {} => Max(s) \in 1 .. n
  BY LastOfAny
<1>4. \E h : h = [s \in SUBSET (1 .. n) |->
                    IF s = {} THEN 0 ELSE h[s \ {Max(s)}] + x[Max(s)]]
  <2>1. PICK h \in [SUBSET (1 .. n) -> A] : IsFold(h, F, 0, n)
    BY <1>1, FoldExists DEF HasFold
  <2>2. ASSUME NEW s \in SUBSET (1 .. n), s # {}
        PROVE  h[s] = h[s \ {Max(s)}] + x[Max(s)]
    <3>1. h[s] = F[Max(s)][h[s \ {Max(s)}]]
      BY <2>1, <2>2 DEF IsFold
    <3>2. Max(s) \in 1 .. n /\ h[s \ {Max(s)}] \in A
      BY <1>3, <2>2
    <3> QED
      BY <1>2, <3>1, <3>2
  <2>3. h[{}] = 0
    BY <2>1 DEF IsFold
  <2> QED
    BY <2>2, <2>3
<1>5. iter = [s \in SUBSET (1 .. n) |->
                IF s = {} THEN 0 ELSE iter[s \ {Max(s)}] + x[Max(s)]]
  BY <1>4
<1>6. Pl!Total(x) = iter[1 .. n]
  <2>1. DOMAIN x = 1 .. n
    OBVIOUS
  <2> QED
    BY <2>1 DEF Pl!Total, Pl!FoldLeft, Pl!MapThenFoldSet, Pl!Max, Max
<1> HIDE DEF iter
<1>7. FoldsIn(iter, F, A, 0, n)
  <2>1. iter[{}] = 0
    BY <1>5
  <2>2. ASSUME NEW s \in SUBSET (1 .. n), s # {}, iter[s \ {Max(s)}] \in A
        PROVE  iter[s] = F[Max(s)][iter[s \ {Max(s)}]]
    <3>1. Max(s) \in 1 .. n
      BY <1>3, <2>2
    <3>2. iter[s] = iter[s \ {Max(s)}] + x[Max(s)]
      BY <1>5, <2>2
    <3> QED
      BY <1>2, <2>2, <3>1, <3>2
  <2> QED
    BY <2>1, <2>2 DEF FoldsIn
<1>8. iter[1 .. n] \in A
  <2>1. n \in 0 .. n
    OBVIOUS
  <2> QED
    BY <1>1, <1>7, <2>1, FoldGoesOn
<1> QED
  BY <1>6, <1>8

\* The best plan so far, before the first of n starts and after each of them.
Improves(q, found, n, best) ==
  /\ best[0] = q.current
  /\ \A k \in 1 .. n : best[k] = Pl!Improve(q, best[k - 1], found[k])
  /\ Pl!BestPlan(q, found) =
       IF Pl!RejectsLoss(q.posture) /\ Pl!LosesValue(q, best[n])
       THEN q.current ELSE best[n]

LEMMA Improving ==
  ASSUME NEW q, NEW found, NEW n \in Nat, DOMAIN found = 1 .. n
  PROVE  \E best : Improves(q, found, n, best)
<1> DEFINE A == {q.current} \cup { Pl!Clipped(q, found[k]) : k \in 1 .. n }
           F == [k \in 1 .. n |-> [a \in A |-> Pl!Improve(q, a, found[k])]]
           iter == CHOOSE h : h = [s \in SUBSET (1 .. n) |->
                     IF s = {} THEN q.current
                     ELSE Pl!Improve(q, h[s \ {Max(s)}], found[Max(s)])]
<1>1. F \in [1 .. n -> [A -> A]]
  BY DEF Pl!Improve
<1>2. \A a \in A, k \in 1 .. n : F[k][a] = Pl!Improve(q, a, found[k])
  OBVIOUS
<1>3. q.current \in A
  OBVIOUS
<1> HIDE DEF A, F
<1>4. \A s \in SUBSET (1 .. n) : s # {} => Max(s) \in s
  BY LastOfAny
<1>5. \E h : h = [s \in SUBSET (1 .. n) |->
                    IF s = {} THEN q.current
                    ELSE Pl!Improve(q, h[s \ {Max(s)}], found[Max(s)])]
  <2>1. PICK h \in [SUBSET (1 .. n) -> A] : IsFold(h, F, q.current, n)
    BY <1>1, <1>3, FoldExists DEF HasFold
  <2>2. ASSUME NEW s \in SUBSET (1 .. n), s # {}
        PROVE  h[s] = Pl!Improve(q, h[s \ {Max(s)}], found[Max(s)])
    <3>1. h[s] = F[Max(s)][h[s \ {Max(s)}]]
      BY <2>1, <2>2 DEF IsFold
    <3>2. Max(s) \in 1 .. n /\ h[s \ {Max(s)}] \in A
      BY <1>4, <2>2
    <3> QED
      BY <1>2, <3>1, <3>2
  <2>3. h[{}] = q.current
    BY <2>1 DEF IsFold
  <2> QED
    BY <2>2, <2>3
<1>6. iter = [s \in SUBSET (1 .. n) |->
                IF s = {} THEN q.current
                ELSE Pl!Improve(q, iter[s \ {Max(s)}], found[Max(s)])]
  BY <1>5
<1>7. Pl!BestPlan(q, found) =
        IF Pl!RejectsLoss(q.posture) /\ Pl!LosesValue(q, iter[1 .. n])
        THEN q.current ELSE iter[1 .. n]
  BY DEF Pl!BestPlan, Pl!FoldLeft, Pl!MapThenFoldSet, Pl!Max, Max
<1> HIDE DEF iter
<1>8. \A k \in 0 .. n :
        /\ iter[1 .. k] \in A
        /\ k = 0 => iter[1 .. k] = q.current
        /\ k # 0 => iter[1 .. k] = F[k][iter[1 .. k - 1]]
  <2>1. iter[{}] = q.current
    BY <1>6
  <2>2. ASSUME NEW s \in SUBSET (1 .. n), s # {}, iter[s \ {Max(s)}] \in A
        PROVE  iter[s] = F[Max(s)][iter[s \ {Max(s)}]]
    <3>1. Max(s) \in 1 .. n
      BY <1>4, <2>2
    <3>2. iter[s] = Pl!Improve(q, iter[s \ {Max(s)}], found[Max(s)])
      BY <1>6, <2>2
    <3> QED
      BY <1>2, <2>2, <3>1, <3>2
  <2>3. \A s \in SUBSET (1 .. n) :
          s # {} /\ iter[s \ {Max(s)}] \in A
            => iter[s] = F[Max(s)][iter[s \ {Max(s)}]]
    BY <2>2
  <2>4. FoldsIn(iter, F, A, q.current, n)
    BY <2>1, <2>3 DEF FoldsIn
  <2> QED
    BY <1>1, <1>3, <2>4, FoldGoesOn
<1> DEFINE best == [k \in 0 .. n |-> iter[1 .. k]]
<1>9. best[0] = q.current /\ best[n] = iter[1 .. n]
  BY <1>8
<1>10. ASSUME NEW k \in 1 .. n
       PROVE  best[k] = Pl!Improve(q, best[k - 1], found[k])
  <2>1. k \in 0 .. n /\ k - 1 \in 0 .. n /\ k # 0
    OBVIOUS
  <2>2. iter[1 .. k] = F[k][iter[1 .. k - 1]] /\ iter[1 .. k - 1] \in A
    BY <1>8, <2>1
  <2> QED
    BY <1>2, <2>1, <2>2
<1> QED
  BY <1>7, <1>9, <1>10 DEF Improves


(***************************************************************************)
(* A problem for n injectors with the water there is; the numbers may be   *)
(* any.                                                                    *)
(***************************************************************************)
Postures == {"aggressive", "balanced", "robust"}

IsProblem(q, n) ==
  /\ q.current \in [1 .. n -> Nat]
  /\ q.idle \in [1 .. n -> BOOLEAN]
  /\ q.multiple \in Nat
  /\ DOMAIN q.gain = 1 .. 2
  /\ \A m \in 1 .. 2 : q.own[m] \in Int /\ q.gain[m] \in [1 .. n -> Int]
  /\ DOMAIN q.produced.gain = 1 .. 2
  /\ \A m \in 1 .. 2 : /\ q.produced.own[m] \in Int
                       /\ q.produced.gain[m] \in [1 .. n -> Int]
  /\ /\ q.economics.price \in Int
     /\ q.economics.handling \in Int
     /\ q.economics.injection \in Int
  /\ q.objective \in {"oil", "npv", "min_water"}
  /\ q.limit.most \in Int /\ q.limit.weight \in [1 .. n -> Int]
  /\ q.posture \in Postures

Rates(n) == [1 .. n -> Int]

LEMMA WeightedIsInt ==
  ASSUME NEW n \in Nat, NEW c \in [1 .. n -> Int], NEW x \in Rates(n)
  PROVE  Pl!Total([k \in DOMAIN x |-> c[k] * x[k]]) \in Int
<1> DEFINE y == [k \in DOMAIN x |-> c[k] * x[k]]
<1>1. DOMAIN x = 1 .. n /\ \A k \in 1 .. n : c[k] \in Int /\ x[k] \in Int
  BY DEF Rates
<1>2. y \in [1 .. n -> Int]
  BY <1>1
<1> HIDE DEF y
<1>3. 0 \in Int /\ \A a \in Int, b \in Int : a + b \in Int
  OBVIOUS
<1>4. Pl!Total(y) \in Int
  BY <1>2, <1>3, TotalStays
<1> QED
  BY <1>4 DEF y

LEMMA MadeIsInt ==
  ASSUME NEW n \in Nat, NEW phase, DOMAIN phase.gain = 1 .. 2,
         \A m \in 1 .. 2 : phase.own[m] \in Int /\ phase.gain[m] \in [1 .. n -> Int],
         NEW x \in Rates(n), NEW m \in 1 .. 2
  PROVE  Pl!Made(phase, x)[m] \in Int
<1> DEFINE t == Pl!Total([k \in DOMAIN x |-> phase.gain[m][k] * x[k]])
<1>1. t \in Int
  BY WeightedIsInt
<1>2. Pl!Made(phase, x)[m] = phase.own[m] + t
  BY DEF Pl!Made
<1> HIDE DEF t
<1> QED
  BY <1>1, <1>2

LEMMA ValuesAreInt ==
  ASSUME NEW n \in Nat, NEW q, IsProblem(q, n), NEW x \in Rates(n)
  PROVE  /\ \A m \in 1 .. 2 : Pl!Values(q, x)[m] \in Int
         /\ Pl!Value(q, x) \in Int
<1>1. ASSUME NEW m \in 1 .. 2
      PROVE  Pl!Values(q, x)[m] \in Int
  <2> DEFINE oil == Pl!Oils(q, x)[m]
             wet == Pl!Made(q.produced, x)[m]
             all == Pl!Total(x)
             e == q.economics
  <2>1. oil \in Int
    BY MadeIsInt DEF IsProblem, Pl!Oils
  <2>2. wet \in Int
    BY MadeIsInt DEF IsProblem
  <2>3. all \in Int
    BY TotalStays DEF Rates
  <2>4. DOMAIN q.gain = 1 .. 2
    BY DEF IsProblem
  <2>5. CASE q.objective = "oil"
    <3>1. Pl!Values(q, x) = Pl!Oils(q, x)
      BY <2>5 DEF Pl!Values
    <3> QED
      BY <2>1, <3>1
  <2>6. CASE q.objective = "npv"
    <3>1. Pl!Values(q, x) =
            [l \in DOMAIN q.gain |->
               q.economics.price * Pl!Oils(q, x)[l]
                 - (q.economics.handling * Pl!Made(q.produced, x)[l]
                      + q.economics.injection * Pl!Total(x))]
      BY <2>6 DEF Pl!Values
    <3>2. Pl!Values(q, x)[m] = e.price * oil - (e.handling * wet + e.injection * all)
      BY <2>4, <3>1
    <3>3. e.price \in Int /\ e.handling \in Int /\ e.injection \in Int
      BY DEF IsProblem
    <3> HIDE DEF oil, wet, all, e
    <3> QED
      BY <2>1, <2>2, <2>3, <3>2, <3>3
  <2>7. CASE q.objective = "min_water"
    <3>1. Pl!Values(q, x) = [l \in DOMAIN q.gain |-> -Pl!Total(x)]
      BY <2>7 DEF Pl!Values
    <3>2. Pl!Values(q, x)[m] = -all
      BY <2>4, <3>1
    <3> HIDE DEF all
    <3> QED
      BY <2>3, <3>2
  <2> QED
    BY <2>5, <2>6, <2>7 DEF IsProblem
<1>2. Pl!Value(q, x) \in Int
  <2> DEFINE v == Pl!Values(q, x)
  <2>1. v[1] \in Int /\ v[2] \in Int
    BY <1>1
  <2> HIDE DEF v
  <2>2. Pl!Statistic(v, q.posture) \in Int
    <3>1. /\ Pl!AbsOf(v[1] - v[2]) \in Int
          /\ Pl!Lesser(v[1], v[2]) \in Int
      BY <2>1 DEF Pl!AbsOf, Pl!Lesser
    <3>2. CASE q.posture = "aggressive"
      BY <2>1, <3>2 DEF Pl!Statistic
    <3>3. CASE q.posture = "balanced"
      BY <2>1, <3>1, <3>3 DEF Pl!Statistic
    <3>4. CASE q.posture = "robust"
      BY <3>1, <3>4 DEF Pl!Statistic
    <3> QED
      BY <3>2, <3>3, <3>4 DEF IsProblem, Postures
  <2> QED
    BY <2>2 DEF Pl!Value, v
<1> QED
  BY <1>1, <1>2

\* No rate can be held below zero.
LEMMA BoundsAreNat ==
  ASSUME NEW n \in Nat, NEW q, IsProblem(q, n), NEW k \in 1 .. n
  PROVE  Pl!UpperBound(q.current, q.idle, q.multiple)[k] \in Nat
<1> DEFINE inUse == { j \in DOMAIN q.current : ~q.idle[j] }
           all == IF inUse = {} THEN DOMAIN q.current ELSE inUse
           y == [j \in DOMAIN q.current |->
                   IF j \in all THEN q.multiple * q.current[j] ELSE 0]
           mean == Pl!Total(y) \div Cardinality(all)
<1>1. DOMAIN q.current = 1 .. n
  BY DEF IsProblem
<1>2. all \in SUBSET (1 .. n) /\ all # {}
  BY <1>1
<1>3. Cardinality(all) \in Nat \ {0}
  <2>1. IsFiniteSet(1 .. n)
    BY FS_Interval
  <2>2. IsFiniteSet(all)
    BY <1>2, <2>1, FS_Subset
  <2> QED
    BY <1>2, <2>2, FS_EmptySet, FS_CardinalityType
<1>4. y \in [1 .. n -> Nat]
  <2>1. \A j \in 1 .. n : q.multiple * q.current[j] \in Nat
    BY ProductIsNat DEF IsProblem
  <2> HIDE DEF all
  <2> QED
    BY <1>1, <2>1
<1> HIDE DEF y, all
<1>5. Pl!Total(y) \in Nat
  <2>1. 0 \in Nat /\ \A a \in Nat, b \in Nat : a + b \in Nat
    OBVIOUS
  <2> QED
    BY <1>4, <2>1, TotalStays
<1>6. mean \in Nat
  <2> DEFINE t == Pl!Total(y)
             c == Cardinality(all)
  <2>1. t \in Nat /\ c \in Nat \ {0}
    BY <1>3, <1>5
  <2> HIDE DEF t, c
  <2>2. t \div c \in Nat
    BY <2>1
  <2> QED
    BY <2>2 DEF t, c
<1>7. Pl!UpperBound(q.current, q.idle, q.multiple)
        = [j \in DOMAIN q.current |-> IF q.idle[j] THEN 0 ELSE mean]
  BY DEF Pl!UpperBound, Pl!Cardinality, Cardinality, y, all
<1>8. Pl!UpperBound(q.current, q.idle, q.multiple)[k] \in {0, mean}
  BY <1>1, <1>7
<1> QED
  BY <1>6, <1>8

LEMMA ClippedInBounds ==
  ASSUME NEW n \in Nat, NEW q, IsProblem(q, n), NEW x \in Rates(n)
  PROVE  /\ Pl!Clipped(q, x) \in Rates(n)
         /\ Pl!InBounds(Pl!Clipped(q, x),
                        Pl!UpperBound(q.current, q.idle, q.multiple))
<1> DEFINE upper == Pl!UpperBound(q.current, q.idle, q.multiple)
           y == Pl!Clipped(q, x)
<1>1. DOMAIN x = 1 .. n /\ \A k \in 1 .. n : x[k] \in Int
  BY DEF Rates
<1>2. \A k \in 1 .. n : upper[k] \in Nat
  BY BoundsAreNat
<1>3. y = [k \in 1 .. n |-> Pl!Bigger(0, Pl!Lesser(x[k], upper[k]))]
  BY <1>1 DEF Pl!Clipped
<1> HIDE DEF upper, y
<1>4. \A k \in 1 .. n : y[k] \in Int /\ 0 <= y[k] /\ y[k] <= upper[k]
  BY <1>1, <1>2, <1>3 DEF Pl!Bigger, Pl!Lesser
<1>5. DOMAIN y = 1 .. n
  BY <1>3
<1>6. y \in Rates(n)
  BY <1>3, <1>4 DEF Rates
<1>7. Pl!InBounds(y, upper)
  BY <1>4, <1>5 DEF Pl!InBounds
<1> QED
  BY <1>6, <1>7 DEF y, upper

\* b is hold-current, or feasible and better, and at least as good as what was
\* feasible among the first k points.
IsBest(q, found, b, k) ==
  /\ b # q.current =>
       /\ \E j \in 1 .. k : b = Pl!Clipped(q, found[j])
       /\ Pl!Feasible(q, b)
       /\ Pl!Value(q, b) > Pl!Value(q, q.current)
  /\ Pl!Value(q, b) >= Pl!Value(q, q.current)
  /\ \A j \in 1 .. k : Pl!Feasible(q, Pl!Clipped(q, found[j])) =>
       Pl!Value(q, Pl!Clipped(q, found[j])) <= Pl!Value(q, b)

LEMMA ImproveIsBest ==
  ASSUME NEW n \in Nat, NEW q, IsProblem(q, n), NEW N \in Nat,
         NEW found \in [1 .. N -> Rates(n)],
         NEW k \in Nat, k < N, NEW b, IsBest(q, found, b, k)
  PROVE  IsBest(q, found, Pl!Improve(q, b, found[k + 1]), k + 1)
<1> DEFINE y == Pl!Clipped(q, found[k + 1])
           c == Pl!Improve(q, b, found[k + 1])
           Val(x) == Pl!Value(q, x)
<1>1. k + 1 \in 1 .. N /\ 1 .. k \subseteq 1 .. k + 1 /\ k + 1 \in 1 .. k + 1
      /\ \A j \in 1 .. k + 1 : j = k + 1 \/ j \in 1 .. k
  OBVIOUS
<1>2. \A j \in 1 .. k + 1 : Pl!Clipped(q, found[j]) \in Rates(n)
  <2>1. \A j \in 1 .. k + 1 : found[j] \in Rates(n)
    OBVIOUS
  <2> QED
    BY <2>1, ClippedInBounds
<1>3. q.current \in Rates(n)
  BY DEF IsProblem, Rates
<1>4. b \in Rates(n) /\ y \in Rates(n)
  BY <1>1, <1>2, <1>3 DEF IsBest
<1>5. /\ Val(b) \in Int /\ Val(y) \in Int /\ Val(q.current) \in Int
      /\ \A j \in 1 .. k + 1 : Val(Pl!Clipped(q, found[j])) \in Int
  BY <1>2, <1>3, <1>4, ValuesAreInt
<1>6. CASE Pl!Feasible(q, y) /\ Val(y) > Val(b)
  <2>1. c = y
    BY <1>6 DEF Pl!Improve
  <2> HIDE DEF c, Val
  <2>2. Val(y) > Val(q.current)
    BY <1>5, <1>6 DEF IsBest, Val
  <2>3. \A j \in 1 .. k + 1 : Pl!Feasible(q, Pl!Clipped(q, found[j])) =>
          Val(Pl!Clipped(q, found[j])) <= Val(y)
    <3> SUFFICES ASSUME NEW j \in 1 .. k, Pl!Feasible(q, Pl!Clipped(q, found[j]))
                 PROVE  Val(Pl!Clipped(q, found[j])) <= Val(y)
      BY <1>1, <1>5
    <3>1. Val(Pl!Clipped(q, found[j])) <= Val(b)
      BY DEF IsBest, Val
    <3> QED
      BY <1>1, <1>5, <1>6, <3>1
  <2> QED
    BY <1>1, <1>5, <1>6, <2>1, <2>2, <2>3 DEF IsBest, Val, c
<1>7. CASE ~(Pl!Feasible(q, y) /\ Val(y) > Val(b))
  <2>1. c = b
    BY <1>7 DEF Pl!Improve
  <2> HIDE DEF c
  <2>2. Pl!Feasible(q, y) => Val(y) <= Val(b)
    BY <1>5, <1>7
  <2> QED
    BY <1>1, <2>1, <2>2 DEF IsBest, c
<1> QED
  BY <1>6, <1>7

(***************************************************************************)
(* For any problem and whatever the solver returns for any number of       *)
(* starts (solvers.py, 133-285).                                           *)
(***************************************************************************)
LEMMA SectorPlanIsBest ==
  ASSUME NEW n \in Nat, NEW q, IsProblem(q, n), NEW N \in Nat,
         NEW found \in [1 .. N -> Rates(n)], NEW winner
  PROVE  /\ winner = "crmt" => Pl!SectorPlan(q, winner, found) = q.current
         /\ winner # "crmt" =>
              IsBest(q, found, Pl!SectorPlan(q, winner, found), N)
<1>1. PICK best : Improves(q, found, N, best)
  <2>1. DOMAIN found = 1 .. N
    OBVIOUS
  <2> QED
    BY <2>1, Improving
<1> DEFINE T == { k \in Nat : k <= N => IsBest(q, found, best[k], k) }
<1>2. 0 \in T
  <2>1. q.current \in Rates(n)
    BY DEF IsProblem, Rates
  <2>2. Pl!Value(q, q.current) \in Int
    BY <2>1, ValuesAreInt
  <2>3. ~(1 .. 0 # {}) /\ best[0] = q.current
    BY <1>1 DEF Improves
  <2>4. IsBest(q, found, best[0], 0)
    BY <2>2, <2>3 DEF IsBest
  <2> QED
    BY <2>4
<1>3. ASSUME NEW k \in Nat, k \in T PROVE k + 1 \in T
  <2> SUFFICES ASSUME k + 1 <= N PROVE IsBest(q, found, best[k + 1], k + 1)
    OBVIOUS
  <2>1. IsBest(q, found, best[k], k)
    BY <1>3
  <2>2. k + 1 \in 1 .. N /\ (k + 1) - 1 = k /\ k < N
    OBVIOUS
  <2>3. best[k + 1] = Pl!Improve(q, best[k], found[k + 1])
    BY <1>1, <2>2 DEF Improves
  <2> QED
    BY <2>1, <2>2, <2>3, ImproveIsBest
<1> HIDE DEF T
<1>4. Nat \subseteq T
  BY <1>2, <1>3, SetInduction
<1>5. IsBest(q, found, best[N], N)
  BY <1>4 DEF T
<1>6. Pl!RejectsLoss(q.posture) => ~Pl!LosesValue(q, best[N])
  <2>1. q.current \in Rates(n)
    BY DEF IsProblem, Rates
  <2>2. ~Pl!LosesValue(q, q.current)
    <3>1. \A m \in 1 .. 2 : Pl!Values(q, q.current)[m] \in Int
      BY <2>1, ValuesAreInt
    <3>2. DOMAIN q.gain = 1 .. 2
      BY DEF IsProblem
    <3> QED
      BY <3>1, <3>2 DEF Pl!LosesValue
  <2> QED
    BY <1>5, <2>2 DEF IsBest, Pl!Feasible
<1>7. Pl!BestPlan(q, found) = best[N]
  BY <1>1, <1>6 DEF Improves
<1> QED
  BY <1>5, <1>7 DEF Pl!SectorPlan

-----------------------------------------------------------------------------
(***************************************************************************)
(* A rule that is asked keeps its question, and answers it in one step.    *)
(***************************************************************************)
PlanAnswer ==
  LET q == [Pl!AtBudget(input.problem, input.budget) EXCEPT !.posture =
              Pl!Posture(@, input.confidence)]
  IN  [ problem |-> q, plan |-> Pl!SectorPlan(q, input.winner, input.found) ]

MonthAnswer ==
  [ actions |-> Sv!Rules(input),
    alerts |-> Sv!FromActions(Sv!Rules(input)),
    draft |-> Sv!OpensDraft(input) ]

AskedOK ==
  /\ kind = "plan" => input \in Problems /\ (done => result = PlanAnswer)
  /\ kind = "due" =>
       input \in Implemented /\ (done => result = Sv!DueDate(input.at, input.months))
  /\ kind = "month" => input \in Months /\ (done => result = MonthAnswer)
  /\ kind = "revert" =>
       /\ input \in Cuts
       /\ done => result = Sv!Reverts(input.items, input.now, input.atApproval,
                                      input.jump)
  /\ kind = "calibrate" =>
       /\ input \in Records
       /\ done => \E short \in BOOLEAN :
            result = Sv!Recalibrated(input.records, input.floor, short)

LEMMA AskedWell == PlanInit => AskedOK
  BY DEF PlanInit, AskedOK, Asked

LEMMA AnsweredWell == AskedOK /\ [PlanNext]_questionVars => AskedOK'
<1> SUFFICES ASSUME AskedOK, [PlanNext]_questionVars PROVE AskedOK'
  OBVIOUS
<1>1. CASE OptimizeSector
  <2>1. kind = "plan" /\ kind' = kind /\ input' = input /\ result' = PlanAnswer
    BY <1>1 DEF OptimizeSector, Open, Answer, PlanAnswer
  <2>2. PlanAnswer' = PlanAnswer
    BY <2>1 DEF PlanAnswer
  <2> QED
    BY <2>1, <2>2 DEF AskedOK
<1>2. CASE PlanEvaluation
  BY <1>2 DEF PlanEvaluation, Open, Answer, AskedOK
<1>3. CASE ApplyRules
  <2>1. kind = "month" /\ kind' = kind /\ input' = input /\ result' = MonthAnswer
    BY <1>3 DEF ApplyRules, Open, Answer, MonthAnswer
  <2>2. MonthAnswer' = MonthAnswer
    BY <2>1 DEF MonthAnswer
  <2> QED
    BY <2>1, <2>2 DEF AskedOK
<1>4. CASE RaiseReverts
  BY <1>4 DEF RaiseReverts, Open, Answer, AskedOK
<1>5. CASE Recalibrate
  BY <1>5 DEF Recalibrate, Open, Answer, AskedOK
<1>6. CASE UNCHANGED questionVars
  BY <1>6 DEF questionVars, AskedOK, PlanAnswer, MonthAnswer
<1>7. CASE MakeActionList
  BY <1>7 DEF MakeActionList, Open, Answer, AskedOK
<1> QED
  BY <1>1, <1>2, <1>3, <1>4, <1>5, <1>6, <1>7 DEF PlanNext

LEMMA AlwaysAskedWell == PlanSpec => []AskedOK
  BY AskedWell, AnsweredWell, PTL DEF PlanSpec

-----------------------------------------------------------------------------
\* The limit is kept as far as hold-current keeps it.
LEMMA LimitIsKept ==
  ASSUME NEW n \in Nat, NEW q, IsProblem(q, n), NEW y \in Rates(n),
         q.current \in Rates(n)
  PROVE  LET weighted(x) == Pl!Total([k \in DOMAIN x |-> q.limit.weight[k] * x[k]])
         IN  Pl!Slack(y, q.limit) >= Pl!Lesser(Pl!Slack(q.current, q.limit), 0)
               <=> weighted(y) <= Pl!Bigger(q.limit.most, weighted(q.current))
<1> DEFINE weighted(x) == Pl!Total([k \in DOMAIN x |-> q.limit.weight[k] * x[k]])
           a == weighted(y)
           b == weighted(q.current)
           most == q.limit.most
<1>1. a \in Int /\ b \in Int /\ most \in Int
  BY WeightedIsInt DEF IsProblem
<1>2. Pl!Slack(y, q.limit) = most - a /\ Pl!Slack(q.current, q.limit) = most - b
  BY DEF Pl!Slack
<1> HIDE DEF a, b, most
<1>3. most - a >= Pl!Lesser(most - b, 0) <=> a <= Pl!Bigger(most, b)
  BY <1>1 DEF Pl!Lesser, Pl!Bigger
<1> QED
  BY <1>2, <1>3 DEF a, b, most

(***************************************************************************)
(* The plan of a sector is hold-current, or a point the solver found that  *)
(* keeps the bounds, the water, the limits and the target and is better;   *)
(* none that does is better still, and what is advised under the robust    *)
(* posture lowers the value of the objective in no member - for any        *)
(* objective, problem, solver and number of starts (solvers.py, 133-285;   *)
(* objectives.py; run.py; posture.py).                                     *)
(***************************************************************************)
LEMMA PlanIsSound ==
  ASSUME AskedOK
  PROVE  PlanSound
<1> SUFFICES ASSUME Answered("plan") PROVE PlanSound
  BY DEF PlanSound
<1> DEFINE n == Len(input.problem.current)
           N == Len(input.found)
           q == [Pl!AtBudget(input.problem, input.budget) EXCEPT !.posture =
                   Pl!Posture(@, input.confidence)]
           x == Pl!SectorPlan(q, input.winner, input.found)
           upper == Pl!UpperBound(q.current, q.idle, q.multiple)
           Val(y) == Pl!Value(q, y)
<1>1. input \in Problems /\ result.problem = q /\ result.plan = x
  BY DEF AskedOK, Answered, PlanAnswer
<1>2. /\ n \in Nat
      /\ input.problem \in Problem(n)
      /\ input.found \in Seq([1 .. n -> Int])
  BY <1>1, ProblemsAssumption
<1> HIDE DEF n
<1>3. IsProblem(q, n)
  <2> DEFINE p == input.problem
  <2>1. /\ q.current = p.current /\ q.idle = p.idle /\ q.multiple = p.multiple
        /\ q.own = p.own /\ q.gain = p.gain /\ q.produced = p.produced
        /\ q.economics = p.economics /\ q.objective = p.objective
        /\ q.limit = p.limit
        /\ q.posture = Pl!Posture(p.posture, input.confidence)
    BY <1>2 DEF Pl!AtBudget, Problem
  <2>2. q.posture \in Postures
    BY <1>2, <2>1 DEF Pl!Posture, Postures, Problem
  <2> HIDE DEF q
  <2>3. q.own \in [1 .. 2 -> Int] /\ q.gain \in [1 .. 2 -> [1 .. n -> Int]]
    BY <1>2, <2>1 DEF Problem
  <2>4. /\ q.produced.own \in [1 .. 2 -> Int]
        /\ q.produced.gain \in [1 .. 2 -> [1 .. n -> Int]]
    BY <1>2, <2>1 DEF Problem
  <2>5. /\ q.economics.price \in Int /\ q.economics.handling \in Int
        /\ q.economics.injection \in Int
        /\ q.objective \in {"oil", "npv", "min_water"}
        /\ q.limit.most \in Int /\ q.limit.weight \in [1 .. n -> Int]
    BY <1>2, <2>1 DEF Problem
  <2>6. /\ q.current \in [1 .. n -> Nat] /\ q.idle \in [1 .. n -> BOOLEAN]
        /\ q.multiple \in Nat
    BY <1>2, <2>1 DEF Problem
  <2> QED
    BY <2>2, <2>3, <2>4, <2>5, <2>6 DEF IsProblem
<1>4. input.confidence = "LOW" => q.posture = "robust"
  BY <1>2 DEF Pl!AtBudget, Pl!Posture, Problem
<1> HIDE DEF q
<1>5. N \in Nat /\ input.found \in [1 .. N -> Rates(n)] /\ DOMAIN input.found = 1 .. N
  BY <1>2 DEF Rates
<1>6. /\ input.winner = "crmt" => x = q.current
      /\ input.winner # "crmt" => IsBest(q, input.found, x, N)
  BY <1>2, <1>3, <1>5, SectorPlanIsBest
<1>7. q.posture = "robust" => /\ ~Pl!LosesValue(q, x)
                              /\ q.objective = "oil" => ~Pl!LosesOil(q, x)
  <2>1. q.current \in Rates(n) /\ DOMAIN q.gain = 1 .. 2
    BY <1>3 DEF IsProblem, Rates
  <2>2. \A m \in DOMAIN q.gain : Pl!Values(q, q.current)[m] \in Int
    BY <1>2, <1>3, <2>1, ValuesAreInt
  <2> QED
    BY <2>2, RobustLosesNothing
<1>8. ASSUME x # q.current
      PROVE  /\ input.winner # "crmt" /\ Pl!InBounds(x, upper)
             /\ Pl!Feasible(q, x) /\ Val(x) > Val(q.current)
  <2>1. input.winner # "crmt" /\ IsBest(q, input.found, x, N)
    BY <1>6, <1>8
  <2> HIDE DEF x
  <2>2. PICK j \in 1 .. N : x = Pl!Clipped(q, input.found[j])
    BY <1>8, <2>1 DEF IsBest
  <2>3. input.found[j] \in Rates(n)
    BY <1>5
  <2>4. Pl!InBounds(x, upper)
    BY <1>2, <1>3, <2>2, <2>3, ClippedInBounds
  <2> QED
    BY <1>8, <2>1, <2>4 DEF IsBest
<1>9. ASSUME input.winner # "crmt", NEW k \in DOMAIN input.found,
             Pl!Feasible(q, Pl!Clipped(q, input.found[k]))
      PROVE  Val(Pl!Clipped(q, input.found[k])) <= Val(x)
  BY <1>5, <1>6, <1>9 DEF IsBest
<1> DEFINE weighted(y) == Pl!Total([k \in DOMAIN y |-> q.limit.weight[k] * y[k]])
           allowed(y) ==
             /\ IF q.sameWater THEN Pl!Total(y) = q.water
                               ELSE Pl!Total(y) <= q.water
             /\ weighted(y) <= Pl!Bigger(q.limit.most, weighted(q.current))
             /\ q.objective = "min_water" => Pl!Oils(q, y)[1] >= q.target
             /\ q.posture = "robust" => ~Pl!LosesValue(q, y)
<1>10. ASSUME NEW y \in Rates(n)
       PROVE  Pl!Feasible(q, y) <=> allowed(y)
  <2>1. q.current \in Rates(n)
    BY <1>3 DEF IsProblem, Rates
  <2>2. Pl!Slack(y, q.limit) >= Pl!Lesser(Pl!Slack(q.current, q.limit), 0)
          <=> weighted(y) <= Pl!Bigger(q.limit.most, weighted(q.current))
    BY <1>2, <1>3, <2>1, LimitIsKept
  <2> HIDE DEF weighted
  <2> QED
    BY <2>2 DEF Pl!Feasible, Pl!MeetsWater, Pl!MeetsForecast, Pl!RejectsLoss
<1>11. \A k \in DOMAIN input.found : Pl!Clipped(q, input.found[k]) \in Rates(n)
  <2>1. \A k \in DOMAIN input.found : input.found[k] \in Rates(n)
    BY <1>5
  <2> QED
    BY <1>2, <1>3, <2>1, ClippedInBounds
<1>12. x # q.current => x \in Rates(n)
  <2>1. ASSUME x # q.current PROVE x \in Rates(n)
    <3>1. IsBest(q, input.found, x, N)
      BY <1>6, <2>1
    <3> HIDE DEF x
    <3>2. \E j \in 1 .. N : x = Pl!Clipped(q, input.found[j])
      BY <2>1, <3>1 DEF IsBest
    <3> QED
      BY <1>5, <1>11, <3>2
  <2> QED
    BY <2>1
<1> HIDE DEF x, upper
<1>13. x # q.current => allowed(x)
  BY <1>8, <1>10, <1>12
<1>14. ASSUME input.winner # "crmt", NEW k \in DOMAIN input.found,
              allowed(Pl!Clipped(q, input.found[k]))
       PROVE  Val(Pl!Clipped(q, input.found[k])) <= Val(x)
  <2>1. Pl!Feasible(q, Pl!Clipped(q, input.found[k]))
    BY <1>10, <1>11, <1>14
  <2> QED
    BY <1>9, <1>14, <2>1
<1> QED
  BY <1>1, <1>4, <1>7, <1>8, <1>13, <1>14 DEF PlanSound, upper, Val

THEOREM PlansAreSound == PlanSpec => []PlanSound
<1>1. AskedOK => PlanSound
  BY PlanIsSound
<1> QED
  BY <1>1, AlwaysAskedWell, PTL

\* The answer to a question about a date.
LEMMA DueIsSound ==
  ASSUME NEW in, in.at \in [y : Nat, m : 1 .. 12, d : 1 .. 31], in.months \in Nat
  PROVE  LET due == Sv!DueDate(in.at, in.months)
         IN  /\ Sv!IsDate(due)
             /\ MonthsOf(due) = MonthsOf(in.at) + in.months
             /\ due.d <= in.at.d
             /\ due.d = in.at.d \/ in.at.d > 28
<1>1. LET due == Sv!DueDate(in.at, in.months)
      IN  /\ Sv!IsDate(due)
          /\ 12 * due.y + due.m = 12 * in.at.y + in.at.m + in.months
          /\ due.d <= in.at.d
  BY DueDateOnCalendar
<1>2. Sv!DueDate(in.at, in.months).d = IF in.at.d > 28 THEN 28 ELSE in.at.d
  BY DEF Sv!DueDate
<1> QED
  BY <1>1, <1>2 DEF MonthsOf

LEMMA MonthsOrdered ==
  ASSUME NEW a \in Nat, NEW b \in 1 .. 12, NEW c \in Nat, NEW d \in 1 .. 12
  PROVE  /\ a > c \/ (a = c /\ b > d) <=> 12 * a + b > 12 * c + d
         /\ a = c /\ b = d <=> 12 * a + b = 12 * c + d
  OBVIOUS

\* An evaluation is due from its day on.
LEMMA DueFromItsDay ==
  ASSUME NEW at \in [y : Nat, m : 1 .. 12, d : 1 .. 31],
         NEW today \in [y : Nat, m : 1 .. 12, d : 1 .. 31], NEW months \in Nat
  PROVE  Sv!NotBefore(today, Sv!DueDate(at, months)) <=>
           LET past == MonthsOf(today) - MonthsOf(at)
           IN  past > months \/ (past = months /\ today.d >= Sv!Lower(at.d, 28))
<1> DEFINE due == Sv!DueDate(at, months)
<1>1. MonthsOf(due) = MonthsOf(at) + months /\ due.m \in 1 .. 12
  BY DueDateOnCalendar DEF MonthsOf, Sv!IsDate
<1>2. due.d = Sv!Lower(at.d, 28) /\ due.y = at.y + ((at.m + months - 1) \div 12)
  BY DEF Sv!DueDate, Sv!Lower
<1>3. due.y \in Nat /\ due.d \in Nat
  <2>1. at.m + months - 1 \in Nat
    OBVIOUS
  <2> HIDE DEF due
  <2>2. \A k \in Nat : k \div 12 \in Nat
    OBVIOUS
  <2>3. at.y \in Nat /\ Sv!Lower(at.d, 28) \in Nat
    BY DEF Sv!Lower
  <2> QED
    BY <1>2, <2>1, <2>2, <2>3
<1> HIDE DEF due
<1>4. Sv!NotBefore(today, due) <=>
        \/ MonthsOf(today) > MonthsOf(due)
        \/ MonthsOf(today) = MonthsOf(due) /\ today.d >= due.d
  <2>1. today.y \in Nat /\ today.m \in 1 .. 12
    OBVIOUS
  <2>2. /\ today.y > due.y \/ (today.y = due.y /\ today.m > due.m)
             <=> 12 * today.y + today.m > 12 * due.y + due.m
        /\ today.y = due.y /\ today.m = due.m
             <=> 12 * today.y + today.m = 12 * due.y + due.m
    BY <1>1, <1>3, <2>1, MonthsOrdered
  <2> QED
    BY <2>2, Zenon DEF Sv!NotBefore, MonthsOf
<1>5. MonthsOf(today) \in Int /\ MonthsOf(at) \in Int
  BY DEF MonthsOf
<1> QED
  BY <1>1, <1>2, <1>4, <1>5 DEF due

\* The wells of the actions with a trigger.
WellsOf(actions, t) ==
  UNION { a.wells : a \in { b \in actions : b.trigger = t } }

\* The actions of a month, each by its trigger.
LEMMA ActionIsOf ==
  ASSUME NEW in, NEW a \in Sv!Rules(in)
  PROVE  \/ a = Sv!Action("new data", {}, 0)
         \/ a = Sv!Action("quarterly", {}, 0)
         \/ a = Sv!Action("in band",
                  IF Sv!Outside(in) = {} THEN Sv!Within(in) ELSE {}, 0)
         \/ a = Sv!Action("data", Sv!SuspectData(in), 0)
         \/ a = Sv!Action("reservoir", Sv!SuspectReservoir(in), 0)
         \/ a = Sv!Action("event", in.events, 0)
         \/ \E m \in Sv!DueEvaluations(in.at, in.today, in.done) :
              in.at # Sv!Never /\ a = Sv!Action("evaluation", {}, m)
  BY DEF Sv!Rules, Sv!WellActions

LEMMA ActionHas ==
  ASSUME NEW t, NEW W, NEW m
  PROVE  /\ Sv!Action(t, W, m).trigger = t
         /\ Sv!Action(t, W, m).wells = W
         /\ Sv!Action(t, W, m).months = m
  BY DEF Sv!Action

LEMMA RulesByTrigger ==
  ASSUME NEW in, NEW a \in Sv!Rules(in)
  PROVE  /\ a.trigger = "data" => a.wells = Sv!SuspectData(in)
         /\ a.trigger = "reservoir" => a.wells = Sv!SuspectReservoir(in)
         /\ a.trigger = "in band" =>
              a.wells = IF Sv!Outside(in) = {} THEN Sv!Within(in) ELSE {}
         /\ a.trigger = "evaluation" =>
              a.months \in Sv!DueEvaluations(in.at, in.today, in.done)
<1> DEFINE band == IF Sv!Outside(in) = {} THEN Sv!Within(in) ELSE {}
           data == Sv!SuspectData(in)
           reservoir == Sv!SuspectReservoir(in)
           due == Sv!DueEvaluations(in.at, in.today, in.done)
<1>1. \/ a = Sv!Action("new data", {}, 0)
      \/ a = Sv!Action("quarterly", {}, 0)
      \/ a = Sv!Action("in band", band, 0)
      \/ a = Sv!Action("data", data, 0)
      \/ a = Sv!Action("reservoir", reservoir, 0)
      \/ a = Sv!Action("event", in.events, 0)
      \/ \E m \in due : a = Sv!Action("evaluation", {}, m)
  BY ActionIsOf
<1> HIDE DEF band, data, reservoir, due
<1>2. \E t, V, k :
        /\ a = Sv!Action(t, V, k)
        /\ \/ t = "in band" /\ V = band
           \/ t = "data" /\ V = data
           \/ t = "reservoir" /\ V = reservoir
           \/ t = "evaluation" /\ k \in due
           \/ t \in {"new data", "quarterly", "event"}
  BY <1>1
<1>3. PICK t, V, k :
        /\ a = Sv!Action(t, V, k)
        /\ \/ t = "in band" /\ V = band
           \/ t = "data" /\ V = data
           \/ t = "reservoir" /\ V = reservoir
           \/ t = "evaluation" /\ k \in due
           \/ t \in {"new data", "quarterly", "event"}
  BY <1>2
<1>4. a.trigger = t /\ a.wells = V /\ a.months = k
  <2>1. a = Sv!Action(t, V, k)
    BY <1>3
  <2>2. /\ Sv!Action(t, V, k).trigger = t
        /\ Sv!Action(t, V, k).wells = V
        /\ Sv!Action(t, V, k).months = k
    BY ActionHas
  <2> QED
    BY <2>1, <2>2
<1>5. /\ a.trigger = "data" => a.wells = data
      /\ a.trigger = "reservoir" => a.wells = reservoir
      /\ a.trigger = "in band" => a.wells = band
      /\ a.trigger = "evaluation" => a.months \in due
  BY <1>3, <1>4
<1> QED
  BY <1>5, Zenon DEF band, data, reservoir, due

LEMMA SuspicionsAreNamed ==
  ASSUME NEW in
  PROVE  /\ Sv!SuspectData(in) # {} =>
              \E a \in Sv!Rules(in) :
                a.trigger = "data" /\ a.wells = Sv!SuspectData(in)
         /\ Sv!SuspectReservoir(in) # {} =>
              \E a \in Sv!Rules(in) :
                a.trigger = "reservoir" /\ a.wells = Sv!SuspectReservoir(in)
<1>1. ASSUME NEW a \in Sv!WellActions(in), a.wells # {}
      PROVE  a \in Sv!Rules(in)
  BY <1>1 DEF Sv!Rules
<1>2. /\ Sv!Action("data", Sv!SuspectData(in), 0) \in Sv!WellActions(in)
      /\ Sv!Action("reservoir", Sv!SuspectReservoir(in), 0) \in Sv!WellActions(in)
  BY DEF Sv!WellActions
<1> QED
  BY <1>1, <1>2, ActionHas

LEMMA DueAreNamed ==
  ASSUME NEW in, in.at # Sv!Never,
         NEW m \in Sv!DueEvaluations(in.at, in.today, in.done)
  PROVE  \E a \in Sv!Rules(in) : a.trigger = "evaluation" /\ a.months = m
<1>1. Sv!Action("evaluation", {}, m) \in Sv!Rules(in)
  BY Zenon DEF Sv!Rules
<1> QED
  BY <1>1, ActionHas

\* What is asked of the actions, the alerts and the draft of a month.
MonthSound(in, actions, alerts, draft) ==
  /\ WellsOf(actions, "data") \cup WellsOf(actions, "reservoir") = Sv!Outside(in)
  /\ WellsOf(actions, "data") \cap WellsOf(actions, "reservoir") = {}
  /\ WellsOf(actions, "in band") # {} => Sv!Outside(in) = {}
  /\ draft => WellsOf(actions, "reservoir") # {} /\ in.shifted
  /\ \A a \in alerts : a.kind = "data_quality" => a.wells \subseteq in.changed
  /\ in.at # Sv!Never =>
       \A m \in Sv!EvaluationMonths :
         (\E a \in alerts : a.kind = "evaluation" /\ a.months = m)
           <=> m \in Sv!DueEvaluations(in.at, in.today, in.done)

LEMMA MonthIsSound ==
  ASSUME NEW in
  PROVE  MonthSound(in, Sv!Rules(in), Sv!FromActions(Sv!Rules(in)), Sv!OpensDraft(in))
<1> DEFINE actions == Sv!Rules(in)
           alerts == Sv!FromActions(Sv!Rules(in))
<1>1. WellsOf(actions, "data") = Sv!SuspectData(in)
  <2>1. \A a \in actions : a.trigger = "data" => a.wells = Sv!SuspectData(in)
    BY RulesByTrigger
  <2>2. Sv!SuspectData(in) # {} =>
          \E a \in actions : a.trigger = "data" /\ a.wells = Sv!SuspectData(in)
    BY SuspicionsAreNamed
  <2> HIDE DEF actions
  <2> QED
    BY <2>1, <2>2 DEF WellsOf
<1>2. WellsOf(actions, "reservoir") = Sv!SuspectReservoir(in)
  <2>1. \A a \in actions :
          a.trigger = "reservoir" => a.wells = Sv!SuspectReservoir(in)
    BY RulesByTrigger
  <2>2. Sv!SuspectReservoir(in) # {} =>
          \E a \in actions :
            a.trigger = "reservoir" /\ a.wells = Sv!SuspectReservoir(in)
    BY SuspicionsAreNamed
  <2> HIDE DEF actions
  <2> QED
    BY <2>1, <2>2 DEF WellsOf
<1>3. WellsOf(actions, "in band") # {} => Sv!Outside(in) = {}
  <2> SUFFICES ASSUME NEW a \in actions, a.trigger = "in band", a.wells # {}
               PROVE  Sv!Outside(in) = {}
    BY DEF WellsOf
  <2> QED
    BY RulesByTrigger
<1>4. /\ Sv!SuspectData(in) \cup Sv!SuspectReservoir(in) = Sv!Outside(in)
      /\ Sv!SuspectData(in) \cap Sv!SuspectReservoir(in) = {}
      /\ Sv!SuspectData(in) \subseteq in.changed
  BY DEF Sv!SuspectData, Sv!SuspectReservoir
<1>5. /\ DOMAIN Sv!AlertKind = {"data", "evaluation", "event"}
      /\ Sv!AlertKind["data"] = "data_quality"
      /\ Sv!AlertKind["evaluation"] = "evaluation"
      /\ Sv!AlertKind["event"] = "condition"
  BY DEF Sv!AlertKind
<1>6. ASSUME NEW l \in alerts
      PROVE  \E a \in actions :
               /\ a.trigger \in {"data", "evaluation", "event"}
               /\ l.kind = Sv!AlertKind[a.trigger]
               /\ l.wells = a.wells /\ l.months = a.months
  BY <1>5 DEF Sv!FromActions
<1>7. ASSUME NEW a \in actions, a.trigger = "evaluation"
      PROVE  \E l \in alerts : l.kind = "evaluation" /\ l.months = a.months
  <2> DEFINE l == [kind |-> Sv!AlertKind[a.trigger], wells |-> a.wells,
                   months |-> a.months]
  <2>1. l \in alerts
    BY <1>5, <1>7 DEF Sv!FromActions
  <2>2. l.kind = "evaluation" /\ l.months = a.months
    BY <1>5, <1>7
  <2> QED
    BY <2>1, <2>2
<1> HIDE DEF actions, alerts
<1>8. ASSUME NEW l \in alerts, l.kind = "data_quality"
      PROVE  l.wells \subseteq in.changed
  <2>1. PICK a \in actions : /\ a.trigger \in {"data", "evaluation", "event"}
                             /\ l.kind = Sv!AlertKind[a.trigger]
                             /\ l.wells = a.wells
    BY <1>6
  <2>2. a.trigger = "data"
    BY <1>5, <1>8, <2>1
  <2>3. a.wells = Sv!SuspectData(in)
    BY <2>2, RulesByTrigger, Zenon DEF actions
  <2> QED
    BY <1>4, <2>1, <2>3
<1>9. ASSUME in.at # Sv!Never, NEW m \in Sv!EvaluationMonths
      PROVE  (\E l \in alerts : l.kind = "evaluation" /\ l.months = m)
               <=> m \in Sv!DueEvaluations(in.at, in.today, in.done)
  <2>1. ASSUME NEW l \in alerts, l.kind = "evaluation", l.months = m
        PROVE  m \in Sv!DueEvaluations(in.at, in.today, in.done)
    <3>1. PICK a \in actions : /\ a.trigger \in {"data", "evaluation", "event"}
                               /\ l.kind = Sv!AlertKind[a.trigger]
                               /\ l.months = a.months
      BY <1>6
    <3>2. a.trigger = "evaluation"
      BY <1>5, <2>1, <3>1
    <3> QED
      BY <2>1, <3>1, <3>2, RulesByTrigger DEF actions
  <2>2. ASSUME m \in Sv!DueEvaluations(in.at, in.today, in.done)
        PROVE  \E l \in alerts : l.kind = "evaluation" /\ l.months = m
    <3>1. PICK a \in actions : a.trigger = "evaluation" /\ a.months = m
      BY <1>9, <2>2, DueAreNamed DEF actions
    <3> QED
      BY <1>7, <3>1
  <2> QED
    BY <2>1, <2>2
<1>10. Sv!OpensDraft(in) => Sv!SuspectReservoir(in) # {} /\ in.shifted
  BY Zenon DEF Sv!OpensDraft
<1> QED
  BY <1>1, <1>2, <1>3, <1>4, <1>8, <1>9, <1>10, Zenon DEF MonthSound, actions, alerts

\* A change is to be reverted exactly when the water cut of a connected producer
\* jumped, one that is not known now never.
LEMMA RevertIsSound ==
  ASSUME NEW in, in.jump \in Nat,
         \A w \in DOMAIN in.now : in.now[w] \in Nat,
         \A w \in DOMAIN in.atApproval : in.atApproval[w] \in Nat,
         NEW i \in DOMAIN in.items
  PROVE  i \in Sv!Reverts(in.items, in.now, in.atApproval, in.jump) <=>
           \E w \in in.items[i] \cap DOMAIN in.now :
             in.now[w] > in.jump
               + (IF w \in DOMAIN in.atApproval THEN in.atApproval[w] ELSE 0)
<1> DEFINE before(w) == IF w \in DOMAIN in.atApproval THEN in.atApproval[w] ELSE 0
           jumps(w) == Sv!CutOf(in.now, w) - Sv!CutOf(in.atApproval, w) > in.jump
<1>1. \A w : before(w) \in Nat /\ Sv!CutOf(in.atApproval, w) = before(w)
  BY DEF Sv!CutOf
<1>2. \A w : Sv!CutOf(in.now, w) = IF w \in DOMAIN in.now THEN in.now[w] ELSE 0
  BY DEF Sv!CutOf
<1> HIDE DEF before
<1>3. \A w : jumps(w) <=> w \in DOMAIN in.now /\ in.now[w] > in.jump + before(w)
  <2> SUFFICES ASSUME NEW w
               PROVE  jumps(w) <=>
                        w \in DOMAIN in.now /\ in.now[w] > in.jump + before(w)
    OBVIOUS
  <2>1. before(w) \in Nat /\ Sv!CutOf(in.atApproval, w) = before(w)
    BY <1>1
  <2>2. CASE w \in DOMAIN in.now
    BY <1>2, <2>1, <2>2
  <2>3. CASE w \notin DOMAIN in.now
    BY <1>2, <2>1, <2>3
  <2> QED
    BY <2>2, <2>3
<1>4. i \in Sv!Reverts(in.items, in.now, in.atApproval, in.jump)
        <=> \E w \in in.items[i] : jumps(w)
  BY DEF Sv!Reverts
<1> HIDE DEF jumps
<1>5. i \in Sv!Reverts(in.items, in.now, in.atApproval, in.jump) <=>
        \E w \in in.items[i] \cap DOMAIN in.now : in.now[w] > in.jump + before(w)
  BY <1>3, <1>4
<1> QED
  BY <1>5 DEF before

\* What the floor is to be: raised when less than 80 % of five evaluations or more
\* of HIGH recommendations came out as forecast or better, kept when more did.
FloorSound(in, floor) ==
  LET high == { n \in DOMAIN in.records : in.records[n].badge = "HIGH" }
      good == { n \in high : in.records[n].realised >= in.records[n].p10 }
      better == { n \in high : in.records[n].realised > in.records[n].p90 }
      raised == Sv!Lower(in.floor + 2, 99)
  IN  /\ floor \in {in.floor, raised}
      /\ Cardinality(high) < 5 => floor = in.floor
      /\ Cardinality(high) >= 5 =>
           /\ 5 * Cardinality(good) < 4 * Cardinality(high) => floor = raised
           /\ \/ 5 * Cardinality(good) > 4 * Cardinality(high)
              \/ /\ 5 * Cardinality(good) = 4 * Cardinality(high)
                 /\ better = {} \/ better = good
                => floor = in.floor

LEMMA CalibrationIsSound ==
  ASSUME NEW in, Len(in.records) \in Nat,
         DOMAIN in.records = 1 .. Len(in.records),
         \A n \in DOMAIN in.records :
           /\ {in.records[n].realised, in.records[n].p10, in.records[n].p90}
                \subseteq Int
           /\ in.records[n].p10 <= in.records[n].p90,
         NEW short \in BOOLEAN
  PROVE  FloorSound(in, Sv!Recalibrated(in.records, in.floor, short))
<1> DEFINE high == { n \in DOMAIN in.records : in.records[n].badge = "HIGH" }
           good == { n \in high : in.records[n].realised >= in.records[n].p10 }
           better == { n \in high : in.records[n].realised > in.records[n].p90 }
           in_band == { n \in high : Sv!OutcomeClass(in.records[n]) = "within band" }
           above == { n \in high : Sv!OutcomeClass(in.records[n]) = "better" }
           raised == Sv!Lower(in.floor + 2, 99)
           floor == Sv!Recalibrated(in.records, in.floor, short)
           t == Sv!HitRate(in.records)
<1>1. IsFiniteSet(high)
  <2>1. IsFiniteSet(1 .. Len(in.records))
    BY FS_Interval
  <2>2. high \subseteq 1 .. Len(in.records)
    OBVIOUS
  <2> HIDE DEF high
  <2> QED
    BY <2>1, <2>2, FS_Subset
<1>2. ASSUME NEW n \in high
      PROVE  /\ Sv!OutcomeClass(in.records[n]) = "better"
                  <=> in.records[n].realised > in.records[n].p90
             /\ Sv!OutcomeClass(in.records[n]) = "within band"
                  <=> /\ in.records[n].realised <= in.records[n].p90
                      /\ in.records[n].realised >= in.records[n].p10
  <2> DEFINE r == in.records[n]
  <2>1. r.realised \in Int /\ r.p10 \in Int /\ r.p90 \in Int
    OBVIOUS
  <2> HIDE DEF r
  <2>2. /\ Sv!OutcomeClass(r) = "better" <=> r.realised > r.p90
        /\ Sv!OutcomeClass(r) = "within band"
             <=> r.realised <= r.p90 /\ r.realised >= r.p10
    BY <2>1 DEF Sv!OutcomeClass
  <2> QED
    BY <2>2 DEF r
<1>3. good = in_band \cup above /\ in_band \cap above = {}
  <2>1. \A n \in high : n \in DOMAIN in.records
    OBVIOUS
  <2>2. \A n \in high : /\ in.records[n].realised \in Int
                        /\ in.records[n].p10 \in Int /\ in.records[n].p90 \in Int
                        /\ in.records[n].p10 <= in.records[n].p90
    BY <2>1
  <2> HIDE DEF high
  <2>3. \A n \in high : n \in good <=> n \in in_band \/ n \in above
    <3> SUFFICES ASSUME NEW n \in high
                 PROVE  n \in good <=> n \in in_band \/ n \in above
      OBVIOUS
    <3> DEFINE realised == in.records[n].realised
               p10 == in.records[n].p10
               p90 == in.records[n].p90
    <3>1. realised \in Int /\ p10 \in Int /\ p90 \in Int /\ p10 <= p90
      BY <2>2
    <3>2. /\ n \in above <=> realised > p90
          /\ n \in in_band <=> realised <= p90 /\ realised >= p10
          /\ n \in good <=> realised >= p10
      BY <1>2
    <3> HIDE DEF realised, p10, p90, good, in_band, above
    <3> QED
      BY <3>1, <3>2
  <2>4. \A n \in high : ~(n \in in_band /\ n \in above)
    OBVIOUS
  <2> QED
    BY <2>3, <2>4
<1>4. /\ in_band \subseteq high /\ above \subseteq high /\ good \subseteq high
      /\ above = better
  BY <1>2
<1>5. Sv!OfBadge(in.records, "HIGH") = high
  BY DEF Sv!OfBadge
<1>6. /\ Sv!Share(in.records, "HIGH", "within band") = Sv!Cardinality(in_band)
      /\ Sv!Share(in.records, "HIGH", "better") = Sv!Cardinality(above)
  BY <1>5 DEF Sv!Share
<1>7. \A S : Sv!Cardinality(S) = Cardinality(S)
  BY DEF Sv!Cardinality, Cardinality
<1> HIDE DEF high, good, better, in_band, above, raised
<1>8. /\ IsFiniteSet(in_band) /\ IsFiniteSet(above) /\ IsFiniteSet(good)
      /\ Cardinality(high) \in Nat
      /\ Cardinality(in_band) \in Nat /\ Cardinality(above) \in Nat
  BY <1>1, <1>4, FS_Subset, FS_CardinalityType
<1>9. Cardinality(good) = Cardinality(in_band) + Cardinality(above)
  <2>1. Cardinality(in_band \cup above)
          = Cardinality(in_band) + Cardinality(above) - Cardinality(in_band \cap above)
    BY <1>8, FS_Union
  <2>2. Cardinality(in_band \cap above) = 0
    BY <1>3, FS_EmptySet
  <2> QED
    BY <1>3, <1>8, <2>1, <2>2
<1>10. DOMAIN t = { x \in {"HIGH", "MEDIUM", "LOW"} : Sv!OfBadge(in.records, x) # {} }
  BY DEF Sv!HitRate
<1>11. CASE high = {}
  <2>1. Cardinality(high) = 0
    BY <1>11, FS_EmptySet
  <2>2. "HIGH" \notin DOMAIN t
    BY <1>5, <1>10, <1>11
  <2>3. floor = in.floor
    BY <2>2 DEF Sv!Recalibrated
  <2> HIDE DEF floor
  <2> QED
    BY <2>1, <2>3 DEF FloorSound, high, floor
<1>12. CASE high # {}
  <2>1. "HIGH" \in DOMAIN t
    BY <1>5, <1>10, <1>12
  <2>2. /\ t["HIGH"].n = Cardinality(high)
        /\ t["HIGH"].within = Cardinality(in_band)
        /\ t["HIGH"].better = Cardinality(above)
    BY <1>5, <1>6, <1>7, <2>1 DEF Sv!HitRate
  <2>3. Sv!Hits(t["HIGH"]) = Cardinality(good)
    BY <1>9, <2>2 DEF Sv!Hits
  <2> DEFINE falls == Sv!FallsShort(t["HIGH"], short)
             h == Cardinality(high)
             g == Cardinality(good)
             b == Cardinality(above)
  <2>4. floor = IF h >= 5 /\ falls THEN raised ELSE in.floor
    BY <2>1, <2>2 DEF Sv!Recalibrated, raised
  <2>5. falls <=> \/ 100 * g < 80 * h
                  \/ 100 * g = 80 * h /\ Cardinality(in_band) > 0 /\ b > 0 /\ short
    BY <2>2, <2>3 DEF Sv!FallsShort
  <2>6. better = {} => b = 0
    BY <1>4, FS_EmptySet
  <2>7. better = good => Cardinality(in_band) = 0
    <3>1. better = good => in_band = {}
      BY <1>3, <1>4
    <3> QED
      BY <3>1, FS_EmptySet
  <2>8. h \in Nat /\ g \in Nat /\ b \in Nat /\ Cardinality(in_band) \in Nat
    BY <1>8, <1>9
  <2> HIDE DEF falls, h, g, b, floor
  <2>9. /\ 5 * g < 4 * h => falls
        /\ 5 * g > 4 * h => ~falls
        /\ 5 * g = 4 * h /\ (better = {} \/ better = good) => ~falls
    BY <2>5, <2>6, <2>7, <2>8
  <2>10. /\ floor \in {in.floor, raised}
         /\ h < 5 => floor = in.floor
         /\ h >= 5 =>
              /\ 5 * g < 4 * h => floor = raised
              /\ \/ 5 * g > 4 * h
                 \/ 5 * g = 4 * h /\ (better = {} \/ better = good)
                   => floor = in.floor
    BY <2>4, <2>8, <2>9
  <2> QED
    BY <2>10, Zenon DEF FloorSound, high, good, better, raised, floor, h, g
<1> QED
  BY <1>11, <1>12

(***************************************************************************)
(* Evaluations are due on a day of the calendar and alerted from then on   *)
(* until they are done, suspicions are of bad data or of the reservoir,    *)
(* reverts are raised for jumps only, and the floor goes up for missed     *)
(* forecasts only - for any dates, fields and records (evaluation.py,      *)
(* 74-117; scheduler.py, 58-113; alerts.py, 111-130).                      *)
(***************************************************************************)
LEMMA EvaluationIsOnTime ==
  ASSUME AskedOK
  PROVE  EvaluationsOnTime
<1> DEFINE days == [y : Nat, m : 1 .. 12, d : 1 .. 31]
<1>1. ASSUME Answered("due")
      PROVE  /\ Sv!IsDate(result)
             /\ MonthsOf(result) = MonthsOf(input.at) + input.months
             /\ result.d <= input.at.d
             /\ result.d = input.at.d \/ input.at.d > 28
  <2>1. input \in Implemented /\ result = Sv!DueDate(input.at, input.months)
    BY <1>1 DEF AskedOK, Answered
  <2>2. input.at \in days /\ input.months \in Nat
    BY <2>1, DatesAssumption
  <2> QED
    BY <2>1, <2>2, DueIsSound
<1>2. ASSUME Answered("month")
      PROVE  /\ WellsOf(result.actions, "data") \cup WellsOf(result.actions, "reservoir")
                  = Sv!Outside(input)
             /\ WellsOf(result.actions, "data") \cap WellsOf(result.actions, "reservoir")
                  = {}
             /\ WellsOf(result.actions, "in band") # {} => Sv!Outside(input) = {}
             /\ result.draft =>
                  WellsOf(result.actions, "reservoir") # {} /\ input.shifted
             /\ \A a \in result.alerts : a.kind = "data_quality" =>
                  a.wells \subseteq input.changed
             /\ input.at # Sv!Never =>
                  \A m \in Sv!EvaluationMonths :
                    (\E a \in result.alerts : a.kind = "evaluation" /\ a.months = m)
                      <=> /\ m \notin input.done
                          /\ LET past == MonthsOf(input.today) - MonthsOf(input.at)
                             IN  \/ past > m
                                 \/ past = m /\ input.today.d
                                                  >= Sv!Lower(input.at.d, 28)
  <2>1. input \in Months /\ result = MonthAnswer
    BY <1>2 DEF AskedOK, Answered
  <2>2. input.today \in days /\ input.at \in days \cup {Sv!Never}
    BY <2>1, DatesAssumption
  <2>3. /\ result.actions = Sv!Rules(input)
        /\ result.alerts = Sv!FromActions(Sv!Rules(input))
        /\ result.draft = Sv!OpensDraft(input)
    BY <2>1, Zenon DEF MonthAnswer
  <2>4. MonthSound(input, result.actions, result.alerts, result.draft)
    BY <2>3, MonthIsSound
  <2>5. ASSUME input.at # Sv!Never, NEW m \in Sv!EvaluationMonths
        PROVE  m \in Sv!DueEvaluations(input.at, input.today, input.done)
                 <=> /\ m \notin input.done
                     /\ LET past == MonthsOf(input.today) - MonthsOf(input.at)
                        IN  \/ past > m
                            \/ past = m /\ input.today.d >= Sv!Lower(input.at.d, 28)
    <3>1. m \in Nat /\ input.at \in days
      BY <2>2, <2>5 DEF Sv!EvaluationMonths
    <3>2. m \in Sv!DueEvaluations(input.at, input.today, input.done)
            <=> m \notin input.done /\ Sv!NotBefore(input.today, Sv!DueDate(input.at, m))
      BY DEF Sv!DueEvaluations
    <3> QED
      BY <2>2, <3>1, <3>2, DueFromItsDay
  <2> HIDE DEF days
  <2> QED
    BY <2>4, <2>5, Zenon DEF MonthSound
<1>3. ASSUME Answered("revert"), NEW i \in DOMAIN input.items
      PROVE  i \in result <=>
               \E w \in input.items[i] \cap DOMAIN input.now :
                 input.now[w] > input.jump
                   + (IF w \in DOMAIN input.atApproval
                      THEN input.atApproval[w] ELSE 0)
  <2>1. /\ input \in Cuts
        /\ result = Sv!Reverts(input.items, input.now, input.atApproval, input.jump)
    BY <1>3 DEF AskedOK, Answered
  <2> QED
    BY <2>1, EvaluationsAssumption, RevertIsSound
<1>4. ASSUME Answered("calibrate") PROVE FloorSound(input, result)
  <2>1. input \in Records
    BY <1>4 DEF AskedOK, Answered
  <2>2. PICK short \in BOOLEAN :
          result = Sv!Recalibrated(input.records, input.floor, short)
    BY <1>4 DEF AskedOK, Answered
  <2>3. FloorSound(input, Sv!Recalibrated(input.records, input.floor, short))
    BY <2>1, EvaluationsAssumption, CalibrationIsSound
  <2> QED
    BY <2>2, <2>3
<1> QED
  BY <1>1, <1>2, <1>3, <1>4 DEF EvaluationsOnTime, WellsOf, FloorSound

THEOREM EvaluationsAreOnTime == PlanSpec => []EvaluationsOnTime
<1>1. AskedOK => EvaluationsOnTime
  BY EvaluationIsOnTime
<1> QED
  BY <1>1, AlwaysAskedWell, PTL

-----------------------------------------------------------------------------
(***************************************************************************)
(* The replay of the statements that were committed (db.py).               *)
(***************************************************************************)
Statements == [mode : Modes, key : Keys, of : Nat]

Tables == [Keys -> Nat]

NoRows == [k \in Keys |-> 0]

LEMMA EffectOnTables ==
  ASSUME NEW rows \in Tables, NEW s \in Statements
  PROVE  Effect(rows, s) \in Tables
  BY DEF Effect, Tables, Statements

\* The tables on the way, from none to that of the last statement.
IsReplay(way, s) ==
  /\ way[0] = NoRows
  /\ \A k \in 1 .. Len(s) : way[k] = Effect(way[k - 1], s[k])

LEMMA Replaying ==
  ASSUME NEW s \in Seq(Statements)
  PROVE  \E way : /\ IsReplay(way, s)
                  /\ FoldLeft(Effect, NoRows, s) = way[Len(s)]
                  /\ way[Len(s)] \in Tables
<1> DEFINE n == Len(s)
           F == [k \in 1 .. n |-> [rows \in Tables |-> Effect(rows, s[k])]]
           iter == CHOOSE h : h = [d \in SUBSET (1 .. n) |->
                     IF d = {} THEN NoRows
                     ELSE Effect(h[d \ {Max(d)}], s[Max(d)])]
<1>1. n \in Nat /\ DOMAIN s = 1 .. n /\ \A k \in 1 .. n : s[k] \in Statements
  OBVIOUS
<1> HIDE DEF n
<1>2. F \in [1 .. n -> [Tables -> Tables]]
  BY <1>1, EffectOnTables
<1>3. \A rows \in Tables, k \in 1 .. n : F[k][rows] = Effect(rows, s[k])
  OBVIOUS
<1>4. NoRows \in Tables
  BY DEF NoRows, Tables
<1> HIDE DEF F
<1>5. \A d \in SUBSET (1 .. n) : d # {} => Max(d) \in 1 .. n
  BY <1>1, LastOfAny
<1>6. \E h : h = [d \in SUBSET (1 .. n) |->
                    IF d = {} THEN NoRows
                    ELSE Effect(h[d \ {Max(d)}], s[Max(d)])]
  <2>1. PICK h \in [SUBSET (1 .. n) -> Tables] : IsFold(h, F, NoRows, n)
    BY <1>1, <1>2, <1>4, FoldExists DEF HasFold
  <2>2. ASSUME NEW d \in SUBSET (1 .. n), d # {}
        PROVE  h[d] = Effect(h[d \ {Max(d)}], s[Max(d)])
    <3>1. h[d] = F[Max(d)][h[d \ {Max(d)}]]
      BY <2>1, <2>2 DEF IsFold
    <3>2. Max(d) \in 1 .. n /\ h[d \ {Max(d)}] \in Tables
      BY <1>5, <2>2
    <3> QED
      BY <1>3, <3>1, <3>2
  <2>3. h[{}] = NoRows
    BY <2>1 DEF IsFold
  <2> QED
    BY <2>2, <2>3
<1>7. iter = [d \in SUBSET (1 .. n) |->
                IF d = {} THEN NoRows
                ELSE Effect(iter[d \ {Max(d)}], s[Max(d)])]
  BY <1>6
<1>8. FoldLeft(Effect, NoRows, s) = iter[1 .. n]
  BY <1>1 DEF FoldLeft, MapThenFoldSet
<1> HIDE DEF iter
<1>9. FoldsIn(iter, F, Tables, NoRows, n)
  <2>1. iter[{}] = NoRows
    BY <1>7
  <2>2. ASSUME NEW d \in SUBSET (1 .. n), d # {}, iter[d \ {Max(d)}] \in Tables
        PROVE  iter[d] = F[Max(d)][iter[d \ {Max(d)}]]
    <3>1. Max(d) \in 1 .. n
      BY <1>5, <2>2
    <3>2. iter[d] = Effect(iter[d \ {Max(d)}], s[Max(d)])
      BY <1>7, <2>2
    <3> QED
      BY <1>3, <2>2, <3>1, <3>2
  <2> QED
    BY <2>1, <2>2 DEF FoldsIn
<1>10. \A k \in 0 .. n :
         /\ iter[1 .. k] \in Tables
         /\ k = 0 => iter[1 .. k] = NoRows
         /\ k # 0 => iter[1 .. k] = F[k][iter[1 .. k - 1]]
  BY <1>1, <1>2, <1>4, <1>9, FoldGoesOn
<1> DEFINE way == [k \in 0 .. n |-> iter[1 .. k]]
<1>11. way[0] = NoRows /\ way[n] = iter[1 .. n] /\ way[n] \in Tables
  BY <1>1, <1>10
<1>12. ASSUME NEW k \in 1 .. n
       PROVE  way[k] = Effect(way[k - 1], s[k])
  <2>1. k \in 0 .. n /\ k - 1 \in 0 .. n /\ k # 0
    BY <1>1
  <2>2. iter[1 .. k] = F[k][iter[1 .. k - 1]] /\ iter[1 .. k - 1] \in Tables
    BY <1>10, <2>1
  <2> QED
    BY <1>3, <2>1, <2>2
<1>13. IsReplay(way, s)
  BY <1>11, <1>12 DEF IsReplay, n
<1> QED
  BY <1>8, <1>11, <1>13 DEF n

\* One statement more takes effect on the table there was.
LEMMA ReplayGoesOn ==
  ASSUME NEW s \in Seq(Statements), NEW e \in Statements
  PROVE  FoldLeft(Effect, NoRows, Append(s, e))
           = Effect(FoldLeft(Effect, NoRows, s), e)
<1> DEFINE n == Len(s)
           t == Append(s, e)
<1>1. /\ n \in Nat /\ t \in Seq(Statements) /\ Len(t) = n + 1
      /\ t[n + 1] = e
      /\ \A k \in 1 .. n : t[k] = s[k]
  OBVIOUS
<1>2. PICK v : IsReplay(v, s) /\ FoldLeft(Effect, NoRows, s) = v[n]
  BY Replaying
<1> HIDE DEF n, t
<1>3. PICK w : IsReplay(w, t) /\ FoldLeft(Effect, NoRows, t) = w[n + 1]
  BY <1>1, Replaying
<1>4. v[n] = w[n]
  <2> DEFINE T == { k \in Nat : k <= n => v[k] = w[k] }
  <2>1. 0 \in T
    BY <1>2, <1>3 DEF IsReplay
  <2>2. ASSUME NEW k \in Nat, k \in T PROVE k + 1 \in T
    <3> SUFFICES ASSUME k + 1 <= n PROVE v[k + 1] = w[k + 1]
      OBVIOUS
    <3>1. /\ k + 1 \in 1 .. n /\ k + 1 \in 1 .. n + 1 /\ (k + 1) - 1 = k
          /\ v[k] = w[k]
      BY <1>1, <2>2
    <3>2. v[k + 1] = Effect(v[k], s[k + 1])
      BY <1>2, <3>1 DEF IsReplay, n
    <3>3. w[k + 1] = Effect(w[k], t[k + 1])
      BY <1>1, <1>3, <3>1 DEF IsReplay
    <3> QED
      BY <1>1, <3>1, <3>2, <3>3
  <2> HIDE DEF T
  <2>3. Nat \subseteq T
    BY <2>1, <2>2, SetInduction
  <2> QED
    BY <1>1, <2>3 DEF T
<1>5. w[n + 1] = Effect(w[n], t[n + 1])
  <2>1. n + 1 \in 1 .. n + 1 /\ (n + 1) - 1 = n
    BY <1>1
  <2> QED
    BY <1>1, <1>3, <2>1 DEF IsReplay
<1>6. FoldLeft(Effect, NoRows, t) = Effect(v[n], e)
  BY <1>1, <1>3, <1>4, <1>5
<1> QED
  BY <1>2, <1>6, Zenon DEF t


(***************************************************************************)
(* The inductive invariant of the database: the table is the replay, and   *)
(* what is pending on a connection is the one statement of the unit that   *)
(* is open on it.                                                          *)
(***************************************************************************)
Pending == {<<>>} \cup { <<e>> : e \in Statements }

DatabaseOK ==
  /\ committed \in Seq(Statements)
  /\ conn \in [Handlers -> {"none", "open", "broken"}]
  /\ pending \in [Handlers -> Pending]
  /\ unit \in [Handlers -> [at : {"over", "begun", "written", "raised"}, n : Nat]]
  /\ units \in Nat

\* Nothing is left between two units and before a statement, and a statement that
\* was executed is there until the connection breaks.
PendingIsOwn ==
  \A t \in Handlers :
    /\ unit[t].at \in {"over", "begun"} => pending[t] = <<>>
    /\ unit[t].at = "written" /\ conn[t] = "open" => pending[t] # <<>>
    /\ pending[t] # <<>> => pending[t][1].of = unit[t].n

CommittedAreEnded ==
  /\ succeeded \subseteq UnitsOf(committed)
  /\ UnitsOf(committed) \subseteq succeeded \cup interrupted

DatabaseInv ==
  /\ DatabaseOK
  /\ PendingIsOwn
  /\ table = Replayed
  /\ CommittedAreEnded

\* What PostgreSQL does with the translation is what SQLite does.
LEMMA RunIsEffect ==
  ASSUME NEW rows, NEW s \in Statements
  PROVE  Run(rows, s) = Effect(rows, s)
  BY DEF Run, Executed, Translate, Effect, Statements, Modes

\* What is pending is run on the table: nothing, or the one statement.
LEMMA RunNothing ==
  ASSUME NEW rows
  PROVE  FoldLeft(Run, rows, <<>>) = rows
<1> DEFINE s == <<>>
           iter == CHOOSE h : h = [d \in SUBSET {} |->
                     IF d = {} THEN rows
                     ELSE Run(h[d \ {Max(d)}], s[Max(d)])]
<1>1. DOMAIN s = {}
  OBVIOUS
<1>2. FoldLeft(Run, rows, s) = iter[{}]
  BY <1>1 DEF FoldLeft, MapThenFoldSet
<1>3. \E h : h = [d \in SUBSET {} |->
                    IF d = {} THEN rows
                    ELSE Run(h[d \ {Max(d)}], s[Max(d)])]
  <2> DEFINE h == [d \in SUBSET {} |-> rows]
  <2>1. h = [d \in SUBSET {} |->
               IF d = {} THEN rows ELSE Run(h[d \ {Max(d)}], s[Max(d)])]
    BY Zenon
  <2> QED
    BY <2>1
<1>4. iter = [d \in SUBSET {} |->
                IF d = {} THEN rows
                ELSE Run(iter[d \ {Max(d)}], s[Max(d)])]
  BY <1>3
<1> HIDE DEF iter, s
<1>5. iter[{}] = rows
  BY <1>4
<1> QED
  BY <1>2, <1>5 DEF s

LEMMA RunOne ==
  ASSUME NEW rows, NEW e
  PROVE  FoldLeft(Run, rows, <<e>>) = Run(rows, e)
<1> DEFINE s == <<e>>
           iter == CHOOSE h : h = [d \in SUBSET {1} |->
                     IF d = {} THEN rows
                     ELSE Run(h[d \ {Max(d)}], s[Max(d)])]
<1>1. DOMAIN s = {1} /\ s[1] = e
  OBVIOUS
<1>2. Max({1}) = 1
  BY DEF Max
<1>3. FoldLeft(Run, rows, s) = iter[{1}]
  BY <1>1 DEF FoldLeft, MapThenFoldSet
<1> HIDE DEF s
<1>4. \E h : h = [d \in SUBSET {1} |->
                    IF d = {} THEN rows
                    ELSE Run(h[d \ {Max(d)}], s[Max(d)])]
  <2> DEFINE h == [d \in SUBSET {1} |->
                     IF d = {} THEN rows ELSE Run(rows, s[1])]
  <2>1. ASSUME NEW d \in SUBSET {1}, d # {}
        PROVE  d = {1} /\ d \ {Max(d)} = {}
    <3>1. d = {1}
      BY <2>1
    <3> QED
      BY <1>2, <3>1
  <2>2. h[{}] = rows
    OBVIOUS
  <2>3. ASSUME NEW d \in SUBSET {1}
        PROVE  (IF d = {} THEN rows ELSE Run(rows, s[1]))
                 = IF d = {} THEN rows
                   ELSE Run(h[d \ {Max(d)}], s[Max(d)])
    <3>1. CASE d = {}
      BY <3>1
    <3>2. CASE d # {}
      <4>1. h[d \ {Max(d)}] = rows /\ s[Max(d)] = s[1]
        BY <1>2, <2>1, <2>2, <3>2
      <4> QED
        BY <3>2, <4>1, Zenon
    <3> QED
      BY <3>1, <3>2
  <2>4. h = [d \in SUBSET {1} |->
               IF d = {} THEN rows ELSE Run(h[d \ {Max(d)}], s[Max(d)])]
    BY <2>3, Zenon
  <2> QED
    BY <2>4
<1>5. iter = [d \in SUBSET {1} |->
                IF d = {} THEN rows
                ELSE Run(iter[d \ {Max(d)}], s[Max(d)])]
  BY <1>4
<1> HIDE DEF iter
<1>6. iter[{}] = rows
  BY <1>5
<1>7. iter[{1}] = Run(iter[{1} \ {Max({1})}], s[Max({1})])
  BY <1>5, Zenon
<1>8. {1} \ {Max({1})} = {}
  BY <1>2
<1>9. iter[{1}] = Run(rows, e)
  BY <1>1, <1>2, <1>6, <1>7, <1>8, Zenon
<1> QED
  BY <1>3, <1>9 DEF s

LEMMA UnitsOfAppend ==
  ASSUME NEW s \in Seq(Statements), NEW e \in Statements
  PROVE  UnitsOf(Append(s, e)) = UnitsOf(s) \cup {e.of}
<1>1. /\ DOMAIN Append(s, e) = DOMAIN s \cup {Len(s) + 1}
      /\ Append(s, e)[Len(s) + 1] = e
      /\ \A k \in DOMAIN s : Append(s, e)[k] = s[k]
  OBVIOUS
<1>2. Range(Append(s, e)) = Range(s) \cup {e}
  BY <1>1 DEF Range
<1> QED
  BY <1>2 DEF UnitsOf

\* A commit adds the statement that is pending, if there is one, to both.
LEMMA CommittingKeeps ==
  ASSUME DatabaseInv, NEW t \in Handlers, Committing(t)
  PROVE  /\ committed' \in Seq(Statements)
         /\ pending' = [pending EXCEPT ![t] = <<>>]
         /\ pending' \in [Handlers -> Pending]
         /\ table' = Replayed'
         /\ \/ pending[t] = <<>> /\ UnitsOf(committed') = UnitsOf(committed)
            \/ /\ pending[t] # <<>>
               /\ UnitsOf(committed') = UnitsOf(committed) \cup {unit[t].n}
<1>1. /\ pending' = [pending EXCEPT ![t] = <<>>]
      /\ pending' \in [Handlers -> Pending]
  BY DEF Committing, DatabaseInv, DatabaseOK, Pending
<1>2. CASE pending[t] = <<>>
  <2>1. committed' = committed
    BY <1>2 DEF Committing, DatabaseInv, DatabaseOK
  <2>2. table' = table
    BY <1>2, RunNothing, Zenon DEF Committing
  <2>3. table' = Replayed'
    BY <2>1, <2>2, Zenon DEF DatabaseInv, Replayed
  <2> QED
    BY <1>1, <1>2, <2>1, <2>3 DEF DatabaseInv, DatabaseOK
<1>3. CASE pending[t] # <<>>
  <2>1. PICK e \in Statements : pending[t] = <<e>>
    BY <1>3 DEF DatabaseInv, DatabaseOK, Pending
  <2>2. committed \in Seq(Statements)
    BY DEF DatabaseInv, DatabaseOK
  <2>3. committed' = Append(committed, e)
    <3>1. committed' = committed \o <<e>>
      BY <2>1 DEF Committing
    <3> QED
      BY <2>2, <3>1
  <2>4. e.of = unit[t].n
    BY <1>3, <2>1 DEF DatabaseInv, PendingIsOwn
  <2>5. table' = Effect(table, e)
    <3>1. table' = FoldLeft(Run, table, <<e>>)
      BY <2>1, Zenon DEF Committing
    <3>2. FoldLeft(Run, table, <<e>>) = Run(table, e)
      BY RunOne, Zenon
    <3>3. Run(table, e) = Effect(table, e)
      BY RunIsEffect
    <3> QED
      BY <3>1, <3>2, <3>3, Zenon
  <2>6. table' = Replayed'
    <3>1. FoldLeft(Effect, NoRows, Append(committed, e))
            = Effect(FoldLeft(Effect, NoRows, committed), e)
      BY <2>2, ReplayGoesOn
    <3> QED
      BY <2>3, <2>5, <3>1, Zenon DEF DatabaseInv, Replayed, NoRows
  <2>7. committed' \in Seq(Statements)
    BY <2>2, <2>3
  <2>8. UnitsOf(committed') = UnitsOf(committed) \cup {e.of}
    BY <2>2, <2>3, UnitsOfAppend
  <2> QED
    BY <1>1, <1>3, <2>4, <2>6, <2>7, <2>8
<1> QED
  BY <1>2, <1>3

LEMMA DatabaseInvInit == DatabaseInit => DatabaseInv
<1> SUFFICES ASSUME DatabaseInit PROVE DatabaseInv
  OBVIOUS
<1>1. DatabaseOK
  BY DEF DatabaseInit, DatabaseOK, Pending
<1>2. FoldLeft(Effect, NoRows, <<>>) = NoRows
  <2>1. <<>> \in Seq(Statements) /\ Len(<<>>) = 0
    OBVIOUS
  <2> QED
    BY <2>1, Replaying DEF IsReplay
<1>3. table = Replayed
  BY <1>2, Zenon DEF DatabaseInit, Replayed, NoRows
<1>4. PendingIsOwn
  BY DEF DatabaseInit, PendingIsOwn
<1>5. CommittedAreEnded
  BY DEF DatabaseInit, CommittedAreEnded, UnitsOf, Range
<1> QED
  BY <1>1, <1>3, <1>4, <1>5 DEF DatabaseInv

\* A unit that wrote and ends well has its statement to commit, and a unit that did
\* not write has none.
LEMMA CommitKeeps ==
  ASSUME DatabaseInv, NEW t \in Handlers, Commit(t)
  PROVE  DatabaseInv'
<1>1. Committing(t)
  BY DEF Commit
<1>2. DatabaseOK'
  BY <1>1, CommittingKeeps DEF Commit, DatabaseInv, DatabaseOK
<1>3. table' = Replayed'
  BY <1>1, CommittingKeeps
<1>4. PendingIsOwn'
  BY <1>1, CommittingKeeps
     DEF Commit, DatabaseInv, DatabaseOK, PendingIsOwn
<1>5. CommittedAreEnded'
  <2>1. unit[t].at = "written" <=> pending[t] # <<>>
    BY DEF Commit, DatabaseInv, PendingIsOwn
  <2>2. succeeded' = IF unit[t].at = "written"
                     THEN succeeded \cup {unit[t].n} ELSE succeeded
    BY DEF Commit
  <2>3. interrupted' = interrupted
    BY DEF Commit
  <2>4. \/ pending[t] = <<>> /\ UnitsOf(committed') = UnitsOf(committed)
        \/ /\ pending[t] # <<>>
           /\ UnitsOf(committed') = UnitsOf(committed) \cup {unit[t].n}
    BY <1>1, CommittingKeeps
  <2> QED
    BY <2>1, <2>2, <2>3, <2>4 DEF DatabaseInv, CommittedAreEnded
<1> QED
  BY <1>2, <1>3, <1>4, <1>5 DEF DatabaseInv

LEMMA BreakInCommitKeeps ==
  ASSUME DatabaseInv, NEW t \in Handlers, BreakInCommit(t)
  PROVE  DatabaseInv'
<1>1. Committing(t)
  BY DEF BreakInCommit
<1>2. DatabaseOK'
  BY <1>1, CommittingKeeps DEF BreakInCommit, DatabaseInv, DatabaseOK
<1>3. table' = Replayed'
  BY <1>1, CommittingKeeps
<1>4. PendingIsOwn'
  BY <1>1, CommittingKeeps
     DEF BreakInCommit, DatabaseInv, DatabaseOK, PendingIsOwn
<1>5. CommittedAreEnded'
  <2>1. /\ succeeded' = succeeded
        /\ interrupted' = interrupted \cup {unit[t].n}
    BY DEF BreakInCommit
  <2>2. \/ UnitsOf(committed') = UnitsOf(committed)
        \/ UnitsOf(committed') = UnitsOf(committed) \cup {unit[t].n}
    BY <1>1, CommittingKeeps
  <2> QED
    BY <2>1, <2>2 DEF DatabaseInv, CommittedAreEnded
<1> QED
  BY <1>2, <1>3, <1>4, <1>5 DEF DatabaseInv

\* All other steps leave the table, the statements and the successes alone.
LEMMA OthersKeep ==
  ASSUME DatabaseInv,
         UNCHANGED <<table, committed, succeeded, interrupted>>,
         DatabaseOK', PendingIsOwn'
  PROVE  DatabaseInv'
<1>1. table' = Replayed'
  BY Zenon DEF DatabaseInv, Replayed
<1>2. CommittedAreEnded'
  BY DEF DatabaseInv, CommittedAreEnded
<1> QED
  BY <1>1, <1>2 DEF DatabaseInv

\* A statement is executed by a unit that has none pending.
LEMMA ExecuteKeeps ==
  ASSUME DatabaseInv, NEW t \in Handlers, NEW mode \in Modes, NEW key \in Keys,
         Execute(t, mode, key)
  PROVE  DatabaseInv'
<1> DEFINE s == [mode |-> mode, key |-> key, of |-> unit[t].n]
           clash == mode = "insert" /\ table[key] # 0
<1>1. s \in Statements /\ s.of = unit[t].n
  BY DEF Statements, DatabaseInv, DatabaseOK
<1>2. pending[t] = <<>> /\ unit[t].at = "begun" /\ pending \in [Handlers -> Pending]
  BY DEF Execute, DatabaseInv, DatabaseOK, PendingIsOwn
<1>3. /\ pending' = [pending EXCEPT ![t] =
                       IF ~clash THEN Append(@, s)
                       ELSE IF postgres THEN <<>> ELSE @]
      /\ unit' = [unit EXCEPT ![t].at = IF clash THEN "raised" ELSE "written"]
      /\ UNCHANGED <<table, conn, units, committed, succeeded, interrupted>>
  BY DEF Execute
<1> HIDE DEF s, clash
<1>4. pending' = [pending EXCEPT ![t] = IF clash THEN <<>> ELSE <<s>>]
  <2>1. Append(<<>>, s) = <<s>>
    OBVIOUS
  <2>2. (IF ~clash THEN Append(pending[t], s)
         ELSE IF postgres THEN <<>> ELSE pending[t])
          = IF clash THEN <<>> ELSE <<s>>
    BY <1>2, <2>1, Zenon
  <2> QED
    BY <1>3, <2>2, Zenon
<1>5. pending' \in [Handlers -> Pending]
  BY <1>1, <1>2, <1>4 DEF Pending
<1>6. DatabaseOK'
  BY <1>3, <1>5 DEF DatabaseInv, DatabaseOK
<1>7. PendingIsOwn'
  <2> SUFFICES ASSUME NEW u \in Handlers
               PROVE  /\ unit'[u].at \in {"over", "begun"} => pending'[u] = <<>>
                      /\ unit'[u].at = "written" /\ conn'[u] = "open"
                           => pending'[u] # <<>>
                      /\ pending'[u] # <<>> => pending'[u][1].of = unit'[u].n
    BY DEF PendingIsOwn
  <2>1. CASE u = t
    <3>1. /\ unit'[t].at = IF clash THEN "raised" ELSE "written"
          /\ unit'[t].n = unit[t].n
      BY <1>3 DEF DatabaseInv, DatabaseOK
    <3>2. pending'[t] = IF clash THEN <<>> ELSE <<s>>
      BY <1>2, <1>4
    <3> QED
      BY <1>1, <2>1, <3>1, <3>2
  <2>2. CASE u # t
    <3>1. unit'[u] = unit[u] /\ pending'[u] = pending[u] /\ conn'[u] = conn[u]
      BY <1>2, <1>3, <1>4, <2>2 DEF DatabaseInv, DatabaseOK
    <3> QED
      BY <3>1 DEF DatabaseInv, PendingIsOwn
  <2> QED
    BY <2>1, <2>2
<1> QED
  BY <1>3, <1>6, <1>7, OthersKeep

LEMMA DatabaseInvStep ==
  DatabaseInv /\ [DatabaseNext]_databaseVars => DatabaseInv'
<1> SUFFICES ASSUME DatabaseInv, [DatabaseNext]_databaseVars
             PROVE  DatabaseInv'
  OBVIOUS
<1> USE DEF DatabaseInv, DatabaseOK, PendingIsOwn, Pending
<1>1. ASSUME NEW t \in Handlers, Connect(t) PROVE DatabaseInv'
  <2>1. DatabaseOK' /\ PendingIsOwn'
    BY <1>1 DEF Connect
  <2> QED
    BY <1>1, <2>1, OthersKeep DEF Connect
<1>2. ASSUME NEW t \in Handlers, Raise(t) PROVE DatabaseInv'
  <2>1. DatabaseOK' /\ PendingIsOwn'
    BY <1>2 DEF Raise
  <2> QED
    BY <1>2, <2>1, OthersKeep DEF Raise
<1>3. ASSUME NEW t \in Handlers, Rollback(t) PROVE DatabaseInv'
  <2>1. DatabaseOK' /\ PendingIsOwn'
    BY <1>3 DEF Rollback
  <2> QED
    BY <1>3, <2>1, OthersKeep DEF Rollback
<1>4. ASSUME NEW t \in Handlers, Break(t) PROVE DatabaseInv'
  <2>1. DatabaseOK' /\ PendingIsOwn'
    BY <1>4 DEF Break
  <2> QED
    BY <1>4, <2>1, OthersKeep DEF Break
<1>5. CASE UNCHANGED databaseVars
  <2>1. DatabaseOK' /\ PendingIsOwn'
    BY <1>5 DEF databaseVars
  <2> QED
    BY <1>5, <2>1, OthersKeep DEF databaseVars
<1> QED
  BY <1>1, <1>2, <1>3, <1>4, <1>5, ExecuteKeeps, CommitKeeps, BreakInCommitKeeps
     DEF DatabaseNext

(***************************************************************************)
(* With either database, for any threads, keys, units and breaks: the      *)
(* table is what SQLite makes of the statements that were committed, one   *)
(* after the other; every unit that wrote and ended without an exception   *)
(* is among them, and no other but those whose commit was cut off          *)
(* (UnitsAtomic, of db.py, 15-16).                                         *)
(***************************************************************************)
THEOREM DatabaseIsAtomic == DatabaseSpec => []UnitsAtomic
<1>1. DatabaseInv => UnitsAtomic
  BY DEF DatabaseInv, CommittedAreEnded, UnitsAtomic
<1> QED
  BY <1>1, DatabaseInvInit, DatabaseInvStep, PTL DEF DatabaseSpec

-----------------------------------------------------------------------------
(***************************************************************************)
(* The merge of settings (config.py, 61-66).                               *)
(***************************************************************************)
Paths(c) == DOMAIN c

PrefixFree(c) == \A p, q \in Paths(c) : p # q => ~Meet(p, q)

\* The configurations over the keys K.
IsConfig(c, K) == Paths(c) \subseteq Seq(K) /\ PrefixFree(c)

LEMMA MergedPaths ==
  ASSUME NEW a, NEW b
  PROVE  /\ Paths(DeepUpdate(a, b)) =
              { p \in Paths(a) : \A u \in Paths(b) : ~Meet(p, u) } \cup Paths(b)
         /\ \A p \in Paths(DeepUpdate(a, b)) :
              DeepUpdate(a, b)[p] =
                IF p \in Paths(a) /\ \A u \in Paths(b) : ~Meet(p, u)
                THEN a[p] ELSE b[p]
  BY DEF DeepUpdate, Paths

\* Nobody's value has a section under it after a merge either.
THEOREM MergeIsConfig ==
  ASSUME NEW K, NEW a, NEW b, IsConfig(a, K), IsConfig(b, K)
  PROVE  IsConfig(DeepUpdate(a, b), K)
<1> DEFINE c == DeepUpdate(a, b)
<1>1. Paths(c) \subseteq Seq(K)
  BY MergedPaths DEF IsConfig
<1>2. PrefixFree(c)
  <2> SUFFICES ASSUME NEW p \in Paths(c), NEW q \in Paths(c), p # q
               PROVE  ~Meet(p, q)
    BY DEF PrefixFree
  <2>1. Meet(p, q) <=> Meet(q, p)
    BY DEF Meet
  <2> QED
    BY <2>1, MergedPaths DEF IsConfig, PrefixFree
<1> QED
  BY <1>1, <1>2 DEF IsConfig

(***************************************************************************)
(* Paths that go on from one another.                                      *)
(***************************************************************************)
LEMMA PrefixPointwise ==
  ASSUME NEW K, NEW s \in Seq(K), NEW t \in Seq(K)
  PROVE  IsPrefix(s, t) <=>
           Len(s) <= Len(t) /\ \A i \in 1 .. Len(s) : s[i] = t[i]
<1> SUFFICES ASSUME Len(s) <= Len(t)
             PROVE  SubSeq(s, 1, Len(s)) = SubSeq(t, 1, Len(s))
                      <=> \A i \in 1 .. Len(s) : s[i] = t[i]
  BY DEF IsPrefix
<1> DEFINE a == SubSeq(s, 1, Len(s))
           b == SubSeq(t, 1, Len(s))
<1>1. /\ a = [i \in 1 .. Len(s) |-> s[i]]
      /\ b = [i \in 1 .. Len(s) |-> t[i]]
  OBVIOUS
<1> HIDE DEF a, b
<1>2. a = b <=> \A i \in 1 .. Len(s) : s[i] = t[i]
  BY <1>1
<1> QED
  BY <1>2 DEF a, b

LEMMA PrefixesMeet ==
  ASSUME NEW K, NEW p \in Seq(K), NEW q \in Seq(K), NEW u \in Seq(K),
         IsPrefix(u, q), Meet(p, q)
  PROVE  Meet(p, u)
<1>1. Len(p) \in Nat /\ Len(q) \in Nat /\ Len(u) \in Nat
  OBVIOUS
<1>2. Len(u) <= Len(q) /\ \A i \in 1 .. Len(u) : u[i] = q[i]
  BY PrefixPointwise
<1>3. CASE IsPrefix(q, p)
  <2>1. Len(q) <= Len(p) /\ \A i \in 1 .. Len(q) : q[i] = p[i]
    BY <1>3, PrefixPointwise
  <2>2. Len(u) <= Len(p) /\ \A i \in 1 .. Len(u) : u[i] = p[i]
    BY <1>1, <1>2, <2>1
  <2> QED
    BY <2>2, PrefixPointwise DEF Meet
<1>4. CASE IsPrefix(p, q)
  <2>1. Len(p) <= Len(q) /\ \A i \in 1 .. Len(p) : p[i] = q[i]
    BY <1>4, PrefixPointwise
  <2>2. CASE Len(p) <= Len(u)
    <3>1. \A i \in 1 .. Len(p) : p[i] = u[i]
      BY <1>1, <1>2, <2>1, <2>2
    <3> QED
      BY <2>2, <3>1, PrefixPointwise DEF Meet
  <2>3. CASE Len(u) <= Len(p)
    <3>1. \A i \in 1 .. Len(u) : u[i] = p[i]
      BY <1>1, <1>2, <2>1, <2>3
    <3> QED
      BY <2>3, <3>1, PrefixPointwise DEF Meet
  <2> QED
    BY <1>1, <2>2, <2>3
<1> QED
  BY <1>3, <1>4 DEF Meet

(***************************************************************************)
(* Patches that are merged with each other when they are made              *)
(* (service.py, 1098-1113) and then over the configuration come to what    *)
(* they would have been one after the other over it - unless a later one   *)
(* opens a section where an earlier one had put a value.                   *)
(***************************************************************************)
THEOREM PatchesMayBeMergedFirst ==
  ASSUME NEW K, NEW a, NEW b, NEW c,
         IsConfig(a, K), IsConfig(b, K), IsConfig(c, K),
         \A q \in Paths(b), u \in Paths(c) : Meet(q, u) => IsPrefix(u, q)
  PROVE  DeepUpdate(a, DeepUpdate(b, c)) = DeepUpdate(DeepUpdate(a, b), c)
<1> DEFINE bc == DeepUpdate(b, c)
           ab == DeepUpdate(a, b)
           first == DeepUpdate(a, bc)
           inTurn == DeepUpdate(ab, c)
           Apart(p, x) == \A u \in Paths(x) : ~Meet(p, u)
<1>1. ASSUME NEW p \in Paths(a), Apart(p, c)
      PROVE  Apart(p, bc) <=> Apart(p, b)
  <2>1. Paths(bc) = { q \in Paths(b) : Apart(q, c) } \cup Paths(c)
    BY MergedPaths
  <2>2. ASSUME NEW q \in Paths(b), Meet(p, q)
        PROVE  Apart(q, c)
    <3> SUFFICES ASSUME NEW u \in Paths(c), Meet(q, u) PROVE FALSE
      OBVIOUS
    <3>1. IsPrefix(u, q)
      OBVIOUS
    <3>2. p \in Seq(K) /\ q \in Seq(K) /\ u \in Seq(K)
      BY DEF IsConfig
    <3>3. Meet(p, u)
      BY <2>2, <3>1, <3>2, PrefixesMeet
    <3> QED
      BY <1>1, <3>3
  <2> QED
    BY <1>1, <2>1, <2>2
<1>2. Paths(first) = { p \in Paths(a) : Apart(p, bc) } \cup Paths(bc)
  BY MergedPaths
<1>3. Paths(inTurn) = { p \in Paths(ab) : Apart(p, c) } \cup Paths(c)
  BY MergedPaths
<1>4. /\ Paths(bc) = { q \in Paths(b) : Apart(q, c) } \cup Paths(c)
      /\ Paths(ab) = { p \in Paths(a) : Apart(p, b) } \cup Paths(b)
  BY MergedPaths
<1>5. Paths(first) = Paths(inTurn)
  BY <1>1, <1>2, <1>3, <1>4
<1>6. ASSUME NEW p \in Paths(first) PROVE first[p] = inTurn[p]
  <2>1. first[p] = IF p \in Paths(a) /\ Apart(p, bc) THEN a[p] ELSE bc[p]
    BY MergedPaths
  <2>2. p \in Paths(bc) =>
          bc[p] = IF p \in Paths(b) /\ Apart(p, c) THEN b[p] ELSE c[p]
    BY MergedPaths
  <2>3. inTurn[p] = IF p \in Paths(ab) /\ Apart(p, c) THEN ab[p] ELSE c[p]
    BY <1>5, MergedPaths
  <2>4. p \in Paths(ab) =>
          ab[p] = IF p \in Paths(a) /\ Apart(p, b) THEN a[p] ELSE b[p]
    BY MergedPaths
  <2> QED
    BY <1>1, <1>2, <1>4, <2>1, <2>2, <2>3, <2>4
<1>7. /\ first = [p \in Paths(first) |-> first[p]]
      /\ inTurn = [p \in Paths(inTurn) |-> inTurn[p]]
  BY DEF DeepUpdate, Paths
<1> HIDE DEF first, inTurn
<1>8. first = inTurn
  BY <1>5, <1>6, <1>7
<1> QED
  BY <1>8 DEF first, inTurn
-----------------------------------------------------------------------------
(***************************************************************************)
(* Configurations merged one after the other.                              *)
(***************************************************************************)
\* The configurations over the keys K with values of V.
Configs(K, V) ==
  { c \in UNION { [S -> V] : S \in SUBSET Seq(K) } : PrefixFree(c) }

LEMMA ConfigsAre ==
  ASSUME NEW K, NEW V, NEW c \in Configs(K, V)
  PROVE  IsConfig(c, K) /\ c \in [Paths(c) -> V]
  BY DEF Configs, IsConfig, Paths

LEMMA MergedInConfigs ==
  ASSUME NEW K, NEW V, NEW a \in Configs(K, V), NEW b \in Configs(K, V)
  PROVE  DeepUpdate(a, b) \in Configs(K, V)
<1> DEFINE c == DeepUpdate(a, b)
<1>1. /\ IsConfig(a, K) /\ a \in [Paths(a) -> V]
      /\ IsConfig(b, K) /\ b \in [Paths(b) -> V]
  BY ConfigsAre
<1>2. IsConfig(c, K)
  BY <1>1, MergeIsConfig
<1>3. c = [p \in Paths(c) |-> c[p]]
  BY DEF DeepUpdate, Paths
<1>4. ASSUME NEW p \in Paths(c) PROVE c[p] \in V
  BY <1>1, <1>4, MergedPaths
<1> HIDE DEF c
<1>5. c \in [Paths(c) -> V]
  BY <1>3, <1>4
<1> QED
  BY <1>2, <1>5 DEF Configs, IsConfig, c

\* The configurations on the way, from a to that with the last of s over it.
IsLayering(way, a, s) ==
  /\ way[0] = a
  /\ \A k \in 1 .. Len(s) : way[k] = DeepUpdate(way[k - 1], s[k])

LEMMA Layering ==
  ASSUME NEW K, NEW V, NEW a \in Configs(K, V), NEW s \in Seq(Configs(K, V))
  PROVE  \E way : /\ IsLayering(way, a, s)
                  /\ FoldLeft(DeepUpdate, a, s) = way[Len(s)]
                  /\ \A k \in 0 .. Len(s) : way[k] \in Configs(K, V)
<1> DEFINE n == Len(s)
           C == Configs(K, V)
           F == [k \in 1 .. n |-> [c \in C |-> DeepUpdate(c, s[k])]]
           iter == CHOOSE h : h = [d \in SUBSET (1 .. n) |->
                     IF d = {} THEN a
                     ELSE DeepUpdate(h[d \ {Max(d)}], s[Max(d)])]
<1>1. n \in Nat /\ DOMAIN s = 1 .. n /\ \A k \in 1 .. n : s[k] \in C
  OBVIOUS
<1> HIDE DEF n
<1>2. \A c \in C, k \in 1 .. n : DeepUpdate(c, s[k]) \in C
  BY <1>1, MergedInConfigs
<1>3. a \in C
  OBVIOUS
<1> HIDE DEF C
<1>4. F \in [1 .. n -> [C -> C]]
  BY <1>2
<1>5. \A c \in C, k \in 1 .. n : F[k][c] = DeepUpdate(c, s[k])
  OBVIOUS
<1> HIDE DEF F
<1>6. \A d \in SUBSET (1 .. n) : d # {} => Max(d) \in 1 .. n
  BY <1>1, LastOfAny
<1>7. \E h : h = [d \in SUBSET (1 .. n) |->
                    IF d = {} THEN a
                    ELSE DeepUpdate(h[d \ {Max(d)}], s[Max(d)])]
  <2>1. PICK h \in [SUBSET (1 .. n) -> C] : IsFold(h, F, a, n)
    BY <1>1, <1>3, <1>4, FoldExists DEF HasFold
  <2>2. ASSUME NEW d \in SUBSET (1 .. n), d # {}
        PROVE  h[d] = DeepUpdate(h[d \ {Max(d)}], s[Max(d)])
    <3>1. h[d] = F[Max(d)][h[d \ {Max(d)}]]
      BY <2>1, <2>2 DEF IsFold
    <3>2. Max(d) \in 1 .. n /\ h[d \ {Max(d)}] \in C
      BY <1>6, <2>2
    <3> QED
      BY <1>5, <3>1, <3>2
  <2>3. h[{}] = a
    BY <2>1 DEF IsFold
  <2> QED
    BY <2>2, <2>3
<1>8. iter = [d \in SUBSET (1 .. n) |->
                IF d = {} THEN a
                ELSE DeepUpdate(iter[d \ {Max(d)}], s[Max(d)])]
  BY <1>7
<1>9. FoldLeft(DeepUpdate, a, s) = iter[1 .. n]
  BY <1>1 DEF FoldLeft, MapThenFoldSet
<1> HIDE DEF iter
<1>10. FoldsIn(iter, F, C, a, n)
  <2>1. iter[{}] = a
    BY <1>8
  <2>2. ASSUME NEW d \in SUBSET (1 .. n), d # {}, iter[d \ {Max(d)}] \in C
        PROVE  iter[d] = F[Max(d)][iter[d \ {Max(d)}]]
    <3>1. Max(d) \in 1 .. n
      BY <1>6, <2>2
    <3>2. iter[d] = DeepUpdate(iter[d \ {Max(d)}], s[Max(d)])
      BY <1>8, <2>2
    <3> QED
      BY <1>5, <2>2, <3>1, <3>2
  <2> QED
    BY <2>1, <2>2 DEF FoldsIn
<1>11. \A k \in 0 .. n :
         /\ iter[1 .. k] \in C
         /\ k = 0 => iter[1 .. k] = a
         /\ k # 0 => iter[1 .. k] = F[k][iter[1 .. k - 1]]
  BY <1>1, <1>3, <1>4, <1>10, FoldGoesOn
<1> DEFINE way == [k \in 0 .. n |-> iter[1 .. k]]
<1>12. way[0] = a /\ way[n] = iter[1 .. n] /\ \A k \in 0 .. n : way[k] \in C
  BY <1>1, <1>11
<1>13. ASSUME NEW k \in 1 .. n
       PROVE  way[k] = DeepUpdate(way[k - 1], s[k])
  <2>1. k \in 0 .. n /\ k - 1 \in 0 .. n /\ k # 0
    BY <1>1
  <2>2. iter[1 .. k] = F[k][iter[1 .. k - 1]] /\ iter[1 .. k - 1] \in C
    BY <1>11, <2>1
  <2> QED
    BY <1>5, <2>1, <2>2
<1>14. IsLayering(way, a, s)
  BY <1>12, <1>13 DEF IsLayering, n
<1> QED
  BY <1>9, <1>12, <1>14 DEF n, C

(***************************************************************************)
(* What is on top of the layers a, s[1], .., s[n]: a path of the k-th that *)
(* no path of a higher one meets.  A configuration is their stack if it    *)
(* has these paths, with the values of their layers, and no others.        *)
(***************************************************************************)
Layer(a, s, k) == IF k = 0 THEN a ELSE s[k]

Clear(p, c) == \A u \in Paths(c) : ~Meet(p, u)

OnTop(p, a, s, n, k) ==
  p \in Paths(Layer(a, s, k)) /\ \A j \in k + 1 .. n : Clear(p, s[j])

IsStack(c, a, s, n) ==
  /\ \A p \in Paths(c) : \E k \in 0 .. n : OnTop(p, a, s, n, k)
  /\ \A k \in 0 .. n : \A p \in Paths(Layer(a, s, k)) :
       OnTop(p, a, s, n, k) => p \in Paths(c) /\ c[p] = Layer(a, s, k)[p]

LEMMA PathMeetsItself ==
  ASSUME NEW K, NEW p \in Seq(K)
  PROVE  IsPrefix(p, p) /\ Meet(p, p)
  BY PrefixPointwise DEF Meet

LEMMA StackGrows ==
  ASSUME NEW K, NEW a, NEW s, NEW n \in Nat, NEW c, IsStack(c, a, s, n),
         Paths(s[n + 1]) \subseteq Seq(K)
  PROVE  IsStack(DeepUpdate(c, s[n + 1]), a, s, n + 1)
<1> DEFINE x == s[n + 1]
           d == DeepUpdate(c, x)
<1>1. /\ Paths(d) = { p \in Paths(c) : Clear(p, x) } \cup Paths(x)
      /\ \A p \in Paths(d) :
           d[p] = IF p \in Paths(c) /\ Clear(p, x) THEN c[p] ELSE x[p]
  BY MergedPaths DEF Clear
<1>2. \A p \in Paths(x) : ~Clear(p, x)
  BY PathMeetsItself DEF Clear
<1>3. Layer(a, s, n + 1) = x
  BY DEF Layer
<1> HIDE DEF d, x
<1>4. \A p : OnTop(p, a, s, n + 1, n + 1) <=> p \in Paths(x)
  <2>1. (n + 1) + 1 .. n + 1 = {}
    OBVIOUS
  <2> QED
    BY <1>3, <2>1 DEF OnTop
<1>5. \A k \in 0 .. n : \A p :
        OnTop(p, a, s, n + 1, k) <=> OnTop(p, a, s, n, k) /\ Clear(p, x)
  <2> SUFFICES ASSUME NEW k \in 0 .. n
               PROVE  k + 1 .. n + 1 = (k + 1 .. n) \cup {n + 1}
    BY DEF OnTop, x
  <2> QED
    OBVIOUS
<1>6. \A k \in 0 .. n + 1 : k \in 0 .. n \/ k = n + 1
  OBVIOUS
<1>7. ASSUME NEW p \in Paths(d)
      PROVE  \E k \in 0 .. n + 1 : OnTop(p, a, s, n + 1, k)
  <2>1. CASE p \in Paths(x)
    BY <1>4, <2>1
  <2>2. CASE p \in Paths(c) /\ Clear(p, x)
    <3>1. PICK k \in 0 .. n : OnTop(p, a, s, n, k)
      BY <2>2 DEF IsStack
    <3>2. k \in 0 .. n + 1
      OBVIOUS
    <3> QED
      BY <1>5, <2>2, <3>1, <3>2
  <2> QED
    BY <1>1, <2>1, <2>2
<1>8. ASSUME NEW k \in 0 .. n + 1, NEW p \in Paths(Layer(a, s, k)),
             OnTop(p, a, s, n + 1, k)
      PROVE  p \in Paths(d) /\ d[p] = Layer(a, s, k)[p]
  <2>1. CASE k = n + 1
    BY <1>1, <1>2, <1>3, <1>8, <2>1
  <2>2. CASE k \in 0 .. n
    <3>1. OnTop(p, a, s, n, k) /\ Clear(p, x)
      BY <1>5, <1>8, <2>2
    <3>2. p \in Paths(c) /\ c[p] = Layer(a, s, k)[p]
      BY <2>2, <3>1 DEF IsStack
    <3> QED
      BY <1>1, <3>1, <3>2
  <2> QED
    BY <1>6, <2>1, <2>2
<1>9. IsStack(d, a, s, n + 1)
  BY <1>7, <1>8 DEF IsStack
<1> QED
  BY <1>9 DEF d, x

\* However many configurations are merged, the result is their stack.
LEMMA FoldIsStack ==
  ASSUME NEW K, NEW V, NEW a \in Configs(K, V), NEW s \in Seq(Configs(K, V))
  PROVE  /\ IsStack(FoldLeft(DeepUpdate, a, s), a, s, Len(s))
         /\ FoldLeft(DeepUpdate, a, s) \in Configs(K, V)
<1> DEFINE n == Len(s)
<1>1. n \in Nat /\ \A k \in 1 .. n : Paths(s[k]) \subseteq Seq(K)
  <2>1. \A k \in 1 .. n : s[k] \in Configs(K, V)
    OBVIOUS
  <2> QED
    BY <2>1, ConfigsAre DEF IsConfig
<1>2. PICK way : /\ IsLayering(way, a, s)
                 /\ FoldLeft(DeepUpdate, a, s) = way[n]
                 /\ \A k \in 0 .. n : way[k] \in Configs(K, V)
  BY Layering
<1>3. /\ way[0] = a
      /\ \A k \in 1 .. n : way[k] = DeepUpdate(way[k - 1], s[k])
  BY <1>2 DEF IsLayering
<1> HIDE DEF n
<1> DEFINE T == { k \in Nat : k <= n => IsStack(way[k], a, s, k) }
<1>4. 0 \in T
  <2>1. /\ 0 .. 0 = {0}
        /\ \A p : OnTop(p, a, s, 0, 0) <=> p \in Paths(a)
    BY DEF OnTop, Layer
  <2>2. IsStack(a, a, s, 0)
    BY <2>1 DEF IsStack, Layer
  <2> QED
    BY <1>3, <2>2
<1>5. ASSUME NEW k \in Nat, k \in T PROVE k + 1 \in T
  <2> SUFFICES ASSUME k + 1 <= n PROVE IsStack(way[k + 1], a, s, k + 1)
    OBVIOUS
  <2>1. k + 1 \in 1 .. n /\ (k + 1) - 1 = k /\ IsStack(way[k], a, s, k)
    BY <1>1, <1>5
  <2>2. way[k + 1] = DeepUpdate(way[k], s[k + 1])
    BY <1>3, <2>1
  <2>3. Paths(s[k + 1]) \subseteq Seq(K)
    BY <1>1, <2>1
  <2> QED
    BY <2>1, <2>2, <2>3, StackGrows
<1> HIDE DEF T
<1>6. Nat \subseteq T
  BY <1>4, <1>5, SetInduction
<1>7. IsStack(way[n], a, s, n) /\ way[n] \in Configs(K, V)
  BY <1>1, <1>2, <1>6 DEF T
<1> QED
  BY <1>2, <1>7 DEF n

LEMMA GreatestOfSet ==
  ASSUME NEW n \in Nat, NEW S \in SUBSET (1 .. n), S # {}
  PROVE  \E x \in S : \A y \in S : y <= x
<1> DEFINE T == { n - x : x \in S }
<1>1. T \in SUBSET Nat /\ T # {}
  <2>1. \A x \in S : x \in Int /\ n - x \in Nat
    OBVIOUS
  <2>2. PICK x \in S : TRUE
    OBVIOUS
  <2>3. n - x \in T
    OBVIOUS
  <2> QED
    BY <2>1, <2>3
<1>2. PICK t \in T : \A y \in T : ~(y < t)
  BY <1>1, LeastOfSet
<1>3. PICK x \in S : t = n - x
  OBVIOUS
<1>4. ASSUME NEW y \in S PROVE y <= x
  <2>1. n - y \in T
    OBVIOUS
  <2> HIDE DEF T
  <2>2. ~(n - y < n - x)
    BY <1>2, <1>3, <2>1
  <2> QED
    BY <2>2
<1> QED
  BY <1>4

(***************************************************************************)
(* Patches merged with each other.                                         *)
(***************************************************************************)
LEMMA NothingIsConfig ==
  ASSUME NEW K, NEW V
  PROVE  NoConfig \in Configs(K, V) /\ Paths(NoConfig) = {}
<1>1. Paths(NoConfig) = {}
  BY DEF NoConfig, Paths
<1>2. NoConfig \in [{} -> V] /\ {} \in SUBSET Seq(K)
  BY DEF NoConfig
<1> QED
  BY <1>1, <1>2 DEF Configs, PrefixFree

\* What is on top of all patches of a sequence.
PatchOnTop(p, s, k) ==
  p \in Paths(s[k]) /\ \A j \in k + 1 .. Len(s) : Clear(p, s[j])

LEMMA PatchedStack ==
  ASSUME NEW K, NEW V, NEW s \in Seq(Configs(K, V))
  PROVE  /\ Patched(s) \in Configs(K, V)
         /\ \A p \in Paths(Patched(s)) : \E k \in 1 .. Len(s) : PatchOnTop(p, s, k)
         /\ \A k \in 1 .. Len(s) : \A p :
              PatchOnTop(p, s, k) =>
                p \in Paths(Patched(s)) /\ Patched(s)[p] = s[k][p]
<1> DEFINE n == Len(s)
           m == Patched(s)
<1>1. NoConfig \in Configs(K, V) /\ Paths(NoConfig) = {}
  BY NothingIsConfig
<1>2. IsStack(m, NoConfig, s, n) /\ m \in Configs(K, V)
  BY <1>1, FoldIsStack DEF Patched
<1>3. n \in Nat /\ 0 .. n = {0} \cup (1 .. n)
  OBVIOUS
<1> HIDE DEF m
<1>4. \A p : ~OnTop(p, NoConfig, s, n, 0)
  BY <1>1 DEF OnTop, Layer
<1>5. \A k \in 1 .. n : \A p :
        /\ Layer(NoConfig, s, k) = s[k]
        /\ OnTop(p, NoConfig, s, n, k) <=> PatchOnTop(p, s, k)
  BY <1>3 DEF OnTop, Layer, PatchOnTop
<1> HIDE DEF n
<1>6. \A p \in Paths(m) : \E k \in 1 .. n : PatchOnTop(p, s, k)
  BY <1>2, <1>3, <1>4, <1>5 DEF IsStack
<1>7. ASSUME NEW k \in 1 .. n, NEW p, PatchOnTop(p, s, k)
      PROVE  p \in Paths(m) /\ m[p] = s[k][p]
  <2>1. /\ k \in 0 .. n /\ p \in Paths(Layer(NoConfig, s, k))
        /\ OnTop(p, NoConfig, s, n, k) /\ Layer(NoConfig, s, k) = s[k]
    BY <1>3, <1>5, <1>7 DEF PatchOnTop
  <2>2. \A i \in 0 .. n : \A q \in Paths(Layer(NoConfig, s, i)) :
          OnTop(q, NoConfig, s, n, i)
            => q \in Paths(m) /\ m[q] = Layer(NoConfig, s, i)[q]
    BY <1>2 DEF IsStack
  <2> QED
    BY <2>1, <2>2
<1> QED
  BY <1>2, <1>6, <1>7 DEF n, m

\* A path that meets none of the patches does not meet what they come to.
LEMMA PatchedClear ==
  ASSUME NEW K, NEW V, NEW s \in Seq(Configs(K, V)), NEW p,
         \A k \in 1 .. Len(s) : Clear(p, s[k])
  PROVE  Clear(p, Patched(s))
  BY PatchedStack DEF Clear, PatchOnTop

\* An earlier patch put a value where a later one opens a section, above p.
Opens(s, p) ==
  \E b, c \in Range(s) : \E u \in Paths(b) : \E v \in Paths(c) :
    Under(u, v) /\ Under(u, p)

\* The other way round this is the only exception: a path that meets a patch, but
\* not what the patches come to, met a value that a later patch hid.
LEMMA PatchedHides ==
  ASSUME NEW K, NEW V, NEW s \in Seq(Configs(K, V)), NEW p \in Seq(K),
         Clear(p, Patched(s)), \E k \in 1 .. Len(s) : ~Clear(p, s[k])
  PROVE  Opens(s, p)
<1> DEFINE n == Len(s)
           S == { k \in 1 .. n : ~Clear(p, s[k]) }
<1>1. n \in Nat /\ \A k \in 1 .. n : s[k] \in Configs(K, V) /\ s[k] \in Range(s)
  BY DEF Range
<1>2. PICK k \in S : \A i \in S : i <= k
  <2>1. S \in SUBSET (1 .. n) /\ S # {}
    OBVIOUS
  <2> HIDE DEF S, n
  <2> QED
    BY <1>1, <2>1, GreatestOfSet
<1>3. k \in 1 .. n
  OBVIOUS
<1>4. PICK u \in Paths(s[k]) : Meet(p, u)
  BY DEF Clear
<1>5. \A i \in k + 1 .. n : Clear(p, s[i])
  BY <1>1, <1>2, <1>3
<1>6. ~PatchOnTop(u, s, k)
  <2>1. PatchOnTop(u, s, k) => u \in Paths(Patched(s))
    BY <1>3, PatchedStack
  <2> QED
    BY <1>4, <2>1 DEF Clear
<1>7. PICK i \in k + 1 .. n : ~Clear(u, s[i])
  BY <1>6 DEF PatchOnTop
<1>8. i \in 1 .. n
  BY <1>1, <1>3
<1>9. PICK v \in Paths(s[i]) : Meet(u, v)
  BY <1>7 DEF Clear
<1>10. ~Meet(p, v)
  BY <1>5, <1>9 DEF Clear
<1>11. u \in Seq(K) /\ v \in Seq(K)
  BY <1>1, <1>3, <1>8, ConfigsAre DEF IsConfig
<1>12. Under(u, v) /\ Under(u, p)
  <2>1. /\ Meet(u, v) <=> Meet(v, u)
        /\ Meet(p, u) <=> Meet(u, p)
        /\ Meet(p, v) <=> Meet(v, p)
    BY DEF Meet
  <2>2. ~IsPrefix(p, u)
    BY <1>9, <1>10, <1>11, <2>1, PrefixesMeet
  <2>3. ~IsPrefix(v, u)
    BY <1>4, <1>10, <1>11, <2>1, PrefixesMeet
  <2> QED
    BY <1>4, <1>9, <1>11, <2>2, <2>3, PathMeetsItself DEF Meet, Under
<1> QED
  BY <1>1, <1>3, <1>8, <1>12 DEF Opens

(***************************************************************************)
(* The configuration of a run, and the same overrides applied one by one.  *)
(***************************************************************************)
ClearOfAll(p, s) == \A k \in 1 .. Len(s) : Clear(p, s[k])

\* The four layers of a configuration, and what of them it shows.
ShowsLayers(c, a, x, y, e) ==
  /\ \A p \in Paths(c) :
       \/ p \in Paths(a) /\ Clear(p, x) /\ Clear(p, y) /\ Clear(p, e)
       \/ p \in Paths(x) /\ Clear(p, y) /\ Clear(p, e)
       \/ p \in Paths(y) /\ Clear(p, e)
       \/ p \in Paths(e)
  /\ \A p \in Paths(a) : Clear(p, x) /\ Clear(p, y) /\ Clear(p, e)
       => p \in Paths(c) /\ c[p] = a[p]
  /\ \A p \in Paths(x) : Clear(p, y) /\ Clear(p, e)
       => p \in Paths(c) /\ c[p] = x[p]
  /\ \A p \in Paths(y) : Clear(p, e) => p \in Paths(c) /\ c[p] = y[p]
  /\ \A p \in Paths(e) : p \in Paths(c) /\ c[p] = e[p]

LEMMA EffectiveStack ==
  ASSUME NEW K, NEW V, NEW a \in Configs(K, V), NEW x \in Configs(K, V),
         NEW y \in Configs(K, V), NEW e \in Configs(K, V)
  PROVE  /\ EffectiveConfig(a, x, y, e) \in Configs(K, V)
         /\ IsStack(EffectiveConfig(a, x, y, e), a, <<x, y, e>>, 3)
         /\ ShowsLayers(EffectiveConfig(a, x, y, e), a, x, y, e)
<1> DEFINE s == <<x, y, e>>
           c == EffectiveConfig(a, x, y, e)
<1>1. /\ s \in Seq(Configs(K, V)) /\ Len(s) = 3
      /\ s[1] = x /\ s[2] = y /\ s[3] = e
  OBVIOUS
<1> HIDE DEF s
<1>2. IsStack(c, a, s, 3) /\ c \in Configs(K, V)
  BY <1>1, FoldIsStack DEF EffectiveConfig, s
<1> HIDE DEF c
<1>3. /\ 0 .. 3 = {0, 1, 2, 3}
      /\ 0 + 1 .. 3 = {1, 2, 3} /\ 1 + 1 .. 3 = {2, 3}
      /\ 2 + 1 .. 3 = {3} /\ 3 + 1 .. 3 = {}
  OBVIOUS
<1>4. /\ Layer(a, s, 0) = a /\ Layer(a, s, 1) = x
      /\ Layer(a, s, 2) = y /\ Layer(a, s, 3) = e
  BY <1>1 DEF Layer
<1>5. \A p :
        /\ OnTop(p, a, s, 3, 0) <=>
             p \in Paths(a) /\ Clear(p, x) /\ Clear(p, y) /\ Clear(p, e)
        /\ OnTop(p, a, s, 3, 1) <=> p \in Paths(x) /\ Clear(p, y) /\ Clear(p, e)
        /\ OnTop(p, a, s, 3, 2) <=> p \in Paths(y) /\ Clear(p, e)
        /\ OnTop(p, a, s, 3, 3) <=> p \in Paths(e)
  BY <1>1, <1>3, <1>4 DEF OnTop
<1>6. \A p \in Paths(c) :
        \/ OnTop(p, a, s, 3, 0) \/ OnTop(p, a, s, 3, 1)
        \/ OnTop(p, a, s, 3, 2) \/ OnTop(p, a, s, 3, 3)
  BY <1>2, <1>3 DEF IsStack
<1>7. \A k \in {0, 1, 2, 3} : \A p \in Paths(Layer(a, s, k)) :
        OnTop(p, a, s, 3, k) => p \in Paths(c) /\ c[p] = Layer(a, s, k)[p]
  BY <1>2, <1>3 DEF IsStack
<1> QED
  BY <1>2, <1>4, <1>5, <1>6, <1>7 DEF s, c, ShowsLayers

\* The layers where every patch is one of its own.
ShowsPatches(c, a, g, h, e) ==
  /\ \A p \in Paths(c) :
       \/ /\ p \in Paths(a) /\ ClearOfAll(p, g) /\ ClearOfAll(p, h)
          /\ Clear(p, e)
       \/ /\ \E k \in 1 .. Len(g) : PatchOnTop(p, g, k) /\ c[p] = g[k][p]
          /\ ClearOfAll(p, h) /\ Clear(p, e)
       \/ /\ \E k \in 1 .. Len(h) : PatchOnTop(p, h, k) /\ c[p] = h[k][p]
          /\ Clear(p, e)
       \/ p \in Paths(e)
  /\ \A p \in Paths(a) :
       ClearOfAll(p, g) /\ ClearOfAll(p, h) /\ Clear(p, e)
         => p \in Paths(c) /\ c[p] = a[p]
  /\ \A p : \A k \in 1 .. Len(g) :
       PatchOnTop(p, g, k) /\ ClearOfAll(p, h) /\ Clear(p, e) => p \in Paths(c)
  /\ \A p : \A k \in 1 .. Len(h) :
       PatchOnTop(p, h, k) /\ Clear(p, e) => p \in Paths(c)
  /\ \A p \in Paths(e) : p \in Paths(c) /\ c[p] = e[p]

LEMMA InTurnStack ==
  ASSUME NEW K, NEW V, NEW a \in Configs(K, V), NEW g \in Seq(Configs(K, V)),
         NEW h \in Seq(Configs(K, V)), NEW e \in Configs(K, V)
  PROVE  ShowsPatches(FoldLeft(DeepUpdate, a, g \o h \o <<e>>), a, g, h, e)
<1> DEFINE C == Configs(K, V)
           s == g \o h \o <<e>>
           m == Len(g)
           l == Len(h)
           n == m + l + 1
           c == FoldLeft(DeepUpdate, a, s)
<1>1. /\ s \in Seq(C) /\ Len(s) = n
      /\ m \in Nat /\ l \in Nat
  OBVIOUS
<1>2. /\ \A k \in 1 .. m : s[k] = g[k]
      /\ \A k \in 1 .. l : s[m + k] = h[k]
      /\ s[n] = e
  OBVIOUS
<1> HIDE DEF s, m, l, C
<1>3. IsStack(c, a, s, n)
  BY <1>1, FoldIsStack DEF C
<1> HIDE DEF c
<1>4. \A k \in 0 .. n :
        \/ k = 0 \/ k \in 1 .. m \/ k - m \in 1 .. l \/ k = n
  BY <1>1
<1>5. \A p : OnTop(p, a, s, n, n) <=> p \in Paths(e)
  <2>1. n + 1 .. n = {} /\ n # 0
    BY <1>1
  <2> QED
    BY <1>2, <2>1 DEF OnTop, Layer
<1>6. ASSUME NEW k \in 1 .. l, NEW p
      PROVE  OnTop(p, a, s, n, m + k) <=> PatchOnTop(p, h, k) /\ Clear(p, e)
  <2>1. m + k # 0 /\ s[m + k] = h[k]
    BY <1>1, <1>2
  <2>2. ASSUME \A j \in (m + k) + 1 .. n : Clear(p, s[j])
        PROVE  Clear(p, e) /\ \A i \in k + 1 .. l : Clear(p, h[i])
    <3>1. n \in (m + k) + 1 .. n
      BY <1>1
    <3>2. ASSUME NEW i \in k + 1 .. l PROVE Clear(p, h[i])
      <4>1. m + i \in (m + k) + 1 .. n /\ i \in 1 .. l
        BY <1>1
      <4> QED
        BY <1>2, <2>2, <4>1
    <3> QED
      BY <1>2, <2>2, <3>1, <3>2
  <2>3. ASSUME Clear(p, e), \A i \in k + 1 .. l : Clear(p, h[i]),
               NEW j \in (m + k) + 1 .. n
        PROVE  Clear(p, s[j])
    <3>1. CASE j = n
      BY <1>2, <2>3, <3>1
    <3>2. CASE j # n
      <4>1. j - m \in k + 1 .. l /\ j - m \in 1 .. l /\ m + (j - m) = j
        BY <1>1, <3>2
      <4> QED
        BY <1>2, <2>3, <4>1
    <3> QED
      BY <3>1, <3>2
  <2> QED
    BY <2>1, <2>2, <2>3 DEF OnTop, Layer, PatchOnTop, l
<1>7. ASSUME NEW k \in 0 .. m, NEW p
      PROVE  (\A j \in k + 1 .. n : Clear(p, s[j])) <=>
               /\ \A i \in k + 1 .. m : Clear(p, g[i])
               /\ ClearOfAll(p, h) /\ Clear(p, e)
  <2>1. ASSUME \A j \in k + 1 .. n : Clear(p, s[j])
        PROVE  /\ \A i \in k + 1 .. m : Clear(p, g[i])
               /\ ClearOfAll(p, h) /\ Clear(p, e)
    <3>1. n \in k + 1 .. n
      BY <1>1
    <3>2. ASSUME NEW i \in k + 1 .. m PROVE Clear(p, g[i])
      <4>1. i \in k + 1 .. n /\ i \in 1 .. m
        BY <1>1
      <4> QED
        BY <1>2, <2>1, <4>1
    <3>3. ASSUME NEW i \in 1 .. l PROVE Clear(p, h[i])
      <4>1. m + i \in k + 1 .. n
        BY <1>1
      <4> QED
        BY <1>2, <2>1, <4>1
    <3> QED
      BY <1>2, <2>1, <3>1, <3>2, <3>3 DEF ClearOfAll, l
  <2>2. ASSUME \A i \in k + 1 .. m : Clear(p, g[i]), ClearOfAll(p, h),
               Clear(p, e), NEW j \in k + 1 .. n
        PROVE  Clear(p, s[j])
    <3>1. CASE j = n
      BY <1>2, <2>2, <3>1
    <3>2. CASE j \in k + 1 .. m
      <4>1. j \in 1 .. m
        BY <1>1, <3>2
      <4> QED
        BY <1>2, <2>2, <3>2, <4>1
    <3>3. CASE j - m \in 1 .. l
      <4>1. m + (j - m) = j
        BY <1>1
      <4>2. Clear(p, h[j - m])
        BY <2>2, <3>3 DEF ClearOfAll, l
      <4> QED
        BY <1>2, <3>3, <4>1, <4>2
    <3>4. j = n \/ j \in k + 1 .. m \/ j - m \in 1 .. l
      BY <1>1
    <3> QED
      BY <3>1, <3>2, <3>3, <3>4
  <2> QED
    BY <2>1, <2>2
<1>8. ASSUME NEW k \in 1 .. m, NEW p
      PROVE  OnTop(p, a, s, n, k) <=>
               PatchOnTop(p, g, k) /\ ClearOfAll(p, h) /\ Clear(p, e)
  <2>1. k # 0 /\ k \in 0 .. m /\ s[k] = g[k]
    BY <1>1, <1>2
  <2> QED
    BY <1>7, <2>1 DEF OnTop, Layer, PatchOnTop, m
<1>9. ASSUME NEW p
      PROVE  OnTop(p, a, s, n, 0) <=>
               /\ p \in Paths(a) /\ ClearOfAll(p, g) /\ ClearOfAll(p, h)
               /\ Clear(p, e)
  <2>1. 0 \in 0 .. m /\ 0 + 1 .. m = 1 .. m
    BY <1>1
  <2> QED
    BY <1>7, <2>1 DEF OnTop, Layer, ClearOfAll, m
<1>10. /\ \A p \in Paths(c) : \E k \in 0 .. n : OnTop(p, a, s, n, k)
       /\ \A k \in 0 .. n : \A p : OnTop(p, a, s, n, k)
            => p \in Paths(c) /\ c[p] = Layer(a, s, k)[p]
  BY <1>3 DEF IsStack, OnTop
<1>11. /\ Layer(a, s, 0) = a /\ Layer(a, s, n) = e
       /\ \A k \in 1 .. m : Layer(a, s, k) = g[k]
       /\ \A k \in 1 .. l : Layer(a, s, m + k) = h[k]
  BY <1>1, <1>2 DEF Layer
<1>12. /\ 0 \in 0 .. n /\ n \in 0 .. n
       /\ \A k \in 1 .. m : k \in 0 .. n
       /\ \A k \in 1 .. l : m + k \in 0 .. n
  BY <1>1
<1>13. ASSUME NEW p \in Paths(c)
       PROVE  \/ /\ p \in Paths(a) /\ ClearOfAll(p, g) /\ ClearOfAll(p, h)
                 /\ Clear(p, e)
              \/ /\ \E k \in 1 .. m : PatchOnTop(p, g, k) /\ c[p] = g[k][p]
                 /\ ClearOfAll(p, h) /\ Clear(p, e)
              \/ /\ \E k \in 1 .. l : PatchOnTop(p, h, k) /\ c[p] = h[k][p]
                 /\ Clear(p, e)
              \/ p \in Paths(e)
  <2>1. PICK k \in 0 .. n : OnTop(p, a, s, n, k) /\ c[p] = Layer(a, s, k)[p]
    BY <1>10
  <2>2. CASE k = 0
    BY <1>9, <2>1, <2>2
  <2>3. CASE k \in 1 .. m
    BY <1>8, <1>11, <2>1, <2>3
  <2>4. CASE k - m \in 1 .. l
    <3>1. k = m + (k - m)
      BY <1>1
    <3>2. PICK i \in 1 .. l : k = m + i
      BY <2>4, <3>1
    <3> QED
      BY <1>6, <1>11, <2>1, <3>2
  <2>5. CASE k = n
    BY <1>5, <2>1, <2>5
  <2> QED
    BY <1>4, <2>2, <2>3, <2>4, <2>5
<1>14. \A p \in Paths(a) :
         ClearOfAll(p, g) /\ ClearOfAll(p, h) /\ Clear(p, e)
           => p \in Paths(c) /\ c[p] = a[p]
  BY <1>9, <1>10, <1>11, <1>12
<1>15. \A p : \A k \in 1 .. m :
         PatchOnTop(p, g, k) /\ ClearOfAll(p, h) /\ Clear(p, e) => p \in Paths(c)
  BY <1>8, <1>10, <1>12
<1>16. \A p : \A k \in 1 .. l :
         PatchOnTop(p, h, k) /\ Clear(p, e) => p \in Paths(c)
  BY <1>6, <1>10, <1>12
<1>17. \A p \in Paths(e) : p \in Paths(c) /\ c[p] = e[p]
  BY <1>5, <1>10, <1>11, <1>12
<1> QED
  BY <1>13, <1>14, <1>15, <1>16, <1>17 DEF m, l, c, s, ShowsPatches

\* What the overrides applied in turn have, the configuration has too; what it
\* has besides was hidden by a value that a later patch took away.
LEMMA EffectiveOrInTurn ==
  ASSUME NEW K, NEW V, NEW a \in Configs(K, V), NEW g \in Seq(Configs(K, V)),
         NEW h \in Seq(Configs(K, V)), NEW e \in Configs(K, V),
         NEW c, c = EffectiveConfig(a, Patched(g), Patched(h), e),
         NEW t, t = FoldLeft(DeepUpdate, a, g \o h \o <<e>>)
  PROVE  /\ \A p \in Paths(t) : p \in Paths(c) /\ c[p] = t[p]
         /\ \A p \in Paths(c) \ Paths(t) : Opens(g, p) \/ Opens(h, p)
<1> DEFINE x == Patched(g)
           y == Patched(h)
<1>1. /\ x \in Configs(K, V)
      /\ \A p \in Paths(x) : \E k \in 1 .. Len(g) : PatchOnTop(p, g, k)
      /\ \A k \in 1 .. Len(g) : \A p :
           PatchOnTop(p, g, k) => p \in Paths(x) /\ x[p] = g[k][p]
      /\ \A p : ClearOfAll(p, g) => Clear(p, x)
  BY PatchedStack, PatchedClear DEF ClearOfAll
<1>2. /\ y \in Configs(K, V)
      /\ \A p \in Paths(y) : \E k \in 1 .. Len(h) : PatchOnTop(p, h, k)
      /\ \A k \in 1 .. Len(h) : \A p :
           PatchOnTop(p, h, k) => p \in Paths(y) /\ y[p] = h[k][p]
      /\ \A p : ClearOfAll(p, h) => Clear(p, y)
  BY PatchedStack, PatchedClear DEF ClearOfAll
<1>3. /\ \A p \in Seq(K) : Clear(p, x) => ClearOfAll(p, g) \/ Opens(g, p)
      /\ \A p \in Seq(K) : Clear(p, y) => ClearOfAll(p, h) \/ Opens(h, p)
  BY PatchedHides DEF ClearOfAll
<1> HIDE DEF x, y
<1>4. c = EffectiveConfig(a, x, y, e)
  BY DEF x, y
<1>5. /\ c \in Configs(K, V)
      /\ ShowsLayers(c, a, x, y, e)
  <2>1. x \in Configs(K, V) /\ y \in Configs(K, V)
    BY <1>1, <1>2
  <2>2. /\ EffectiveConfig(a, x, y, e) \in Configs(K, V)
        /\ ShowsLayers(EffectiveConfig(a, x, y, e), a, x, y, e)
    BY <2>1, EffectiveStack
  <2> QED
    BY <1>4, <2>2
<1>6. ShowsPatches(t, a, g, h, e)
  BY InTurnStack
<1> USE DEF ShowsLayers
<1>7. ASSUME NEW p \in Paths(t)
      PROVE  p \in Paths(c) /\ c[p] = t[p]
  <2>1. CASE /\ p \in Paths(a) /\ ClearOfAll(p, g) /\ ClearOfAll(p, h)
             /\ Clear(p, e)
    <3>1. t[p] = a[p]
      BY <2>1, <1>6 DEF ShowsPatches
    <3>2. p \in Paths(c) /\ c[p] = a[p]
      BY <1>1, <1>2, <1>5, <2>1
    <3> QED
      BY <3>1, <3>2
  <2>2. CASE /\ \E k \in 1 .. Len(g) : PatchOnTop(p, g, k) /\ t[p] = g[k][p]
             /\ ClearOfAll(p, h) /\ Clear(p, e)
    <3>1. p \in Paths(x) /\ t[p] = x[p]
      BY <1>1, <2>2
    <3>2. p \in Paths(c) /\ c[p] = x[p]
      BY <1>2, <1>5, <2>2, <3>1
    <3> QED
      BY <3>1, <3>2
  <2>3. CASE /\ \E k \in 1 .. Len(h) : PatchOnTop(p, h, k) /\ t[p] = h[k][p]
             /\ Clear(p, e)
    <3>1. p \in Paths(y) /\ t[p] = y[p]
      BY <1>2, <2>3
    <3>2. p \in Paths(c) /\ c[p] = y[p]
      BY <1>5, <2>3, <3>1
    <3> QED
      BY <3>1, <3>2
  <2>4. CASE p \in Paths(e)
    <3>1. t[p] = e[p]
      BY <2>4, <1>6 DEF ShowsPatches
    <3>2. p \in Paths(c) /\ c[p] = e[p]
      BY <1>5, <2>4
    <3> QED
      BY <3>1, <3>2
  <2>5. \/ /\ p \in Paths(a) /\ ClearOfAll(p, g) /\ ClearOfAll(p, h)
           /\ Clear(p, e)
        \/ /\ \E k \in 1 .. Len(g) : PatchOnTop(p, g, k) /\ t[p] = g[k][p]
           /\ ClearOfAll(p, h) /\ Clear(p, e)
        \/ /\ \E k \in 1 .. Len(h) : PatchOnTop(p, h, k) /\ t[p] = h[k][p]
           /\ Clear(p, e)
        \/ p \in Paths(e)
    BY <1>7, <1>6 DEF ShowsPatches
  <2> QED
    BY <2>1, <2>2, <2>3, <2>4, <2>5
<1>8. ASSUME NEW p \in Paths(c), ~Opens(g, p), ~Opens(h, p)
      PROVE  p \in Paths(t)
  <2>1. p \in Seq(K)
    BY <1>5, ConfigsAre DEF IsConfig
  <2>2. /\ Clear(p, x) => ClearOfAll(p, g)
        /\ Clear(p, y) => ClearOfAll(p, h)
    BY <1>3, <1>8, <2>1
  <2>3. CASE p \in Paths(a) /\ Clear(p, x) /\ Clear(p, y) /\ Clear(p, e)
    BY <2>2, <2>3, <1>6 DEF ShowsPatches
  <2>4. CASE p \in Paths(x) /\ Clear(p, y) /\ Clear(p, e)
    <3>1. PICK k \in 1 .. Len(g) : PatchOnTop(p, g, k)
      BY <1>1, <2>4
    <3> QED
      BY <2>2, <2>4, <3>1, <1>6 DEF ShowsPatches
  <2>5. CASE p \in Paths(y) /\ Clear(p, e)
    <3>1. PICK k \in 1 .. Len(h) : PatchOnTop(p, h, k)
      BY <1>2, <2>5
    <3> QED
      BY <2>5, <3>1, <1>6 DEF ShowsPatches
  <2>6. CASE p \in Paths(e)
    BY <2>6, <1>6 DEF ShowsPatches
  <2> QED
    BY <1>5, <2>3, <2>4, <2>5, <2>6
<1> QED
  BY <1>7, <1>8

\* A setting of the bottom layer is read as nothing only where an override put a
\* value in the place of its section.
LEMMA HiddenByValue ==
  ASSUME NEW K, NEW V, NEW a \in Configs(K, V), NEW s \in Seq(Configs(K, V)),
         NEW c, IsStack(c, a, s, Len(s)), NEW p \in Paths(a),
         \A r \in Paths(c) : ~IsPrefix(p, r)
  PROVE  \E k \in 1 .. Len(s) : \E q \in Paths(s[k]) : Under(q, p)
<1> DEFINE n == Len(s)
           S == { k \in 1 .. n : ~Clear(p, s[k]) }
<1>1. n \in Nat /\ \A k \in 1 .. n : s[k] \in Configs(K, V)
  OBVIOUS
<1>2. p \in Seq(K)
  BY ConfigsAre DEF IsConfig
<1> HIDE DEF n
<1>3. \A k \in 0 .. n : \A q : OnTop(q, a, s, n, k) => q \in Paths(c)
  BY DEF IsStack, OnTop, n
<1>4. S # {}
  <2>1. ~OnTop(p, a, s, n, 0)
    BY <1>1, <1>2, <1>3, PathMeetsItself
  <2>2. 0 + 1 .. n = 1 .. n
    BY <1>1
  <2> QED
    BY <2>1, <2>2 DEF OnTop, Layer
<1>5. PICK k \in S : \A i \in S : i <= k
  <2>1. S \in SUBSET (1 .. n)
    OBVIOUS
  <2> HIDE DEF S
  <2> QED
    BY <1>1, <1>4, <2>1, GreatestOfSet
<1>6. k \in 1 .. n /\ ~Clear(p, s[k])
  OBVIOUS
<1>7. \A i \in k + 1 .. n : Clear(p, s[i])
  BY <1>1, <1>5, <1>6
<1> HIDE DEF S
<1>8. PICK q \in Paths(s[k]) : Meet(p, q)
  BY <1>6 DEF Clear
<1>9. q \in Seq(K)
  BY <1>1, <1>6, ConfigsAre DEF IsConfig
<1>10. ~IsPrefix(p, q)
  <2> SUFFICES ASSUME IsPrefix(p, q) PROVE FALSE
    OBVIOUS
  <2>1. ASSUME NEW i \in k + 1 .. n, NEW w \in Paths(s[i]), Meet(q, w)
        PROVE  FALSE
    <3>1. i \in 1 .. n
      BY <1>1, <1>6
    <3>2. w \in Seq(K)
      BY <1>1, <3>1, ConfigsAre DEF IsConfig
    <3>3. Meet(w, q)
      BY <2>1 DEF Meet
    <3>4. Meet(w, p)
      BY <1>2, <1>9, <3>2, <3>3, PrefixesMeet
    <3>5. Meet(p, w)
      BY <3>4 DEF Meet
    <3> QED
      BY <1>7, <3>5 DEF Clear
  <2>2. OnTop(q, a, s, n, k)
    BY <1>1, <1>6, <2>1 DEF OnTop, Layer, Clear
  <2>3. k \in 0 .. n
    BY <1>1, <1>6
  <2> QED
    BY <1>3, <2>2, <2>3
<1>11. Under(q, p)
  BY <1>2, <1>8, <1>10, PathMeetsItself DEF Meet, Under
<1> QED
  BY <1>6, <1>11 DEF n

(***************************************************************************)
(* The answer about the settings of a run.                                 *)
(***************************************************************************)
SettingsAnswer ==
  LET global == Patched(input.global)
      project == Patched(input.project)
      effective == EffectiveConfig(input.base, global, project, input.extra)
  IN  [ global |-> global, project |-> project, effective |-> effective,
        read |-> [p \in DOMAIN input.base |-> Get(effective, p)] ]

SettingsAsked ==
  /\ kind = "settings" => input \in Layers
  /\ Answered("settings") => result = SettingsAnswer

LEMMA AlwaysSettingsAsked == SettingsSpec => []SettingsAsked
<1>1. SettingsInit => SettingsAsked
  BY DEF SettingsInit, Asked, SettingsAsked, Answered
<1>2. SettingsAsked /\ [ReadSettings]_questionVars => SettingsAsked'
  <2> SUFFICES ASSUME SettingsAsked, [ReadSettings]_questionVars
               PROVE  SettingsAsked'
    OBVIOUS
  <2>1. CASE ReadSettings
    <3>1. kind' = kind /\ input' = input /\ result' = SettingsAnswer
      BY <2>1 DEF ReadSettings, Answer, SettingsAnswer
    <3>2. SettingsAnswer' = SettingsAnswer
      BY <3>1 DEF SettingsAnswer
    <3> QED
      BY <3>1, <3>2 DEF SettingsAsked
  <2>2. CASE UNCHANGED questionVars
    BY <2>2 DEF questionVars, SettingsAsked, SettingsAnswer, Answered
  <2> QED
    BY <2>1, <2>2
<1> QED
  BY <1>1, <1>2, PTL DEF SettingsSpec

\* All layers of an input are configurations over the same keys and values.
LEMMA LayersAreConfigs ==
  ASSUME NEW in \in Layers
  PROVE  \E V : /\ in.base \in Configs(STRING, V)
                /\ in.extra \in Configs(STRING, V)
                /\ in.global \in Seq(Configs(STRING, V))
                /\ in.project \in Seq(Configs(STRING, V))
<1> DEFINE L == {in.base, in.extra} \cup Range(in.global) \cup Range(in.project)
           V == UNION { Range(c) : c \in L }
<1>1. /\ in.global \in Seq(Range(in.global))
      /\ in.project \in Seq(Range(in.project))
      /\ \A c \in L : /\ c = [p \in DOMAIN c |-> c[p]]
                      /\ DOMAIN c \subseteq Seq(STRING)
                      /\ \A p, q \in DOMAIN c : ~Under(p, q)
  BY LayersAssumption DEF LayersAssumption
<1> HIDE DEF L
<1>2. ASSUME NEW c \in L PROVE c \in Configs(STRING, V)
  <2>1. \A p \in DOMAIN c : c[p] \in V
    BY DEF Range
  <2> HIDE DEF V
  <2>2. c \in [DOMAIN c -> V]
    BY <1>1, <2>1
  <2>3. PrefixFree(c)
    BY <1>1 DEF PrefixFree, Paths, Meet, Under
  <2> QED
    BY <1>1, <2>2, <2>3 DEF Configs
<1> HIDE DEF V
<1>3. Range(in.global) \subseteq L /\ Range(in.project) \subseteq L
      /\ in.base \in L /\ in.extra \in L
  BY DEF L
<1>4. ASSUME NEW s, s \in Seq(Range(s)), Range(s) \subseteq L
      PROVE  s \in Seq(Configs(STRING, V))
  <2>1. Range(s) \subseteq Configs(STRING, V)
    BY <1>2, <1>4
  <2> QED
    BY <1>4, <2>1
<1> QED
  BY <1>1, <1>2, <1>3, <1>4

\* Why the configuration and the overrides applied in turn may read differently.
LEMMA ReadsAsInTurn ==
  ASSUME NEW K, NEW V, NEW c \in Configs(K, V), NEW t, NEW p \in Paths(c),
         \A r \in Paths(t) : r \in Paths(c) /\ c[r] = t[r],
         Get(c, p) # Get(t, p)
  PROVE  p \notin Paths(t)
<1> SUFFICES ASSUME p \in Paths(t) PROVE FALSE
  OBVIOUS
<1>1. IsConfig(c, K)
  BY ConfigsAre
<1>2. \A r \in Paths(c) : IsPrefix(p, r) <=> r = p
  <2>1. IsPrefix(p, p)
    BY <1>1, PathMeetsItself DEF IsConfig
  <2> QED
    BY <1>1, <2>1 DEF IsConfig, PrefixFree, Meet
<1>3. /\ { q \in DOMAIN c : IsPrefix(p, q) } = {p}
      /\ { q \in DOMAIN t : IsPrefix(p, q) } = {p}
  BY <1>2 DEF Paths
<1>4. c[p] = t[p]
  OBVIOUS
<1>5. Get(c, p) = [q \in {p} |-> c[q]] /\ Get(t, p) = [q \in {p} |-> t[q]]
  BY <1>3 DEF Get
<1> QED
  BY <1>4, <1>5

LEMMA AnswerIsLayered ==
  ASSUME SettingsAsked, Answered("settings")
  PROVE  SettingsLayered
<1> DEFINE a == input.base
           g == input.global
           h == input.project
           e == input.extra
           x == Patched(g)
           y == Patched(h)
           c == EffectiveConfig(a, x, y, e)
           t == FoldLeft(DeepUpdate, a, g \o h \o <<e>>)
           layers == <<a, x, y, e>>
           over == <<x, y, e>>
           Untouched(p, k) ==
             \A j \in k + 1 .. 4 : \A q \in DOMAIN layers[j] : ~Meet(p, q)
<1>1. input \in Layers
  BY DEF SettingsAsked, Answered
<1>2. /\ result.global = x /\ result.project = y /\ result.effective = c
      /\ result.read = [p \in DOMAIN a |-> Get(c, p)]
  BY DEF SettingsAsked, SettingsAnswer
<1>3. PICK V : /\ a \in Configs(STRING, V) /\ e \in Configs(STRING, V)
               /\ g \in Seq(Configs(STRING, V)) /\ h \in Seq(Configs(STRING, V))
  BY <1>1, LayersAreConfigs
<1> HIDE DEF a, g, h, e
<1>4. x \in Configs(STRING, V) /\ y \in Configs(STRING, V)
  BY <1>3, PatchedStack
<1> HIDE DEF x, y
<1>5. /\ c \in Configs(STRING, V)
      /\ IsStack(c, a, over, 3)
      /\ ShowsLayers(c, a, x, y, e)
  BY <1>3, <1>4, EffectiveStack
<1>6. /\ \A p \in Paths(t) : p \in Paths(c) /\ c[p] = t[p]
      /\ \A p \in Paths(c) \ Paths(t) : Opens(g, p) \/ Opens(h, p)
  BY <1>3, EffectiveOrInTurn DEF x, y
<1>7. IsConfig(c, STRING)
  BY <1>5, ConfigsAre
<1> HIDE DEF c, t
<1>8. /\ layers[1] = a /\ layers[2] = x /\ layers[3] = y /\ layers[4] = e
      /\ over[1] = x /\ over[2] = y /\ over[3] = e
      /\ over \in Seq(Configs(STRING, V)) /\ Len(over) = 3
  BY <1>3, <1>4
<1> HIDE DEF layers, over
<1>9. /\ 1 .. 4 = {1, 2, 3, 4} /\ 2 .. 4 = {2, 3, 4}
      /\ 1 + 1 .. 4 = {2, 3, 4} /\ 2 + 1 .. 4 = {3, 4}
      /\ 3 + 1 .. 4 = {4} /\ 4 + 1 .. 4 = {}
      /\ 1 .. 3 = {1, 2, 3}
  OBVIOUS
<1>10. \A p :
         /\ Untouched(p, 1) <=> Clear(p, x) /\ Clear(p, y) /\ Clear(p, e)
         /\ Untouched(p, 2) <=> Clear(p, y) /\ Clear(p, e)
         /\ Untouched(p, 3) <=> Clear(p, e)
         /\ Untouched(p, 4)
  BY <1>8, <1>9 DEF Clear, Paths
<1>11. ASSUME NEW p \in DOMAIN c, NEW q \in DOMAIN c
       PROVE  ~Under(p, q)
  BY <1>7 DEF IsConfig, PrefixFree, Paths, Meet, Under
<1>12. ASSUME NEW k \in 1 .. 4, NEW p \in DOMAIN layers[k], Untouched(p, k)
       PROVE  p \in DOMAIN c /\ c[p] = layers[k][p]
  <2>1. k \in {1, 2, 3, 4}
    BY <1>9
  <2> HIDE DEF Untouched
  <2> QED
    BY <1>5, <1>8, <1>10, <1>12, <2>1 DEF ShowsLayers, Paths
<1>13. ASSUME NEW p \in DOMAIN c
       PROVE  \E k \in 1 .. 4 : p \in DOMAIN layers[k] /\ Untouched(p, k)
  <2> HIDE DEF Untouched
  <2>1. \E k \in {1, 2, 3, 4} : p \in Paths(layers[k]) /\ Untouched(p, k)
    BY <1>5, <1>8, <1>10 DEF ShowsLayers, Paths
  <2> QED
    BY <1>9, <2>1 DEF Paths
<1>14. ASSUME NEW p \in DOMAIN c
       PROVE  \E k \in 1 .. 4 :
                /\ p \in DOMAIN layers[k] /\ c[p] = layers[k][p]
                /\ Untouched(p, k)
  <2> HIDE DEF Untouched
  <2> QED
    BY <1>12, <1>13
<1>15. ASSUME NEW p \in DOMAIN result.read, result.read[p] = NoConfig
       PROVE  \E k \in 2 .. 4 : \E q \in DOMAIN layers[k] : Under(q, p)
  <2>1. p \in Paths(a) /\ Get(c, p) = NoConfig
    BY <1>2, <1>15 DEF Paths
  <2>2. \A r \in Paths(c) : ~IsPrefix(p, r)
    <3>1. DOMAIN Get(c, p) = { q \in DOMAIN c : IsPrefix(p, q) }
      BY DEF Get
    <3>2. DOMAIN NoConfig = {}
      BY DEF NoConfig
    <3> QED
      BY <2>1, <3>1, <3>2 DEF Paths
  <2>3. PICK k \in 1 .. 3 : \E q \in Paths(over[k]) : Under(q, p)
    BY <1>3, <1>5, <1>8, <2>1, <2>2, HiddenByValue
  <2>4. k \in {1, 2, 3}
    BY <1>9
  <2>5. k + 1 \in 2 .. 4 /\ over[k] = layers[k + 1]
    BY <1>8, <2>4
  <2> QED
    BY <2>3, <2>5 DEF Paths
<1>16. ASSUME NEW p \in DOMAIN c \cup DOMAIN t, Get(c, p) # Get(t, p)
       PROVE  \E b, d \in Range(g) \cup Range(h) :
                \E q \in DOMAIN b : \E u \in DOMAIN d : Under(q, u) /\ Under(q, p)
  <2>1. p \in Paths(c)
    BY <1>6 DEF Paths
  <2>2. p \notin Paths(t)
    BY <1>5, <1>6, <1>16, <2>1, ReadsAsInTurn
  <2>3. Opens(g, p) \/ Opens(h, p)
    BY <1>6, <2>1, <2>2
  <2> QED
    BY <2>3 DEF Opens, Paths
<1> QED
  BY <1>2, <1>11, <1>12, <1>14, <1>15, <1>16
     DEF SettingsLayered, a, g, h, e, x, y, c, t, layers

\* A setting comes from the topmost layer that has it or touches it, and nothing is
\* lost but to a higher layer, however many overrides there are (config.py, 24-66).
THEOREM SettingsAreLayered == SettingsSpec => []SettingsLayered
<1>1. SettingsAsked => SettingsLayered
  BY AnswerIsLayered DEF SettingsLayered
<1> QED
  BY <1>1, AlwaysSettingsAsked, PTL
=============================================================================
