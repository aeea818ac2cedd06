----------------------------- MODULE ArbiterProofs -----------------------------
(***************************************************************************)
(* That slots go to who should have them, and that selections do not flap,   *)
(* for any signals, scores, families, budgets and holds; that the slots a     *)
(* queue lends another (Budgets) are lent safely, for any policies, limits    *)
(* and demands; and that what becomes of the candidates of a frame (Planning)  *)
(* is what the windows ask for, and is counted, for any windows and candidates. *)
(***************************************************************************)
EXTENDS Arbiter, FiniteSetTheorems, SequenceTheorems, WellFoundedInduction, TLAPS

(* A set of naturals has a least element: the way to induction.              *)
LEMMA Least ==
  ASSUME NEW S \in SUBSET Nat, S # {}
  PROVE  \E m \in S : \A k \in S : m <= k
<1> DEFINE R == {ss \in Nat \X Nat : ss[1] < ss[2]}
<1>1. OpToRel(<, Nat) = R
  BY Zenon DEF OpToRel
<1>2. IsWellFoundedOn(R, Nat)
  BY NatLessThanWellFounded, <1>1, Zenon
<1> HIDE DEF R
<1>3. PICK x \in S : \A y \in S : ~(<<y, x>> \in R)
  BY <1>2, WFMin
<1>4. ASSUME NEW k \in S PROVE x <= k
  <2>1. ~(k < x)
    BY <1>3 DEF R
  <2> QED
    BY <2>1
<1> QED
  BY <1>4

(* Induction up to n, over a set instead of a predicate.                     *)
LEMMA Induction ==
  ASSUME NEW n \in Nat, NEW S, 0 \in S,
         \A k \in Nat : k < n /\ k \in S => k + 1 \in S
  PROVE  \A k \in 0 .. n : k \in S
<1> DEFINE bad == {k \in 0 .. n : k \notin S}
<1> SUFFICES ASSUME bad # {} PROVE FALSE
  OBVIOUS
<1>0. bad \in SUBSET Nat
  OBVIOUS
<1> HIDE DEF bad
<1>1. PICK m \in bad : \A k \in bad : m <= k
  BY <1>0, Least
<1> USE DEF bad
<1>2. m \in Nat /\ m <= n /\ m # 0 /\ m \notin S
  OBVIOUS
<1>3. m - 1 \in Nat /\ m - 1 < n /\ m - 1 \notin bad
  BY <1>1, <1>2
<1>4. m - 1 \in S /\ (m - 1) + 1 = m
  BY <1>2, <1>3
<1> QED
  BY <1>2, <1>3, <1>4

(* The greatest of finitely many numbers.                                    *)
LEMMA MaxIs ==
  ASSUME NEW n \in Nat, NEW s \in SUBSET (1 .. n), s # {}
  PROVE  Max(s) \in s /\ \A y \in s : y <= Max(s)
<1> DEFINE U == {m \in Nat : \A y \in s : y <= m}
<1>1. n \in U
  OBVIOUS
<1>2. PICK m \in U : \A k \in U : m <= k
  BY <1>1, Least
<1>3. m \in s
  <2> SUFFICES ASSUME m \notin s PROVE FALSE
    OBVIOUS
  <2>0. m \in Nat /\ \A y \in s : y \in Nat /\ y >= 1 /\ y <= m /\ y # m
    BY <1>2
  <2>1. PICK y \in s : TRUE
    OBVIOUS
  <2>2. m - 1 \in Nat
    <3>1. y \in Nat /\ y >= 1 /\ y <= m
      BY <2>0
    <3> QED
      BY <2>0, <3>1
  <2>3. \A z \in s : z <= m - 1
    BY <2>0
  <2> QED
    BY <1>2, <2>2, <2>3
<1>4. \E x \in s : \A y \in s : y <= x
  BY <1>2, <1>3
<1> QED
  BY <1>4 DEF Max

(* The function that FoldLeft applies to the domain of a sequence.           *)
Iterates(tier, limit, base, order, iter) ==
  iter = [s \in SUBSET DOMAIN order |->
            IF s = {} THEN base
            ELSE Consider(tier, limit, iter[s \ {Max(s)}], order[Max(s)])]

(* There is such a function: on the sets of the first m places it is defined  *)
(* by that of the first m - 1.                                              *)
LEMMA IterExists ==
  ASSUME NEW tier, NEW limit, NEW base, NEW n \in Nat, NEW order, DOMAIN order = 1 .. n
  PROVE  \E iter : Iterates(tier, limit, base, order, iter)
<1> DEFINE next(g, s) == IF s = {} THEN base
                         ELSE Consider(tier, limit, g[s \ {Max(s)}], order[Max(s)])
           Is(g, m) == g = [s \in SUBSET (1 .. m) |-> next(g, s)]
           good == {m \in Nat : \E g : Is(g, m)}
<1>1. 0 \in good
  <2> DEFINE none == [s \in SUBSET (1 .. 0) |-> base]
  <2>1. \A s \in SUBSET (1 .. 0) : next(none, s) = base
    BY 1 .. 0 = {}
  <2> HIDE DEF next
  <2>2. Is(none, 0)
    BY <2>1
  <2> HIDE DEF Is, none
  <2> QED
    BY <2>2
<1>2. ASSUME NEW k \in Nat, k < n, k \in good PROVE k + 1 \in good
  <2> DEFINE m == k + 1
  <2>1. m \in Nat /\ m - 1 = k /\ m \in 1 .. n
    BY <1>2
  <2> HIDE DEF m
  <2>2. PICK g : Is(g, k)
    BY <1>2
  <2> DEFINE more == [s \in SUBSET (1 .. m) |-> next(g, s)]
  <2>3. \A s \in SUBSET (1 .. k) : more[s] = g[s]
    <3>1. SUBSET (1 .. k) \subseteq SUBSET (1 .. m)
      BY <2>1
    <3> HIDE DEF next
    <3>2. \A s \in SUBSET (1 .. k) : g[s] = next(g, s)
      BY <2>2
    <3> QED
      BY <3>1, <3>2
  <2>4. ASSUME NEW s \in SUBSET (1 .. m), s # {} PROVE s \ {Max(s)} \in SUBSET (1 .. k)
    <3>1. Max(s) \in s /\ \A y \in s : y <= Max(s)
      BY <2>1, <2>4, MaxIs
    <3>2. ASSUME NEW y \in s, y # Max(s) PROVE y \in 1 .. k
      <4>1. y \in 1 .. m /\ Max(s) \in 1 .. m /\ y <= Max(s)
        BY <3>1
      <4> QED
        BY <4>1, <3>2, <2>1
    <3> QED
      BY <3>2
  <2>5. \A s \in SUBSET (1 .. m) : next(g, s) = next(more, s)
    <3> SUFFICES ASSUME NEW s \in SUBSET (1 .. m) PROVE next(g, s) = next(more, s)
      OBVIOUS
    <3>1. CASE s = {}
      BY <3>1
    <3>2. CASE s # {}
      <4>1. more[s \ {Max(s)}] = g[s \ {Max(s)}]
        BY <2>3, <2>4, <3>2
      <4> HIDE DEF more
      <4> QED
        BY <4>1, <3>2
    <3> QED
      BY <3>1, <3>2
  <2>6. Is(more, m)
    <3> HIDE DEF next
    <3> QED
      BY <2>5
  <2>7. m \in good
    <3> HIDE DEF Is, more
    <3> QED
      BY <2>1, <2>6
  <2> QED
    BY <2>7 DEF m
<1>3. n \in good
  <2> HIDE DEF good
  <2>1. \A k \in Nat : k < n /\ k \in good => k + 1 \in good
    BY <1>2
  <2>2. \A k \in 0 .. n : k \in good
    BY <1>1, <2>1, Induction
  <2> QED
    BY <2>2
<1>4. PICK g : Is(g, n)
  BY <1>3
<1> QED
  BY <1>4 DEF Iterates

(* What considering candidates one after the other goes through: f[k] is what *)
(* the first k of them have led to.                                          *)
Start(held, targets) == [selected |-> held, displaced |-> {}, targets |-> targets]

GoesThrough(tier, limit, held, targets, order, n, f) ==
  /\ f[0] = Start(held, targets)
  /\ \A k \in 1 .. n : f[k] = Consider(tier, limit, f[k - 1], order[k])
  /\ Considered(tier, limit, held, targets, order) = f[n]

(* They do lead somewhere.                                                   *)
LEMMA FoldSteps ==
  ASSUME NEW tier, NEW limit, NEW held, NEW targets,
         NEW n \in Nat, NEW order, DOMAIN order = 1 .. n
  PROVE  \E f : GoesThrough(tier, limit, held, targets, order, n, f)
<1> DEFINE folded == Considered(tier, limit, held, targets, order)
           base == Start(held, targets)
           iter == CHOOSE g : Iterates(tier, limit, base, order, g)
           f == [k \in 0 .. n |-> iter[1 .. k]]
<1>1. folded = iter[DOMAIN order]
  BY DEF Considered, FoldLeft, MapThenFoldSet, Iterates, Start
<1>2. Iterates(tier, limit, base, order, iter)
  <2>1. \E g : Iterates(tier, limit, base, order, g)
    BY IterExists, Zenon
  <2> QED
    BY <2>1, Zenon
<1>3. \A s \in SUBSET (1 .. n) :
        iter[s] = IF s = {} THEN base
                  ELSE Consider(tier, limit, iter[s \ {Max(s)}], order[Max(s)])
  <2> HIDE DEF iter
  <2> QED
    BY <1>2 DEF Iterates
<1> HIDE DEF iter, folded, base
<1>4. f[0] = base
  <2>1. 1 .. 0 = {} /\ 0 \in 0 .. n
    OBVIOUS
  <2> QED
    BY <2>1, <1>3
<1>5. ASSUME NEW k \in 1 .. n PROVE f[k] = Consider(tier, limit, f[k - 1], order[k])
  <2>1. 1 .. k \in SUBSET (1 .. n) /\ 1 .. k # {} /\ k \in Nat
    OBVIOUS
  <2>2. Max(1 .. k) = k
    <3>1. Max(1 .. k) \in 1 .. k /\ \A y \in 1 .. k : y <= Max(1 .. k)
      BY <2>1, MaxIs
    <3>2. k <= Max(1 .. k) /\ Max(1 .. k) \in Nat /\ Max(1 .. k) <= k
      BY <3>1
    <3> QED
      BY <3>2
  <2>3. (1 .. k) \ {k} = 1 .. (k - 1)
    OBVIOUS
  <2>4. iter[1 .. k] = Consider(tier, limit, iter[1 .. (k - 1)], order[k])
    BY <1>3, <2>1, <2>2, <2>3
  <2>5. k \in 0 .. n /\ k - 1 \in 0 .. n
    OBVIOUS
  <2> QED
    BY <2>4, <2>5
<1>6. folded = f[n]
  BY <1>1
<1> HIDE DEF f
<1>7. GoesThrough(tier, limit, held, targets, order, n, f)
  BY <1>4, <1>5, <1>6 DEF GoesThrough, folded, base
<1> QED
  BY <1>7
-----------------------------------------------------------------------------
(* Putting a set into an order misses no element and repeats none.           *)
LEMMA Orders ==
  ASSUME NEW S, IsFiniteSet(S), NEW s \in SetToSeqs(S)
  PROVE  /\ Cardinality(S) \in Nat /\ s \in [1 .. Cardinality(S) -> S]
         /\ s \in Seq(S) /\ Len(s) = Cardinality(S)
         /\ \A i, j \in 1 .. Cardinality(S) : i # j => s[i] # s[j]
         /\ \A x \in S : \E j \in 1 .. Cardinality(S) : s[j] = x
<1> DEFINE n == Cardinality(S)
<1>1. n \in Nat
  BY FS_CardinalityType
<1>2. s \in [1 .. n -> S] /\ \A i, j \in 1 .. n : i # j => s[i] # s[j]
  BY DEF SetToSeqs
<1> HIDE DEF n
<1>3. s \in Seq(S) /\ Len(s) = n
  BY <1>1, <1>2, SeqDef, LenProperties
<1>4. s \in Injection(1 .. n, S)
  BY <1>2 DEF Injection, IsInjective
<1>5. s \in Surjection(1 .. n, S)
  BY <1>1, <1>4, FS_Injection, FS_Interval DEF n
<1> QED
  BY <1>1, <1>2, <1>3, <1>5 DEF Surjection, n

(* Tiers are numbers.                                                        *)
LEMMA TiersAre ==
  ASSUME NEW wanted, NEW score \in [wanted -> Int]
  PROVE  Tiers(score) \in [wanted -> Nat]
<1>1. ASSUME NEW x, NEW min, NEW max PROVE TierFromRange(x, min, max) \in Nat
  <2> DEFINE cuts == {c \in {25, 45, 65, 85} : 100 * (x - min) >= c * (max - min)}
  <2>0. PICK a \in Int, b \in Int : a = 25 /\ b = 85
    OBVIOUS
  <2>1. IsFiniteSet(a .. b)
    BY FS_Interval
  <2>2. cuts \subseteq a .. b
    <3> SUFFICES ASSUME NEW c \in {25, 45, 65, 85} PROVE c \in a .. b
      OBVIOUS
    <3> QED
      BY <2>0
  <2> HIDE DEF cuts
  <2>3. Cardinality(cuts) \in Nat
    BY <2>1, <2>2, FS_Subset, FS_CardinalityType
  <2> QED
    BY <2>3 DEF TierFromRange, cuts
<1>2. ASSUME NEW rank PROVE TierFloor(rank) \in Nat
  BY DEF TierFloor
<1>3. ASSUME NEW a \in Nat, NEW b \in Nat PROVE MaxOf({a, b}) \in Nat
  BY DEF MaxOf
<1> QED
  BY <1>1, <1>2, <1>3 DEF Tiers

(* There is room for the holds among the candidates.                         *)
LEMMA LimitIs ==
  ASSUME NEW kind, NEW wanted, IsFiniteSet(wanted), NEW live, IsFiniteSet(live),
         NEW max \in Nat
  PROVE  LET limit == Limit(kind, wanted, live, max)
             n     == Cardinality(wanted)
         IN  /\ limit \in Nat
             /\ Cardinality(live \cap wanted) <= limit
             /\ limit <= n
             /\ limit < n => max # 0 /\ max <= limit
             /\ max # 0 => limit <= max \/ limit <= Cardinality(live)
<1> DEFINE n     == Cardinality(wanted)
           base  == IF max = 0 \/ max > n THEN n ELSE max
           both  == Cardinality(live \cap wanted)
           all   == Cardinality(live)
           holds == Cardinality(IF kind = "refinement" THEN live \cap wanted ELSE live)
           limit == IF holds <= base THEN base ELSE MinOf({holds, n})
<1>1. n \in Nat /\ all \in Nat /\ both \in Nat /\ both <= n /\ both <= all
  <2>1. live \cap wanted \in SUBSET live /\ live \cap wanted \in SUBSET wanted
    OBVIOUS
  <2>2. IsFiniteSet(live \cap wanted) /\ both <= n /\ both <= all
    BY <2>1, FS_Subset
  <2> QED
    BY <2>2, FS_CardinalityType
<1>2. holds \in Nat /\ both <= holds /\ holds <= all
  BY <1>1
<1> HIDE DEF n, both, all, holds
<1>3. MinOf({holds, n}) = IF holds <= n THEN holds ELSE n
  BY <1>1, <1>2 DEF MinOf
<1>4. /\ limit \in Nat /\ both <= limit /\ limit <= n
      /\ limit < n => max # 0 /\ max <= limit
      /\ max # 0 => limit <= max \/ limit <= all
  BY <1>1, <1>2, <1>3
<1> QED
  BY <1>4 DEF Limit, n, both, all, holds
-----------------------------------------------------------------------------
(* What one frame's selection has led to, when the candidates in done have   *)
(* been considered: who has a slot, ...                                     *)
Seats(wanted, held, limit, done, s) ==
  /\ s.selected \subseteq wanted /\ Cardinality(s.selected) <= limit
  /\ s.displaced \subseteq held /\ s.selected \cap s.displaced = {}
  /\ held \subseteq s.selected \cup s.displaced
  /\ s.selected \subseteq held \cup done

(* ... which holds may still be displaced, the weakest first, ...            *)
Weakest(held, tier, s) ==
  /\ \A j \in 1 .. Len(s.targets) :
       s.targets[j] \in s.selected \cap held /\ ~Protected(tier[s.targets[j]])
  /\ \A i, j \in 1 .. Len(s.targets) :
       i < j => s.targets[i] # s.targets[j] /\ tier[s.targets[i]] <= tier[s.targets[j]]
  /\ \A h \in held : Protected(tier[h]) \/ h \in s.displaced
                    \/ \E j \in 1 .. Len(s.targets) : s.targets[j] = h

(* ... and that who has none was outranked.                                  *)
Outranked(held, limit, score, tier, done, s) ==
  LET turned == done \ (s.selected \cup s.displaced) IN
  /\ turned \cup s.displaced # {} => Cardinality(s.selected) = limit
  /\ \A d \in turned \cup s.displaced : \A j \in 1 .. Len(s.targets) :
       tier[d] <= tier[s.targets[j]]
  /\ \A d \in turned, o \in s.selected \ held : score[o] >= score[d] \/ tier[o] > tier[d]
  /\ \A d \in s.displaced : /\ ~Protected(tier[d])
                            /\ \E o \in s.selected \ held : tier[o] > tier[d]

Deciding(wanted, held, limit, score, tier, done, s) ==
  /\ s \in [selected : SUBSET wanted, displaced : SUBSET wanted, targets : Seq(wanted)]
  /\ Seats(wanted, held, limit, done, s)
  /\ Weakest(held, tier, s)
  /\ Outranked(held, limit, score, tier, done, s)

(* The next candidate in the order of scores changes nothing about that.     *)
LEMMA ConsiderNext ==
  ASSUME NEW wanted, IsFiniteSet(wanted), NEW held \in SUBSET wanted, NEW limit \in Nat,
         NEW score \in [wanted -> Int], NEW tier \in [wanted -> Nat],
         NEW done \in SUBSET wanted, NEW i \in wanted, \A d \in done : score[d] >= score[i],
         NEW s, Deciding(wanted, held, limit, score, tier, done, s)
  PROVE  Deciding(wanted, held, limit, score, tier, done \cup {i}, Consider(tier, limit, s, i))
<1> DEFINE D(r) == Deciding(wanted, held, limit, score, tier, done \cup {i}, r)
<1>1. /\ s \in [selected : SUBSET wanted, displaced : SUBSET wanted, targets : Seq(wanted)]
      /\ Seats(wanted, held, limit, done, s)
      /\ Weakest(held, tier, s)
      /\ Outranked(held, limit, score, tier, done, s)
  BY DEF Deciding
<1>2. IsFiniteSet(s.selected) /\ Cardinality(s.selected) \in Nat
  BY <1>1, FS_Subset, FS_CardinalityType
<1>3. CASE i \in s.selected
  BY <1>1, <1>3 DEF Consider, Deciding, Seats, Weakest, Outranked
<1>4. CASE i \notin s.selected /\ Cardinality(s.selected) < limit
  <2> DEFINE r == [s EXCEPT !.selected = @ \cup {i}]
  <2>1. /\ r.selected = s.selected \cup {i} /\ r.displaced = s.displaced /\ r.targets = s.targets
        /\ r \in [selected : SUBSET wanted, displaced : SUBSET wanted, targets : Seq(wanted)]
    BY <1>1
  <2>2. Cardinality(r.selected) = Cardinality(s.selected) + 1
    BY <1>2, <1>4, <2>1, FS_AddElement
  <2>3. s.displaced = {} /\ done \subseteq s.selected
    BY <1>1, <1>2, <1>4 DEF Outranked
  <2> HIDE DEF r
  <2>4. Seats(wanted, held, limit, done \cup {i}, r)
    BY <1>1, <1>2, <1>4, <2>1, <2>2, <2>3 DEF Seats
  <2>5. Weakest(held, tier, r)
    BY <1>1, <2>1 DEF Weakest
  <2>6. Outranked(held, limit, score, tier, done \cup {i}, r)
    BY <2>1, <2>3 DEF Outranked
  <2>7. Consider(tier, limit, s, i) = r
    BY <1>4 DEF Consider, r
  <2> QED
    BY <2>1, <2>4, <2>5, <2>6, <2>7 DEF Deciding
<1>5. CASE /\ i \notin s.selected /\ ~(Cardinality(s.selected) < limit)
           /\ s.targets = <<>> \/ tier[i] <= tier[Head(s.targets)]
  <2>1. Consider(tier, limit, s, i) = s
    BY <1>5 DEF Consider
  <2>2. Cardinality(s.selected) = limit
    BY <1>1, <1>2, <1>5 DEF Seats
  <2>3. \A j \in 1 .. Len(s.targets) : tier[i] <= tier[s.targets[j]]
    <3> SUFFICES ASSUME NEW j \in 1 .. Len(s.targets) PROVE tier[i] <= tier[s.targets[j]]
      OBVIOUS
    <3>1. s.targets # <<>> /\ Head(s.targets) = s.targets[1] /\ 1 \in 1 .. Len(s.targets)
      BY <1>1
    <3>2. tier[s.targets[1]] <= tier[s.targets[j]]
      BY <1>1, <3>1 DEF Weakest
    <3>3. tier[i] \in Nat /\ tier[s.targets[1]] \in Nat /\ tier[s.targets[j]] \in Nat
      BY <1>1, <3>1
    <3> QED
      BY <1>5, <3>1, <3>2, <3>3
  <2>4. ASSUME NEW o \in s.selected \ held PROVE score[o] >= score[i]
    BY <1>1 DEF Seats
  <2>5. Seats(wanted, held, limit, done \cup {i}, s)
    BY <1>1 DEF Seats
  <2>6. Outranked(held, limit, score, tier, done \cup {i}, s)
    BY <1>1, <2>2, <2>3, <2>4 DEF Outranked
  <2> QED
    BY <1>1, <2>1, <2>5, <2>6 DEF Deciding
<1>6. CASE /\ i \notin s.selected /\ ~(Cardinality(s.selected) < limit)
           /\ s.targets # <<>> /\ ~(tier[i] <= tier[Head(s.targets)])
  <2> DEFINE t == Head(s.targets)
             r == [selected  |-> (s.selected \ {t}) \cup {i},
                   displaced |-> s.displaced \cup {t},
                   targets   |-> Tail(s.targets)]
             n == Len(s.targets)
  <2>1. /\ n \in Nat /\ 1 \in 1 .. n /\ t = s.targets[1]
        /\ Tail(s.targets) \in Seq(wanted) /\ Len(Tail(s.targets)) = n - 1
        /\ \A j \in 1 .. n - 1 : Tail(s.targets)[j] = s.targets[j + 1] /\ j + 1 \in 1 .. n
    BY <1>1, <1>6
  <2>2. /\ t \in s.selected \cap held /\ ~Protected(tier[t])
        /\ \A j \in 2 .. n : s.targets[j] # t /\ tier[t] <= tier[s.targets[j]]
    BY <1>1, <2>1 DEF Weakest
  <2>3. tier[i] > tier[t] /\ t # i
    BY <1>6, <2>2
  <2> HIDE DEF t
  <2>4. /\ r.selected = (s.selected \ {t}) \cup {i}
        /\ r.displaced = s.displaced \cup {t} /\ r.targets = Tail(s.targets)
        /\ r \in [selected : SUBSET wanted, displaced : SUBSET wanted, targets : Seq(wanted)]
    BY <1>1, <2>1, <2>2
  <2> HIDE DEF r, n
  <2>5. Cardinality(s.selected) = limit
    BY <1>1, <1>2, <1>6 DEF Seats
  <2>6. Cardinality(r.selected) = limit
    <3>1. IsFiniteSet(s.selected \ {t}) /\ Cardinality(s.selected \ {t}) = limit - 1
      BY <1>2, <2>2, <2>5, FS_RemoveElement
    <3>2. i \notin s.selected \ {t}
      BY <1>6
    <3> DEFINE rest == s.selected \ {t}
    <3> HIDE DEF rest
    <3>3. Cardinality(rest \cup {i}) = Cardinality(rest) + 1
      BY <3>1, <3>2, FS_AddElement DEF rest
    <3>4. Cardinality(r.selected) = (limit - 1) + 1
      BY <2>4, <3>1, <3>3 DEF rest
    <3> QED
      BY <3>4
  <2>7. i \notin held /\ i \notin done
    <3>1. \A d \in (done \ s.selected) \cup s.displaced : tier[d] <= tier[t]
      BY <1>1, <2>1 DEF Outranked
    <3>2. i \notin (done \ s.selected) \cup s.displaced
      BY <2>2, <2>3, <3>1
    <3> QED
      BY <1>1, <1>6, <3>2 DEF Seats
  <2>8. Seats(wanted, held, limit, done \cup {i}, r)
    BY <1>1, <2>2, <2>3, <2>4, <2>6, <2>7 DEF Seats
  <2>9. \A j \in 1 .. n - 1 : /\ r.targets[j] = s.targets[j + 1] /\ j + 1 \in 2 .. n
                              /\ j + 1 \in 1 .. n
    <3> SUFFICES ASSUME NEW j \in 1 .. n - 1
                 PROVE  /\ r.targets[j] = s.targets[j + 1] /\ j + 1 \in 2 .. n
                        /\ j + 1 \in 1 .. n
      OBVIOUS
    <3>1. r.targets[j] = s.targets[j + 1] /\ j + 1 \in 1 .. n
      BY <2>1, <2>4
    <3>2. j + 1 # 1
      BY <2>1
    <3> QED
      BY <2>1, <3>1, <3>2
  <2>10. Len(r.targets) = n - 1
    BY <2>1, <2>4
  <2>11. Weakest(held, tier, r)
    <3>1. \A j \in 1 .. n - 1 :
            r.targets[j] \in r.selected \cap held /\ ~Protected(tier[r.targets[j]])
      BY <1>1, <2>2, <2>4, <2>9, ZenonT(40) DEF Weakest, n
    <3>2. \A j, k \in 1 .. n - 1 : j < k =>
            r.targets[j] # r.targets[k] /\ tier[r.targets[j]] <= tier[r.targets[k]]
      <4> SUFFICES ASSUME NEW j \in 1 .. n - 1, NEW k \in 1 .. n - 1, j < k
                   PROVE  r.targets[j] # r.targets[k] /\ tier[r.targets[j]] <= tier[r.targets[k]]
        OBVIOUS
      <4>1. j + 1 \in 1 .. n /\ k + 1 \in 1 .. n /\ j + 1 < k + 1
        BY <2>1, <2>9
      <4>2. /\ s.targets[j + 1] # s.targets[k + 1]
            /\ tier[s.targets[j + 1]] <= tier[s.targets[k + 1]]
        BY <1>1, <4>1 DEF Weakest, n
      <4> QED
        BY <2>9, <4>2
    <3>3. ASSUME NEW h \in held, ~Protected(tier[h]), h \notin r.displaced
          PROVE  \E j \in 1 .. n - 1 : r.targets[j] = h
      <4>1. h # t /\ h \notin s.displaced
        BY <2>4, <3>3
      <4>2. PICK j \in 1 .. n : s.targets[j] = h
        BY <1>1, <3>3, <4>1 DEF Weakest, n
      <4>3. j # 1 /\ j \in Nat
        BY <2>1, <4>1, <4>2
      <4>4. j - 1 \in 1 .. n - 1 /\ (j - 1) + 1 = j
        BY <2>1, <4>2, <4>3
      <4> QED
        BY <2>9, <4>2, <4>4
    <3> QED
      BY <2>10, <3>1, <3>2, <3>3 DEF Weakest
  <2>12. Outranked(held, limit, score, tier, done \cup {i}, r)
    <3> DEFINE lost == (done \cup {i}) \ (r.selected \cup r.displaced)
    <3>1. /\ lost \subseteq done \ (s.selected \cup s.displaced)
          /\ s.selected \ held \subseteq r.selected \ held
          /\ r.selected \ held = (s.selected \ held) \cup {i}
      BY <2>2, <2>4, <2>7
    <3> HIDE DEF lost
    <3>2. \A d \in lost \cup s.displaced : d \in wanted /\ tier[d] <= tier[t]
      BY <1>1, <2>1, <3>1 DEF Outranked, n
    <3>3. ASSUME NEW d \in lost \cup r.displaced, NEW j \in 1 .. n - 1
          PROVE  tier[d] <= tier[r.targets[j]]
      <4>1. tier[t] <= tier[r.targets[j]] /\ r.targets[j] \in wanted /\ t \in wanted
        BY <1>1, <2>2, <2>9 DEF Weakest, n
      <4>2. d \in wanted /\ tier[d] <= tier[t]
        BY <2>2, <2>4, <3>2
      <4> QED
        BY <4>1, <4>2
    <3>4. ASSUME NEW d \in lost, NEW o \in r.selected \ held
          PROVE  score[o] >= score[d] \/ tier[o] > tier[d]
      <4>1. CASE o = i
        BY <2>2, <2>3, <3>2, <4>1
      <4>2. CASE o # i
        BY <1>1, <3>1, <4>2 DEF Outranked
      <4> QED
        BY <4>1, <4>2
    <3>5. \A d \in r.displaced : /\ ~Protected(tier[d])
                                 /\ \E o \in r.selected \ held : tier[o] > tier[d]
      BY <1>1, <2>2, <2>3, <2>4, <3>1 DEF Outranked
    <3> QED
      BY <2>6, <2>10, <3>3, <3>4, <3>5 DEF Outranked, lost
  <2>13. Consider(tier, limit, s, i) = r
    BY <1>6 DEF Consider, r, t
  <2> QED
    BY <2>4, <2>8, <2>11, <2>12, <2>13 DEF Deciding
<1> QED
  BY <1>3, <1>4, <1>5, <1>6

(* The holds start in their slots.                                           *)
LEMMA HoldsFirst ==
  ASSUME NEW wanted, IsFiniteSet(wanted), NEW held \in SUBSET wanted, NEW limit \in Nat,
         Cardinality(held) <= limit,
         NEW score \in [wanted -> Int], NEW targets \in Displaceable(held, score)
  PROVE  Deciding(wanted, held, limit, score, Tiers(score), {},
                  Start(held, targets))
<1> DEFINE tier == Tiers(score)
           weak == {i \in held : ~Protected(tier[i])}
           s    == Start(held, targets)
<1>1. tier \in [wanted -> Nat]
  BY TiersAre
<1>2. targets \in SetToSeqs(weak)
  BY DEF Displaceable, SortedBy
<1>3. \A m, n \in 1 .. Len(targets) : m < n => ~(tier[targets[n]] < tier[targets[m]])
  BY DEF Displaceable, SortedBy
<1> HIDE DEF tier
<1>4. IsFiniteSet(weak)
  BY FS_Subset
<1>5. weak \subseteq held
  OBVIOUS
<1> HIDE DEF weak
<1>6. /\ targets \in Seq(weak) /\ Len(targets) = Cardinality(weak)
      /\ \A j \in 1 .. Len(targets) : targets[j] \in weak
      /\ \A i, j \in 1 .. Len(targets) : i # j => targets[i] # targets[j]
      /\ \A x \in weak : \E j \in 1 .. Len(targets) : targets[j] = x
  BY <1>2, <1>4, Orders
<1>7. targets \in Seq(wanted)
  BY <1>5, <1>6
<1>8. /\ s.selected = held /\ s.displaced = {} /\ s.targets = targets
      /\ s \in [selected : SUBSET wanted, displaced : SUBSET wanted, targets : Seq(wanted)]
  BY <1>7 DEF Start
<1> HIDE DEF s
<1>9. Seats(wanted, held, limit, {}, s)
  BY <1>8 DEF Seats
<1>10. Weakest(held, tier, s)
  <2>1. \A i, j \in 1 .. Len(targets) : i < j => tier[targets[i]] <= tier[targets[j]]
    <3> SUFFICES ASSUME NEW i \in 1 .. Len(targets), NEW j \in 1 .. Len(targets), i < j
                 PROVE  tier[targets[i]] <= tier[targets[j]]
      OBVIOUS
    <3>1. tier[targets[i]] \in Nat /\ tier[targets[j]] \in Nat
      BY <1>1, <1>5, <1>6
    <3> QED
      BY <1>3, <3>1
  <2>2. \A i, j \in 1 .. Len(targets) : i < j => targets[i] # targets[j]
    BY <1>6
  <2> QED
    BY <1>5, <1>6, <1>8, <2>1, <2>2, SMTT(30) DEF Weakest, weak
<1>11. Outranked(held, limit, score, tier, {}, s)
  BY <1>8 DEF Outranked
<1> QED
  BY <1>8, <1>9, <1>10, <1>11 DEF Deciding, tier, s

(* So that is what comes out when all the candidates have been considered.   *)
LEMMA SelectionsAre ==
  ASSUME NEW kind, NEW score, NEW live, IsFiniteSet(live), NEW max \in Nat,
         IsFiniteSet(DOMAIN score), score \in [DOMAIN score -> Int],
         NEW s, s \in Selections(kind, score, live, max)
  PROVE  Deciding(DOMAIN score, live \cap DOMAIN score, Limit(kind, DOMAIN score, live, max),
                  score, Tiers(score), DOMAIN score, s)
<1> DEFINE wanted == DOMAIN score
           held   == live \cap wanted
           tier   == Tiers(score)
           limit  == Limit(kind, wanted, live, max)
           n      == Cardinality(wanted)
<1>1. PICK order \in ByScore(score), targets \in Displaceable(held, score) :
        s = Considered(tier, limit, held, targets, order)
  <2> DEFINE out == Selections(kind, score, live, max)
  <2>1. out = {Considered(tier, limit, held, targets, order) :
                 order \in ByScore(score), targets \in Displaceable(held, score)}
    BY DEF Selections
  <2> HIDE DEF tier, limit, held, out
  <2>2. s \in out
    BY DEF out
  <2> QED
    BY <2>1, <2>2
<1>2. /\ n \in Nat /\ order \in [1 .. n -> wanted]
      /\ \A x \in wanted : \E j \in 1 .. n : order[j] = x
      /\ Len(order) = n
  <2>1. order \in SetToSeqs(wanted)
    BY DEF ByScore, SortedBy
  <2> QED
    BY <2>1, Orders
<1>3. \A i, j \in 1 .. n : i < j => score[order[i]] >= score[order[j]]
  <2>1. \A i, j \in 1 .. Len(order) : i < j => ~(score[order[j]] > score[order[i]])
    BY DEF ByScore, SortedBy
  <2> QED
    BY <1>2, <2>1
<1>4. limit \in Nat /\ Cardinality(held) <= limit /\ held \in SUBSET wanted
  BY LimitIs
<1>5. tier \in [wanted -> Nat]
  BY TiersAre
<1>6. PICK f : GoesThrough(tier, limit, held, targets, order, n, f)
  <2>1. n \in Nat /\ DOMAIN order = 1 .. n
    BY <1>2
  <2> HIDE DEF tier, limit, n, held
  <2> QED
    BY <2>1, FoldSteps
<1>7. /\ s = f[n] /\ f[0] = Start(held, targets)
      /\ \A k \in 1 .. n : f[k] = Consider(tier, limit, f[k - 1], order[k])
  <2> HIDE DEF tier, limit, n, held
  <2> QED
    BY <1>1, <1>6 DEF GoesThrough
<1> DEFINE Done(k) == {order[j] : j \in 1 .. k}
           good    == {k \in Nat : Deciding(wanted, held, limit, score, tier, Done(k), f[k])}
<1> HIDE DEF held, limit, n
<1>8. 0 \in good
  <2>1. Done(0) = {}
    OBVIOUS
  <2>2. Deciding(wanted, held, limit, score, Tiers(score), {}, Start(held, targets))
    BY <1>4, HoldsFirst
  <2> HIDE DEF Done
  <2> QED
    BY <1>7, <2>1, <2>2
<1>9. ASSUME NEW k \in Nat, k < n, k \in good PROVE k + 1 \in good
  <2>1. k + 1 \in 1 .. n /\ (k + 1) - 1 = k /\ \A j \in 1 .. k : j \in 1 .. n /\ j < k + 1
    BY <1>2, <1>9
  <2>2. Done(k + 1) = Done(k) \cup {order[k + 1]}
    BY <2>1
  <2>3. Done(k) \in SUBSET wanted /\ \A d \in Done(k) : score[d] >= score[order[k + 1]]
    BY <1>2, <1>3, <2>1
  <2>4. f[k + 1] = Consider(tier, limit, f[k], order[k + 1]) /\ order[k + 1] \in wanted
    BY <1>2, <1>7, <2>1
  <2>5. Deciding(wanted, held, limit, score, tier, Done(k), f[k])
    BY <1>9
  <2> HIDE DEF Done, tier
  <2>6. Deciding(wanted, held, limit, score, tier, Done(k) \cup {order[k + 1]}, f[k + 1])
    BY <1>4, <1>5, <2>3, <2>4, <2>5, ConsiderNext
  <2>7. k + 1 \in Nat
    OBVIOUS
  <2> QED
    BY <2>2, <2>6, <2>7
<1>10. n \in good
  <2> HIDE DEF good
  <2>1. \A k \in 0 .. n : k \in good
    BY <1>2, <1>8, <1>9, Induction
  <2> QED
    BY <1>2, <2>1
<1>11. Done(n) = wanted
  BY <1>2
<1> QED
  BY <1>7, <1>10, <1>11 DEF held, limit

(* What that says of the slots, of the holds and of those who lost.          *)
Chosen(score, live, max, s) ==
  LET n      == Cardinality(s.selected)
      fresh  == s.selected \ live
      turned == DOMAIN score \ (s.selected \cup s.displaced)
      tier   == Tiers(score)
  IN  /\ s.selected \subseteq DOMAIN score /\ s.displaced \subseteq live \cap DOMAIN score
      /\ s.selected \cap s.displaced = {}
      /\ live \cap DOMAIN score \subseteq s.selected \cup s.displaced
      /\ turned \cup s.displaced # {} => max # 0 /\ n >= max
      /\ max # 0 => n <= MaxOf({max, Cardinality(live)})
      /\ \A d \in turned, o \in fresh : score[o] >= score[d] \/ tier[o] > tier[d]
      /\ \A d \in s.displaced : /\ ~Protected(tier[d])
                                /\ \E o \in fresh : tier[o] > tier[d]
                                /\ \A h \in s.selected \cap live : tier[h] >= tier[d]

(* A selection is chosen rightly: it is what considering everybody leads to.  *)
LEMMA SelectionsChosen ==
  ASSUME NEW kind, NEW score, NEW live, IsFiniteSet(live), NEW max \in Nat,
         IsFiniteSet(DOMAIN score), score \in [DOMAIN score -> Int],
         NEW s, s \in Selections(kind, score, live, max)
  PROVE  Chosen(score, live, max, s)
<1> DEFINE wanted == DOMAIN score
           held   == live \cap wanted
           tier   == Tiers(score)
           limit  == Limit(kind, wanted, live, max)
           n      == Cardinality(s.selected)
           turned == wanted \ (s.selected \cup s.displaced)
<1>1. /\ limit \in Nat /\ limit <= Cardinality(wanted)
      /\ limit < Cardinality(wanted) => max # 0 /\ max <= limit
      /\ max # 0 => limit <= max \/ limit <= Cardinality(live)
  BY LimitIs
<1>2. Deciding(wanted, held, limit, score, tier, wanted, s)
  BY SelectionsAre
<1>3. tier \in [wanted -> Nat]
  BY TiersAre
<1> HIDE DEF tier, limit
<1>4. /\ Seats(wanted, held, limit, wanted, s) /\ Weakest(held, tier, s)
      /\ Outranked(held, limit, score, tier, wanted, s)
  BY <1>2 DEF Deciding
<1>5. /\ s.selected \subseteq wanted /\ n <= limit /\ s.displaced \subseteq held
      /\ s.selected \cap s.displaced = {} /\ held \subseteq s.selected \cup s.displaced
  BY <1>4 DEF Seats
<1>6. n \in Nat /\ Cardinality(wanted) \in Nat /\ Cardinality(live) \in Nat
  BY <1>5, FS_Subset, FS_CardinalityType
<1>7. turned \cup s.displaced # {} => max # 0 /\ n >= max
  <2> SUFFICES ASSUME turned \cup s.displaced # {} PROVE max # 0 /\ n >= max
    OBVIOUS
  <2>1. n = limit
    BY <1>4 DEF Outranked
  <2>2. s.selected # wanted
    BY <1>5
  <2>3. n # Cardinality(wanted) /\ n <= Cardinality(wanted)
    BY <1>5, <2>2, FS_Subset
  <2> QED
    BY <1>1, <1>6, <2>1, <2>3
<1>8. max # 0 => n <= MaxOf({max, Cardinality(live)})
  <2> DEFINE m == Cardinality(live)
  <2>1. m \in Nat
    BY <1>6
  <2> HIDE DEF m
  <2>2. MaxOf({max, m}) = IF max >= m THEN max ELSE m
    BY <2>1 DEF MaxOf
  <2> QED
    BY <1>1, <1>5, <1>6, <2>1, <2>2 DEF m
<1>9. s.selected \ live = s.selected \ held
  BY <1>5
<1>10. \A d \in turned, o \in s.selected \ live : score[o] >= score[d] \/ tier[o] > tier[d]
  BY <1>4, <1>9 DEF Outranked
<1>11. \A d \in s.displaced : /\ ~Protected(tier[d])
                              /\ \E o \in s.selected \ live : tier[o] > tier[d]
  BY <1>4, <1>9 DEF Outranked
<1>12. ASSUME NEW d \in s.displaced, NEW h \in s.selected \cap live PROVE tier[h] >= tier[d]
  <2>1. h \in held /\ h \notin s.displaced /\ tier[h] \in Nat /\ tier[d] \in Nat
    BY <1>3, <1>5
  <2>2. CASE Protected(tier[h])
    BY <1>11, <2>1, <2>2 DEF Protected
  <2>3. CASE ~Protected(tier[h])
    <3>1. PICK j \in 1 .. Len(s.targets) : s.targets[j] = h
      BY <1>4, <2>1, <2>3 DEF Weakest
    <3>2. tier[d] <= tier[h]
      BY <1>4, <3>1 DEF Outranked
    <3> QED
      BY <2>1, <3>2
  <2> QED
    BY <2>2, <2>3
<1> QED
  BY <1>5, <1>7, <1>8, <1>10, <1>11, <1>12 DEF Chosen, tier
-----------------------------------------------------------------------------
(* What the last frame selected has just got its whole time as a hold.       *)
HoldsSound ==
  /\ hold \in [DOMAIN hold -> Int] /\ DOMAIN hold \subseteq Ids
  /\ HoldDur > 0 => \A i \in last.selected : i \in DOMAIN hold /\ hold[i] = HoldDur

QueueSound == queue \in [DOMAIN queue -> Nat]

ArbiterInv == HoldsSound /\ QueueSound /\ AdmittedRightly

(* What a hold gets in the next frame: its slot, or somebody of a higher tier *)
(* has taken it.                                                            *)
HoldsKept(live) ==
  \A i \in live \cap Wanted' :
    \/ i \in last'.selected
    \/ /\ ~Protected(Tiers(last'.score)[i])
       /\ \E o \in Fresh' : Tiers(last'.score)[o] > Tiers(last'.score)[i]

(* A frame with candidates.                                                  *)
LEMMA DecideRight ==
  ASSUME NEW score, DOMAIN score \subseteq Ids, score \in [DOMAIN score -> Int],
         NEW max \in Nat, NEW h, DOMAIN h \subseteq Ids, h \in [DOMAIN h -> Int],
         Decide(score, max, h)
  PROVE  HoldsSound' /\ AdmittedRightly' /\ HoldsKept(DOMAIN h)
<1> DEFINE live == DOMAIN h
           tier == Tiers(score)
<1>1. IsFiniteSet(DOMAIN score) /\ IsFiniteSet(live) /\ HoldDur \in Nat
  BY ArbiterAssumption, FS_Subset
<1>2. PICK s \in Selections(pool, score, live, max) :
        /\ hold' = Renew(h, s)
        /\ last' = [score |-> score, max |-> max, live |-> live,
                    selected |-> s.selected, displaced |-> s.displaced]
  BY DEF Decide
<1>3. Chosen(score, live, max, s)
  BY <1>1, <1>2, SelectionsChosen
<1>4. /\ last'.score = score /\ last'.max = max /\ last'.live = live
      /\ last'.selected = s.selected /\ last'.displaced = s.displaced
  BY <1>2
<1>5. /\ Wanted' = DOMAIN score /\ Fresh' = s.selected \ live
      /\ Turned' = DOMAIN score \ (s.selected \cup s.displaced)
  BY <1>4 DEF Wanted, Fresh, Turned
<1> HIDE DEF tier
<1>6. /\ s.selected \subseteq DOMAIN score /\ s.displaced \subseteq live \cap DOMAIN score
      /\ s.selected \cap s.displaced = {}
      /\ live \cap DOMAIN score \subseteq s.selected \cup s.displaced
  BY <1>3 DEF Chosen
<1>7. HoldDur = 0 => hold' = h
  BY <1>2 DEF Renew
<1>8. HoldDur > 0 =>
        /\ DOMAIN hold' = (live \ s.displaced) \cup s.selected
        /\ \A i \in DOMAIN hold' : hold'[i] = IF i \in s.selected THEN HoldDur ELSE h[i]
        /\ hold' \in [DOMAIN hold' -> Int]
  <2> SUFFICES ASSUME HoldDur > 0
               PROVE  /\ DOMAIN hold' = (live \ s.displaced) \cup s.selected
                      /\ \A i \in DOMAIN hold' :
                           hold'[i] = IF i \in s.selected THEN HoldDur ELSE h[i]
                      /\ hold' \in [DOMAIN hold' -> Int]
    OBVIOUS
  <2>1. hold' = [i \in (live \ s.displaced) \cup s.selected |->
                   IF i \in s.selected THEN HoldDur ELSE h[i]]
    BY <1>2, <1>1 DEF Renew
  <2>2. \A i \in (live \ s.displaced) \cup s.selected :
          (IF i \in s.selected THEN HoldDur ELSE h[i]) \in Int
    BY <1>1
  <2> QED
    BY <2>1, <2>2
<1>9. HoldsSound'
  <2>1. CASE HoldDur = 0
    BY <1>7, <2>1 DEF HoldsSound
  <2>2. CASE HoldDur > 0
    BY <1>4, <1>6, <1>8, <2>2 DEF HoldsSound
  <2> QED
    BY <1>1, <2>1, <2>2
<1>10. SlotsAndHolds'
  <2>1. HoldDur > 0 => DOMAIN hold' \cap DOMAIN score = s.selected
    BY <1>6, <1>8
  <2> QED
    BY <1>3, <1>4, <1>5, <2>1 DEF SlotsAndHolds, Chosen
<1>11. LosersOutranked'
  BY <1>3, <1>4, <1>5 DEF LosersOutranked, Chosen
<1>12. HoldsKept(live)
  BY <1>3, <1>4, <1>5 DEF HoldsKept, Chosen
<1> QED
  BY <1>9, <1>10, <1>11, <1>12 DEF AdmittedRightly

(* A frame without candidates decides nothing.                               *)
LEMMA NothingDecided ==
  ASSUME NEW max \in Nat, last' = [Nothing EXCEPT !.max = max],
         hold' \in [DOMAIN hold' -> Int], DOMAIN hold' \subseteq Ids
  PROVE  HoldsSound' /\ AdmittedRightly' /\ \A live : HoldsKept(live)
<1>1. /\ last'.score = <<>> /\ last'.max = max /\ last'.live = {}
      /\ last'.selected = {} /\ last'.displaced = {}
  BY DEF Nothing
<1>2. Wanted' = {} /\ Fresh' = {} /\ Turned' = {}
  BY <1>1 DEF Wanted, Fresh, Turned
<1>3. Cardinality({}) = 0 /\ MaxOf({max, 0}) = max
  BY FS_EmptySet DEF MaxOf
<1>4. SlotsAndHolds'
  <2>1. Cardinality(last'.selected) = 0 /\ MaxOf({last'.max, Cardinality(last'.live)}) = max
    BY <1>1, <1>3
  <2>2. Turned' \cup last'.displaced = {} /\ DOMAIN hold' \cap Wanted' = last'.selected
    BY <1>1, <1>2
  <2>3. 0 <= max
    OBVIOUS
  <2> QED
    BY <2>1, <2>2, <2>3 DEF SlotsAndHolds
<1>5. LosersOutranked'
  BY <1>1, <1>2 DEF LosersOutranked
<1>6. HoldsSound'
  BY <1>1 DEF HoldsSound
<1>7. \A live : HoldsKept(live)
  BY <1>2 DEF HoldsKept
<1> QED
  BY <1>4, <1>5, <1>6, <1>7 DEF AdmittedRightly

(* One frame later, a hold that has just been renewed has not expired.        *)
LEMMA ExpireLater ==
  ASSUME HoldsSound
  PROVE  LET h == Expire(Remaining) IN
         /\ h \in [DOMAIN h -> Int] /\ DOMAIN h \subseteq Ids
         /\ HoldDur > 0 => last.selected \subseteq DOMAIN h
<1> DEFINE kept == {i \in DOMAIN hold : hold[i] - 1 >= 0}
           h    == Expire(Remaining)
<1>1. h = [i \in kept |-> hold[i] - 1]
  BY DEF Expire, Remaining
<1> HIDE DEF h
<1>2. h \in [kept -> Int] /\ DOMAIN h = kept /\ kept \subseteq Ids
  BY <1>1 DEF HoldsSound
<1>3. HoldDur > 0 => last.selected \subseteq kept
  BY ArbiterAssumption DEF HoldsSound
<1> QED
  BY <1>2, <1>3 DEF h

(* The arbiter starts with nothing decided.                                   *)
LEMMA InitRight == Init => ArbiterInv
<1> SUFFICES ASSUME Init PROVE ArbiterInv
  OBVIOUS
<1>1. /\ hold = <<>> /\ queue = <<>> /\ last.score = <<>> /\ last.max = 0
      /\ last.live = {} /\ last.selected = {} /\ last.displaced = {}
  BY DEF Init, Nothing
<1>2. Wanted = {} /\ Fresh = {} /\ Turned = {}
  BY <1>1 DEF Wanted, Fresh, Turned
<1>3. SlotsAndHolds
  BY <1>1, <1>2 DEF SlotsAndHolds
<1>4. LosersOutranked
  BY <1>1, <1>2 DEF LosersOutranked
<1>5. HoldsSound /\ QueueSound
  BY <1>1 DEF HoldsSound, QueueSound
<1> QED
  BY <1>3, <1>4, <1>5 DEF ArbiterInv, AdmittedRightly

(* A frame of any of the pools keeps the invariant and what was held.         *)
LEMMA FrameRight ==
  ArbiterInv /\ Next => ArbiterInv' /\ (HoldDur > 0 => HoldsKept(DOMAIN Expire(Remaining)))
<1> SUFFICES ASSUME ArbiterInv, Next
             PROVE  ArbiterInv' /\ (HoldDur > 0 => HoldsKept(DOMAIN Expire(Remaining)))
  OBVIOUS
<1> DEFINE h == Expire(Remaining)
<1>1. HoldsSound /\ QueueSound
  BY DEF ArbiterInv
<1>2. h \in [DOMAIN h -> Int] /\ DOMAIN h \subseteq Ids
  BY <1>1, ExpireLater
<1> HIDE DEF h
<1>3. CASE AdmitRefinement
  <2>1. PICK wanted \in SUBSET Ids, max \in Budgets : \E score \in [wanted -> Scores] :
          IF wanted = {}
          THEN /\ hold' = [i \in DOMAIN hold |-> MaxOf({hold[i] - 1, -1})]
               /\ last' = [Nothing EXCEPT !.max = max]
          ELSE Decide(score, max, h)
    BY <1>3 DEF AdmitRefinement, h
  <2>2. PICK score \in [wanted -> Scores] :
          IF wanted = {}
          THEN /\ hold' = [i \in DOMAIN hold |-> MaxOf({hold[i] - 1, -1})]
               /\ last' = [Nothing EXCEPT !.max = max]
          ELSE Decide(score, max, h)
    BY <2>1
  <2>3. QueueSound' /\ max \in Nat
    BY <1>1, <1>3, ArbiterAssumption DEF AdmitRefinement, QueueSound
  <2>4. CASE wanted = {}
    <3>1. \A i \in DOMAIN hold : MaxOf({hold[i] - 1, -1}) \in Int
      <4>1. ASSUME NEW a \in Int PROVE MaxOf({a, -1}) \in Int
        BY DEF MaxOf
      <4> QED
        BY <1>1, <4>1 DEF HoldsSound
    <3>2. hold' \in [DOMAIN hold' -> Int] /\ DOMAIN hold' \subseteq Ids
      BY <1>1, <2>2, <2>4, <3>1 DEF HoldsSound
    <3>3. HoldsSound' /\ AdmittedRightly' /\ HoldsKept(DOMAIN h)
      BY <2>2, <2>3, <2>4, <3>2, NothingDecided
    <3> QED
      BY <2>3, <3>3 DEF ArbiterInv, h
  <2>5. CASE wanted # {}
    <3>1. DOMAIN score \subseteq Ids /\ score \in [DOMAIN score -> Int]
      BY ArbiterAssumption
    <3>2. HoldsSound' /\ AdmittedRightly' /\ HoldsKept(DOMAIN h)
      BY <1>2, <2>2, <2>3, <2>5, <3>1, DecideRight
    <3> QED
      BY <2>3, <3>2 DEF ArbiterInv, h
  <2> QED
    BY <2>4, <2>5
<1>4. CASE ApplyDecisions
  <2>1. PICK wanted \in SUBSET Ids, max \in Budgets : \E snr \in [wanted -> Scores] :
          /\ queue' = Enqueue(wanted)
          /\ LET score == [i \in DOMAIN queue' |-> queue'[i] + snr[i]] IN
             IF wanted = {}
             THEN hold' = h /\ last' = [Nothing EXCEPT !.max = max]
             ELSE Decide(score, max, h)
    BY <1>4 DEF ApplyDecisions, h
  <2>2. PICK snr \in [wanted -> Scores] :
          /\ queue' = Enqueue(wanted)
          /\ LET score == [i \in DOMAIN queue' |-> queue'[i] + snr[i]] IN
             IF wanted = {}
             THEN hold' = h /\ last' = [Nothing EXCEPT !.max = max]
             ELSE Decide(score, max, h)
    BY <2>1
  <2>3. queue' \in [wanted -> Nat]
    <3>1. \A i \in wanted :
            (IF i \in DOMAIN queue THEN MinOf({queue[i] + 1, MaxBoost}) ELSE 0) \in Nat
      <4>1. ASSUME NEW a \in Nat PROVE MinOf({a + 1, MaxBoost}) \in Nat
        BY ArbiterAssumption DEF MinOf
      <4> QED
        BY <1>1, <4>1 DEF QueueSound
    <3> QED
      BY <2>2, <3>1 DEF Enqueue
  <2>4. QueueSound' /\ max \in Nat
    BY <2>3, ArbiterAssumption DEF QueueSound
  <2>5. CASE wanted = {}
    <3>1. hold' \in [DOMAIN hold' -> Int] /\ DOMAIN hold' \subseteq Ids
      BY <1>2, <2>2, <2>5
    <3>2. HoldsSound' /\ AdmittedRightly' /\ HoldsKept(DOMAIN h)
      BY <2>2, <2>4, <2>5, <3>1, NothingDecided
    <3> QED
      BY <2>4, <3>2 DEF ArbiterInv, h
  <2>6. CASE wanted # {}
    <3> DEFINE score == [i \in DOMAIN queue' |-> queue'[i] + snr[i]]
    <3>1. DOMAIN score \subseteq Ids /\ score \in [DOMAIN score -> Int]
      <4>1. \A i \in wanted : snr[i] \in Int /\ queue'[i] \in Nat
        BY <2>3, ArbiterAssumption
      <4>2. \A i \in wanted : queue'[i] + snr[i] \in Int
        BY <4>1
      <4>3. DOMAIN queue' = wanted
        BY <2>3
      <4> QED
        BY <4>2, <4>3
    <3>2. Decide(score, max, h)
      BY <2>2, <2>6
    <3> HIDE DEF score
    <3>3. HoldsSound' /\ AdmittedRightly' /\ HoldsKept(DOMAIN h)
      BY <1>2, <2>4, <3>1, <3>2, DecideRight
    <3> QED
      BY <2>4, <3>3 DEF ArbiterInv, h
  <2> QED
    BY <2>5, <2>6
<1> QED
  BY <1>3, <1>4 DEF Next

(* Frames that decide nothing change nothing.                                *)
LEMMA StutterRight == ArbiterInv /\ UNCHANGED vars => ArbiterInv'
BY DEF ArbiterInv, HoldsSound, QueueSound, AdmittedRightly, SlotsAndHolds, LosersOutranked,
       Wanted, Fresh, Turned, vars

(* Slots go to who should have them, and only slots that there are: whatever  *)
(* signals, scores, families, budgets and lengths of holds the arbiter meets.  *)
THEOREM SlotsGoRight == Spec => []AdmittedRightly
<1>1. ArbiterInv /\ [Next]_vars => ArbiterInv'
  BY FrameRight, StutterRight
<1>2. ArbiterInv => AdmittedRightly
  BY DEF ArbiterInv
<1> QED
  BY InitRight, <1>1, <1>2, PTL DEF Spec

(* Selections do not flap: what was selected and is wanted again keeps its    *)
(* slot, unless a candidate of a higher tier that was not held before takes   *)
(* the slot of an unprotected one.                                          *)
THEOREM SelectionsStay == Spec => NoFlapping
<1>1. ArbiterInv /\ [Next]_vars => ArbiterInv'
  BY FrameRight, StutterRight
<1>2. ArbiterInv /\ [Next]_vars => [HoldDur > 0 => KeepsSlot]_vars
  <2> SUFFICES ASSUME ArbiterInv, Next, HoldDur > 0 PROVE KeepsSlot
    OBVIOUS
  <2>1. HoldsKept(DOMAIN Expire(Remaining))
    BY FrameRight
  <2>2. last.selected \subseteq DOMAIN Expire(Remaining)
    BY ExpireLater DEF ArbiterInv
  <2> QED
    BY <2>1, <2>2 DEF KeepsSlot, HoldsKept
<1> QED
  BY InitRight, <1>1, <1>2, PTL DEF Spec, NoFlapping
-----------------------------------------------------------------------------
(* The budgets the arbiter is given, in Budgets: what is lent is lent safely. *)

CONSTANTS Policies, Maxes, Concurrent, Demands
VARIABLES policy, configured, seen, slots

Lender == INSTANCE Budgets

(* Limits and demands are numbers.                                          *)
Counted == Maxes \subseteq Nat /\ Concurrent \subseteq Nat /\ Demands \subseteq Nat

(* Budgets and demands are numbers, and stay numbers.                        *)
BudgetsInv ==
  /\ configured \in [jobs : Nat, concurrent : Nat, record : Nat, decode : Nat]
  /\ seen \in [Lender!Queues -> Nat]

(* The first of the best queues is one of them.                              *)
LEMMA FirstBestIs ==
  ASSUME NEW qs, NEW score
  PROVE  Lender!FirstBest(qs, score) \in qs \cup {"none"}
<1> DEFINE best == {i \in DOMAIN Lender!Queue : Lender!Queue[i] \in qs /\ \A r \in qs : score[r] <= score[Lender!Queue[i]]}
<1>1. best \subseteq {1, 2, 3}
  BY DEF Lender!Queue
<1>2. ASSUME best # {} PROVE Lender!Min(best) \in best
  <2>1. \E m \in best : \A k \in best : m <= k
    BY <1>1, <1>2, SMT
  <2> HIDE DEF best
  <2> QED
    BY <2>1 DEF Lender!Min
<1> QED
  BY <1>2 DEF Lender!FirstBest

(* What a division says of the dividend.                                     *)
LEMMA DivIs ==
  ASSUME NEW x \in Nat, NEW y \in Nat \ {0}
  PROVE  x \div y \in Nat /\ y * (x \div y) <= x /\ x < y * (x \div y) + y
OBVIOUS

(* The budget model has a number for every queue.                            *)
LEMMA BaseIs ==
  ASSUME BudgetsInv
  PROVE  Lender!Base \in [Lender!Queues -> Nat]
  BY DEF BudgetsInv, Lender!Base, Lender!Queues

(* A policy only adds to what a queue is worth.                              *)
LEMMA PreferenceIs ==
  ASSUME NEW q \in Lender!Queues
  PROVE  Lender!Preference(q) \in Nat /\ Lender!Preference(q) >= 20
<1>1. \A h : \A n \in Nat : Lender!If(h, n) \in Nat
  BY DEF Lender!If
<1>2. CASE q = "refinement"
  BY <1>1, <1>2 DEF Lender!Preference
<1>3. CASE q = "record"
  BY <1>1, <1>3 DEF Lender!Preference
<1>4. CASE q = "decode"
  BY <1>1, <1>4 DEF Lender!Preference
<1> QED
  BY <1>2, <1>3, <1>4 DEF Lender!Queues

(* Who is under pressure has more to do than it has slots; who is not, and    *)
(* is not preferred, has slots to spare.                                     *)
LEMMA PressureIs ==
  ASSUME BudgetsInv, NEW q \in Lender!Queues
  PROVE  /\ Lender!Pressure(q) \in Nat
         /\ Lender!Pressure(q) >= 115 => 20 * seen[q] > Lender!Base[q] * Lender!Preference(q)
         /\ (Lender!Pressure(q) <= 85 /\ Lender!Preference(q) = 20 /\ Lender!Base[q] > 1)
              => seen[q] <= Lender!Base[q] - 1
<1> DEFINE b == Lender!Base[q]
           n == Lender!Preference(q)
           s == seen[q]
           e == b * n
<1>1. b \in Nat /\ n \in Nat /\ n >= 20 /\ s \in Nat /\ e \in Nat
  BY BaseIs, PreferenceIs DEF BudgetsInv
<1>2. Lender!Pressure(q) = IF e = 0 THEN 0 ELSE (2 * 2000 * s + e) \div (2 * e)
  BY DEF Lender!Pressure
<1>3. n = 20 => e = 20 * b
  BY <1>1
<1> HIDE DEF e, b, n, s
<1>4. CASE e = 0
  <2>1. b = 0
    BY <1>1, <1>4 DEF e
  <2> QED
    BY <1>1, <1>2, <1>4, <2>1 DEF e, b, n, s
<1>5. CASE e # 0
  <2>1. PICK y \in Nat \ {0} : y = 2 * e
    BY <1>1, <1>5
  <2>2. PICK x \in Nat : x = 2 * 2000 * s + e
    BY <1>1
  <2>3. PICK p \in Nat : p = x \div y /\ y * p <= x /\ x < y * p + y
    BY DivIs
  <2>4. Lender!Pressure(q) = p
    BY <1>2, <1>5, <2>1, <2>2, <2>3
  <2>5. ASSUME p >= 115 PROVE 20 * s > e
    <3>1. y * p >= y * 115
      BY <2>5
    <3> QED
      BY <1>1, <1>5, <2>1, <2>2, <2>3, <3>1
  <2>6. ASSUME p <= 85, n = 20, b > 1 PROVE s <= b - 1
    <3>1. y * p <= y * 85
      BY <2>6
    <3> QED
      BY <1>1, <1>3, <2>1, <2>2, <2>3, <2>6, <3>1
  <2> QED
    BY <2>4, <2>5, <2>6 DEF e, b, n, s
<1> QED
  BY <1>4, <1>5

(* What has been lent after n slots.                                        *)
Lent(now, n) ==
  /\ now \in [Lender!Queues -> Nat] /\ Lender!Sum(now) = Lender!Sum(Lender!Base)
  /\ \A q \in Lender!Queues :
       /\ now[q] = 0 <=> Lender!Base[q] = 0
       /\ now[q] < Lender!Base[q] =>
            ~Lender!Protects(q) /\ Lender!Pressure(q) <= 85 /\ Lender!Base[q] - now[q] <= n
       /\ now[q] > Lender!Base[q] => q = Lender!Receiver /\ Lender!Pressure(q) >= 115

(* A shift lends one slot more, from a queue to another, and only from one    *)
(* that has no need of it to one that has.                                  *)
LEMMA LendsOne ==
  ASSUME BudgetsInv, NEW n \in Nat, NEW now, Lent(now, n)
  PROVE  Lent(Lender!Shifted(now), n + 1)
<1> DEFINE d == Lender!Donor(now)
           r == Lender!Receiver
           base == Lender!Base
<1>0. base \in [Lender!Queues -> Nat]
  BY BaseIs
<1>1. d \in {q \in Lender!Queues : base[q] > 1 /\ now[q] > 1 /\ ~Lender!Protects(q) /\ Lender!Pressure(q) <= 85} \cup {"none"}
  BY FirstBestIs DEF Lender!Donor
<1>2. r \in {q \in Lender!Queues : base[q] > 0 /\ Lender!Pressure(q) >= 115} \cup {"none"}
  BY FirstBestIs DEF Lender!Receiver
<1>3. Lender!Shifted(now) = IF r = "none" \/ d \in {"none", r} THEN now
                            ELSE [now EXCEPT ![d] = @ - 1, ![r] = @ + 1]
  BY DEF Lender!Shifted
<1> HIDE DEF d, base
<1>4. CASE r = "none" \/ d \in {"none", r}
  <2> HIDE DEF r
  <2>1. Lender!Shifted(now) = now
    BY <1>3, <1>4
  <2> QED
    BY <2>1, <1>0 DEF Lent, base
<1>5. CASE ~(r = "none" \/ d \in {"none", r})
  <2> DEFINE then == [now EXCEPT ![d] = @ - 1, ![r] = @ + 1]
  <2>1. /\ d \in Lender!Queues /\ r \in Lender!Queues /\ d # r
        /\ base[d] > 1 /\ now[d] > 1 /\ ~Lender!Protects(d) /\ Lender!Pressure(d) <= 85
        /\ base[r] > 0 /\ Lender!Pressure(r) >= 115
    BY <1>1, <1>2, <1>5
  <2>2. now \in [Lender!Queues -> Nat]
    BY DEF Lent
  <2>3. /\ then \in [Lender!Queues -> Nat]
        /\ then[d] = now[d] - 1 /\ then[r] = now[r] + 1
        /\ \A q \in Lender!Queues \ {d, r} : then[q] = now[q]
    BY <2>1, <2>2
  <2>4. \A q \in Lender!Queues :
          /\ now[q] = 0 <=> base[q] = 0
          /\ now[q] < base[q] => ~Lender!Protects(q) /\ Lender!Pressure(q) <= 85 /\ base[q] - now[q] <= n
          /\ now[q] > base[q] => q = r /\ Lender!Pressure(q) >= 115
    BY DEF Lent, base
  <2>5. Lender!Shifted(now) = then
    BY <1>3, <1>5
  <2>6. now[d] <= base[d] /\ now[r] >= 1
    BY <2>1, <2>2, <2>4, <1>0
  <2>7. Lender!Sum(then) = Lender!Sum(now)
    <3> HIDE DEF then, r
    <3>1. now["refinement"] \in Nat /\ now["record"] \in Nat /\ now["decode"] \in Nat
      BY <2>2 DEF Lender!Queues
    <3> QED
      BY <2>1, <2>3, <3>1 DEF Lender!Sum, Lender!Queues
  <2>8. \A q \in Lender!Queues : now[q] \in Nat /\ base[q] \in Nat /\ Lender!Pressure(q) \in Nat
    BY <1>0, <2>2, PressureIs
  <2>9. Lender!Pressure(r) > 85
    BY <2>1, <2>8
  <2> HIDE DEF then, r
  <2>10. \A q \in Lender!Queues :
          /\ then[q] = 0 <=> base[q] = 0
          /\ then[q] < base[q] => ~Lender!Protects(q) /\ Lender!Pressure(q) <= 85 /\ base[q] - then[q] <= n + 1
          /\ then[q] > base[q] => q = r /\ Lender!Pressure(q) >= 115
    <3> TAKE q \in Lender!Queues
    <3>1. CASE q = d
      BY <2>1, <2>3, <2>4, <2>6, <2>8, <3>1
    <3>2. CASE q = r
      BY <2>1, <2>3, <2>4, <2>6, <2>8, <2>9, <3>2
    <3>3. CASE q \notin {d, r}
      BY <2>3, <2>4, <2>8, <3>3
    <3> QED
      BY <3>1, <3>2, <3>3
  <2>11. Lender!Sum(now) = Lender!Sum(base)
    BY DEF Lent, base
  <2> QED
    BY <2>3, <2>5, <2>7, <2>10, <2>11 DEF Lent, base, r
<1> QED
  BY <1>4, <1>5

(* The rebalancing lends as many slots as the policy allows.                 *)
LEMMA RebalancedLends ==
  ASSUME BudgetsInv
  PROVE  Lender!MaxShift \in Nat /\ Lent(Lender!Rebalanced, Lender!MaxShift)
<1>1. Lent(Lender!Base, 0)
  BY BaseIs DEF Lent
<1>2. Lent(Lender!Shifted(Lender!Base), 1)
  BY <1>1, LendsOne
<1>3. Lent(Lender!Shifted(Lender!Shifted(Lender!Base)), 2)
  BY <1>2, LendsOne
<1>4. Lender!MaxShift \in {0, 1, 2}
  BY DEF Lender!MaxShift
<1> QED
  BY <1>1, <1>2, <1>3, <1>4 DEF Lender!Rebalanced

(* What a frame grants is what LentSafely says.                              *)
LEMMA FrameLends ==
  ASSUME BudgetsInv, Lender!Next
  PROVE  LET gives == {q \in Lender!Queues : slots'[q] < Lender!Base[q]}
             gets  == {q \in Lender!Queues : slots'[q] > Lender!Base[q]} IN
         /\ Lender!Sum(slots') = Lender!Sum(Lender!Base)
         /\ \A q \in Lender!Queues : slots'[q] = 0 <=> Lender!Base[q] = 0
         /\ \A q \in gives : ~Lender!Protects(q) /\ Lender!Base[q] - slots'[q] <= Lender!MaxShift
         /\ \A q \in gets : 20 * seen[q] > Lender!Base[q] * Lender!Preference(q)
         /\ \A q \in gives : (Lender!Preference(q) = 20 /\ Lender!MaxShift = 1) => seen[q] <= slots'[q]
<1>1. Lent(slots', Lender!MaxShift)
  BY RebalancedLends DEF Lender!Next, Lender!Frame
<1>2. PICK now : now = slots'
  OBVIOUS
<1>3. /\ Lent(now, Lender!MaxShift) /\ Lender!MaxShift \in Nat
      /\ Lender!Base \in [Lender!Queues -> Nat] /\ now \in [Lender!Queues -> Nat]
  BY <1>1, <1>2, BaseIs, RebalancedLends DEF Lent
<1>4. ASSUME NEW q \in Lender!Queues, now[q] < Lender!Base[q], Lender!Preference(q) = 20, Lender!MaxShift = 1
      PROVE  seen[q] <= now[q]
  <2>1. /\ Lender!Pressure(q) <= 85 /\ Lender!Base[q] - now[q] <= 1
        /\ now[q] = 0 <=> Lender!Base[q] = 0
    BY <1>3, <1>4 DEF Lent
  <2>2. now[q] \in Nat /\ Lender!Base[q] \in Nat /\ seen[q] \in Nat
    BY <1>3 DEF BudgetsInv
  <2>3. Lender!Base[q] > 1
    BY <1>4, <2>1, <2>2
  <2>4. seen[q] <= Lender!Base[q] - 1
    BY <1>4, <2>1, <2>3, PressureIs
  <2> QED
    BY <2>1, <2>2, <2>4
<1>5. ASSUME NEW q \in Lender!Queues, now[q] > Lender!Base[q]
      PROVE  20 * seen[q] > Lender!Base[q] * Lender!Preference(q)
  BY <1>3, <1>5, PressureIs DEF Lent
<1> QED
  BY <1>2, <1>3, <1>4, <1>5 DEF Lent

(* Slots are lent, never made, and never to the ruin of the lender, under any *)
(* policy, with any limits and any demands.                                 *)
THEOREM SlotsAreLentSafely ==
  ASSUME Counted
  PROVE  Lender!Spec => Lender!LentSafely
<1>1. ASSUME Lender!Init PROVE BudgetsInv
  <2>1. configured \in [jobs : Nat, concurrent : Nat, record : Nat, decode : Nat]
    BY <1>1 DEF Lender!Init, Counted
  <2>2. seen \in [Lender!Queues -> Nat]
    BY <1>1 DEF Lender!Init
  <2> QED
    BY <2>1, <2>2 DEF BudgetsInv
<1>2. BudgetsInv /\ [Lender!Next]_Lender!vars => BudgetsInv'
  <2>1. ASSUME BudgetsInv, Lender!Next PROVE BudgetsInv'
    BY <2>1 DEF Lender!Next, Lender!Frame, BudgetsInv, Counted, Lender!Queues
  <2> QED
    BY <2>1 DEF Lender!vars, BudgetsInv
<1> QED
  BY <1>1, <1>2, FrameLends, PTL DEF Lender!Spec, Lender!LentSafely
-----------------------------------------------------------------------------
(* What becomes of the candidates the arbiter is given, in Planning.         *)

CONSTANTS Candidates, Goals, CenterHz, MinSNR, Hints, RecordClasses, DecodeClasses,
          MinSpan, MaxSpan, AutoSpan, Enabled
VARIABLES goals, enabled, candidates, phase, items, ranked, stats, decisions, outcomes

Planner == INSTANCE Planning

Windows == Planner!MonitorWindows

RawWindow ==
  [start : Int, end : Int, center : Int, span : {n \in Int : n % 2 = 0}, zone : STRING,
   record : BOOLEAN, decode : BOOLEAN]

Candidate ==
  [at : Int, bw : Nat, snr : Int, hint : STRING, evidence : {s \in SUBSET STRING : IsFiniteSet(s)}]

(* Frequencies and levels are numbers, the spans of windows even: halves are    *)
(* what a number counts.  No bound of the policy is negative (Load sees to       *)
(* that), and the receiver is tuned.                                          *)
Measured ==
  /\ Candidates \subseteq Seq(Candidate)
  /\ Goals \subseteq [windows : Seq(RawWindow), start : Int, end : Int, span : {n \in Int : n % 2 = 0}]
  /\ CenterHz \in Int \ {0} /\ MinSNR \in Int
  /\ Hints \in Seq(STRING) /\ Enabled \subseteq BOOLEAN
  /\ MinSpan \in Nat /\ MaxSpan \in Nat /\ AutoSpan \in Nat

(* Windows numbered from 1 to n at most, none empty.                          *)
IsWindow(w) == w.from \in Int /\ w.to \in Int /\ w.from < w.to /\ w.record \in BOOLEAN /\ w.decode \in BOOLEAN

AreWindows(ws) == \E n \in Nat : DOMAIN ws \subseteq 1 .. n /\ \A i \in DOMAIN ws : IsWindow(ws[i])

(* The cardinality that Planning speaks of is that of sets.                 *)
LEMMA SameCount ==
  ASSUME NEW S
  PROVE  Planner!Cardinality(S) = Cardinality(S)
  BY Zenon DEF Planner!Cardinality, Cardinality

(* What the configuration gives are windows.                                *)
LEMMA WindowsAre ==
  ASSUME Measured, goals \in Goals
  PROVE  AreWindows(Windows)
<1> DEFINE usable  == {i \in DOMAIN goals.windows : Planner!Usable(goals.windows[i])}
           Plain(a, b) == <<[from |-> a, to |-> b, zone |-> "", record |-> FALSE, decode |-> FALSE]>>
<1>1. /\ goals.windows \in Seq(RawWindow) /\ goals.start \in Int /\ goals.end \in Int
      /\ goals.span \in Int /\ goals.span % 2 = 0 /\ CenterHz \in Int
  BY DEF Measured
<1>2. ASSUME NEW a \in Int, NEW b \in Int, a < b PROVE AreWindows(Plain(a, b))
  <2>1. PICK w : w = [from |-> a, to |-> b, zone |-> "", record |-> FALSE, decode |-> FALSE]
    OBVIOUS
  <2>2. IsWindow(w)
    BY <1>2, <2>1 DEF IsWindow
  <2>3. PICK one \in Nat : one = 1
    OBVIOUS
  <2>4. DOMAIN <<w>> \subseteq 1 .. one /\ \A i \in DOMAIN <<w>> : <<w>>[i] = w
    BY <2>3
  <2> QED
    BY <2>1, <2>2, <2>4 DEF AreWindows
<1>3. ASSUME NEW w \in RawWindow, Planner!Usable(w) PROVE IsWindow(Planner!Normalized(w))
  <2>1. /\ w.start \in Int /\ w.end \in Int /\ w.center \in Int /\ w.span \in Int /\ w.span % 2 = 0
        /\ w.record \in BOOLEAN /\ w.decode \in BOOLEAN
    BY DEF RawWindow
  <2>2. PICK n : n = Planner!Normalized(w)
    OBVIOUS
  <2>3. n.record = w.record /\ n.decode = w.decode
    BY <2>2 DEF Planner!Normalized
  <2>4. CASE w.start > 0 /\ w.end > w.start
    <3>1. n.from = w.start /\ n.to = w.end
      BY <2>2, <2>4 DEF Planner!Normalized
    <3> QED
      BY <2>1, <2>2, <2>3, <2>4, <3>1 DEF IsWindow
  <2>5. CASE ~(w.start > 0 /\ w.end > w.start)
    <3>1. PICK center \in Int : center = IF w.center = 0 THEN CenterHz ELSE w.center
      BY <1>1, <2>1
    <3>2. n.from = center - w.span \div 2 /\ n.to = center + w.span \div 2
      BY <2>2, <2>5, <3>1 DEF Planner!Normalized
    <3>3. w.span > 0
      BY <1>3, <2>5 DEF Planner!Usable
    <3>4. PICK half \in Nat : half = w.span \div 2 /\ half > 0
      BY <2>1, <3>3
    <3>5. n.from \in Int /\ n.to \in Int /\ n.from < n.to
      BY <3>1, <3>2, <3>4
    <3> QED
      BY <2>1, <2>2, <2>3, <3>5 DEF IsWindow
  <2> QED
    BY <2>4, <2>5
<1>4. CASE usable # {}
  <2> DEFINE index(i) == Planner!Cardinality({j \in usable : j <= i})
             picked(k) == CHOOSE i \in usable : index(i) = k
  <2>1. Windows = [k \in {index(i) : i \in usable} |-> Planner!Normalized(goals.windows[picked(k)])]
    BY <1>4, Zenon DEF Windows, Planner!MonitorWindows
  <2>2. PICK n \in Nat : n = Len(goals.windows) /\ DOMAIN goals.windows = 1 .. n
    BY <1>1
  <2>3. \A i \in usable : goals.windows[i] \in RawWindow /\ Planner!Usable(goals.windows[i])
    BY <1>1
  <2>4. ASSUME NEW i \in usable PROVE index(i) \in 1 .. n
    <3> DEFINE S == {j \in usable : j <= i}
    <3>1. S \subseteq 1 .. n /\ i \in S
      BY <2>2
    <3> HIDE DEF S
    <3>2. IsFiniteSet(1 .. n) /\ Cardinality(1 .. n) = n
      BY FS_Interval
    <3>3. IsFiniteSet(S) /\ Cardinality(S) <= n
      BY <3>1, <3>2, FS_Subset
    <3>4. Cardinality(S) \in Nat /\ Cardinality(S) # 0
      BY <3>1, <3>3, FS_CardinalityType, FS_EmptySet
    <3>5. index(i) = Cardinality(S)
      BY SameCount DEF S
    <3> QED
      BY <3>3, <3>4, <3>5
  <2> HIDE DEF index
  <2>5. ASSUME NEW k \in {index(i) : i \in usable} PROVE picked(k) \in usable
    OBVIOUS
  <2> HIDE DEF picked
  <2>6. \A k \in {index(i) : i \in usable} : IsWindow(Windows[k])
    <3> HIDE DEF usable
    <3> QED
      BY <1>3, <2>1, <2>3, <2>5
  <2>7. DOMAIN Windows \subseteq 1 .. n /\ \A k \in DOMAIN Windows : IsWindow(Windows[k])
    <3> HIDE DEF usable
    <3> QED
      BY <2>1, <2>4, <2>6
  <2> QED
    BY <2>7 DEF AreWindows
<1>5. CASE usable = {}
  <2>1. CASE goals.start > 0 /\ goals.end > goals.start
    <3>1. Windows = Plain(goals.start, goals.end)
      BY <1>5, <2>1 DEF Windows, Planner!MonitorWindows
    <3> HIDE DEF Plain
    <3> QED
      BY <1>1, <1>2, <2>1, <3>1
  <2>2. CASE ~(goals.start > 0 /\ goals.end > goals.start) /\ goals.span > 0
    <3>1. Windows = Plain(CenterHz - goals.span \div 2, CenterHz + goals.span \div 2)
      BY <1>5, <2>2 DEF Windows, Planner!MonitorWindows
    <3>2. CenterHz - goals.span \div 2 \in Int /\ CenterHz + goals.span \div 2 \in Int
          /\ CenterHz - goals.span \div 2 < CenterHz + goals.span \div 2
      BY <1>1, <2>2
    <3> QED
      BY <1>2, <3>1, <3>2
  <2>3. CASE ~(goals.start > 0 /\ goals.end > goals.start) /\ ~(goals.span > 0)
    <3>1. Windows = <<>>
      BY <1>5, <2>3 DEF Windows, Planner!MonitorWindows
    <3>2. DOMAIN Windows \subseteq 1 .. 0 /\ \A i \in DOMAIN Windows : IsWindow(Windows[i])
      BY <3>1
    <3> QED
      BY <3>2 DEF AreWindows
  <2> QED
    BY <2>1, <2>2, <2>3
<1> QED
  BY <1>4, <1>5

(* Of finitely many, one is the best, whatever better is.                     *)
LEMMA BestExists ==
  ASSUME NEW n \in Nat, NEW P \in SUBSET (1 .. n), P # {}, NEW R,
         \A i, j \in P : <<i, j>> \in R \/ <<j, i>> \in R,
         \A i, j, k \in P : <<i, j>> \in R /\ <<j, k>> \in R => <<i, k>> \in R
  PROVE  \E i \in P : \A j \in P : <<i, j>> \in R
<1> DEFINE Upto(k) == {i \in P : i <= k}
           S == {k \in Nat : Upto(k) = {} \/ \E i \in Upto(k) : \A j \in Upto(k) : <<i, j>> \in R}
<1>0. \A i \in P : i \in Nat /\ 1 <= i /\ i <= n
  OBVIOUS
<1>1. 0 \in S
  <2>0. \A i \in P : ~(i <= 0)
    BY <1>0
  <2>1. Upto(0) = {}
    BY <2>0
  <2> QED
    BY <2>1
<1>2. ASSUME NEW k \in Nat, k < n, k \in S PROVE k + 1 \in S
  <2>0. k + 1 \in Nat /\ \A i \in P : i <= k + 1 <=> i <= k \/ i = k + 1
    BY <1>0
  <2>1. CASE k + 1 \notin P
    <3>1. Upto(k + 1) = Upto(k)
      BY <2>0, <2>1
    <3> HIDE DEF Upto
    <3> QED
      BY <1>2, <2>0, <3>1
  <2>2. CASE k + 1 \in P
    <3>1. Upto(k + 1) = Upto(k) \cup {k + 1}
      BY <2>0, <2>2
    <3>2. <<k + 1, k + 1>> \in R /\ k + 1 \in Upto(k + 1)
      BY <2>0, <2>2
    <3>5. Upto(k) \subseteq P
      OBVIOUS
    <3> HIDE DEF Upto
    <3>3. CASE Upto(k) = {}
      BY <3>1, <3>2, <3>3
    <3>4. CASE Upto(k) # {}
      <4>1. PICK i \in Upto(k) : \A j \in Upto(k) : <<i, j>> \in R
        BY <1>2, <3>4
      <4>2. i \in P /\ i \in Upto(k + 1) /\ Upto(k) \subseteq P
        BY <3>1, <3>5
      <4>3. CASE <<i, k + 1>> \in R
        BY <3>1, <4>1, <4>2, <4>3
      <4>4. CASE <<k + 1, i>> \in R
        <5>1. \A j \in Upto(k) : <<k + 1, j>> \in R
          BY <2>2, <4>1, <4>2, <4>4
        <5> QED
          BY <3>1, <3>2, <5>1
      <4> QED
        BY <2>2, <4>2, <4>3, <4>4
    <3> QED
      BY <2>0, <3>3, <3>4
  <2> QED
    BY <2>1, <2>2
<1> HIDE DEF S
<1>3. n \in S
  BY <1>1, <1>2, Induction
<1>4. Upto(n) = P
  BY <1>0
<1> QED
  BY <1>3, <1>4 DEF S

(* Finitely many numbers have a least and a greatest one.                     *)
LEMMA ExtremesAre ==
  ASSUME NEW n \in Nat, NEW P \in SUBSET (1 .. n), P # {}, NEW f, \A i \in P : f[i] \in Int
  PROVE  LET S == {f[i] : i \in P}
         IN  /\ Planner!Min(S) \in S /\ \A y \in S : Planner!Min(S) <= y
             /\ Planner!Max(S) \in S /\ \A y \in S : y <= Planner!Max(S)
<1> DEFINE S == {f[i] : i \in P}
           U == {ij \in P \X P : f[ij[1]] <= f[ij[2]]}
           D == {ij \in P \X P : f[ij[1]] >= f[ij[2]]}
<1>1. \E i \in P : \A j \in P : f[i] <= f[j]
  <2>1. \A i, j \in P : <<i, j>> \in U <=> f[i] <= f[j]
    OBVIOUS
  <2> HIDE DEF U
  <2>2. /\ \A i, j \in P : <<i, j>> \in U \/ <<j, i>> \in U
        /\ \A i, j, k \in P : <<i, j>> \in U /\ <<j, k>> \in U => <<i, k>> \in U
    BY <2>1
  <2>3. \E i \in P : \A j \in P : <<i, j>> \in U
    BY <2>2, BestExists
  <2> QED
    BY <2>1, <2>3
<1>2. \E i \in P : \A j \in P : f[i] >= f[j]
  <2>1. \A i, j \in P : <<i, j>> \in D <=> f[i] >= f[j]
    OBVIOUS
  <2> HIDE DEF D
  <2>2. /\ \A i, j \in P : <<i, j>> \in D \/ <<j, i>> \in D
        /\ \A i, j, k \in P : <<i, j>> \in D /\ <<j, k>> \in D => <<i, k>> \in D
    BY <2>1
  <2>3. \E i \in P : \A j \in P : <<i, j>> \in D
    BY <2>2, BestExists
  <2> QED
    BY <2>1, <2>3
<1>3. \E x \in S : \A y \in S : x <= y
  BY <1>1
<1>4. \E x \in S : \A y \in S : x >= y
  BY <1>2
<1>5. \A y \in S : y \in Int
  OBVIOUS
<1> HIDE DEF S
<1>6. Planner!Min(S) \in S /\ \A y \in S : Planner!Min(S) <= y
  BY <1>3 DEF Planner!Min
<1>7. Planner!Max(S) \in S /\ \A y \in S : Planner!Max(S) >= y
  BY <1>4 DEF Planner!Max
<1>8. \A y \in S : y <= Planner!Max(S)
  BY <1>5, <1>7
<1> QED
  BY <1>6, <1>7, <1>8 DEF S

(* A division is a number, and keeps the order.                              *)
LEMMA DivKeepsOrder ==
  ASSUME NEW x \in Int, NEW z \in Int, NEW y \in Nat \ {0}
  PROVE  x \div y \in Int /\ (x <= z => x \div y <= z \div y)
<1>1. x \div y \in Int /\ z \div y \in Int
  OBVIOUS
<1>2. y * (x \div y) <= x /\ z < y * (z \div y) + y
  OBVIOUS
<1> DEFINE p == x \div y
           q == z \div y
<1>3. p \in Int /\ q \in Int /\ y * p <= x /\ z < y * q + y
  BY <1>1, <1>2
<1> HIDE DEF p, q
<1>4. ASSUME x <= z, p > q PROVE FALSE
  <2>1. PICK d \in Nat : p = q + 1 + d
    <3>1. p - q - 1 \in Nat /\ p = q + 1 + (p - q - 1)
      BY <1>3, <1>4
    <3> QED
      BY <3>1
  <2>2. y * d \in Nat /\ y * p = y * q + y + y * d
    BY <1>3, <2>1
  <2>3. y * p \in Int /\ y * q \in Int
    BY <1>3
  <2> QED
    BY <1>3, <1>4, <2>2, <2>3
<1> QED
  BY <1>3, <1>4 DEF p, q

(* The lesser and the greater of two.                                       *)
LEMMA OfTwo ==
  ASSUME NEW a \in Int, NEW b \in Int
  PROVE  /\ Planner!Min({a, b}) = IF a <= b THEN a ELSE b
         /\ Planner!Max({a, b}) = IF a >= b THEN a ELSE b
<1>1. PICK m \in {a, b} : m = IF a <= b THEN a ELSE b
  OBVIOUS
<1>2. \A x \in {a, b} : (\A y \in {a, b} : x <= y) <=> x = m
  BY <1>1
<1>3. PICK n \in {a, b} : n = IF a >= b THEN a ELSE b
  OBVIOUS
<1>4. \A x \in {a, b} : (\A y \in {a, b} : x >= y) <=> x = n
  BY <1>3
<1>5. Planner!Min({a, b}) = m
  BY <1>2 DEF Planner!Min
<1>6. Planner!Max({a, b}) = n
  BY <1>4 DEF Planner!Max
<1> QED
  BY <1>1, <1>3, <1>5, <1>6

(* What is computed of candidates and windows are numbers.                    *)
LEMMA CoverageIs ==
  ASSUME NEW w, IsWindow(w), NEW c \in Candidate
  PROVE  Planner!Coverage(w, c) \in Int
<1>1. w.from \in Int /\ w.to \in Int /\ w.to - w.from \in Nat \ {0} /\ c.at \in Int /\ c.bw \in Nat
  BY DEF IsWindow, Candidate
<1> DEFINE low == c.at - c.bw \div 2
           high == c.at + c.bw \div 2
           overlap == Planner!Min({high, w.to}) - Planner!Max({low, w.from})
<1>2. low \in Int /\ high \in Int
  BY <1>1
<1>3. Planner!Coverage(w, c) = IF c.bw = 0 THEN 100 ELSE (100 * overlap) \div (w.to - w.from)
  BY DEF Planner!Coverage
<1> HIDE DEF low, high
<1>4. Planner!Min({high, w.to}) \in Int /\ Planner!Max({low, w.from}) \in Int
  <2>1. PICK a \in Int, b \in Int : a = w.from /\ b = w.to
    BY <1>1
  <2>2. Planner!Min({high, b}) \in Int
    BY <1>2, OfTwo
  <2>3. Planner!Max({low, a}) \in Int
    BY <1>2, OfTwo
  <2> QED
    BY <2>1, <2>2, <2>3
<1>5. 100 * overlap \in Int
  BY <1>4
<1> HIDE DEF overlap
<1>6. (100 * overlap) \div (w.to - w.from) \in Int
  BY <1>1, <1>5, DivKeepsOrder
<1> QED
  BY <1>3, <1>6

(* The preference of a window is a number.                                  *)
LEMMA WindowBiasIs ==
  ASSUME NEW ws, AreWindows(ws), NEW i \in DOMAIN ws
  PROVE  Planner!WindowBias(ws, i) \in Int
<1>1. PICK n \in Nat : DOMAIN ws \subseteq 1 .. n /\ \A k \in DOMAIN ws : IsWindow(ws[k])
  BY DEF AreWindows
<1> DEFINE f == [k \in DOMAIN ws |-> ws[k].to - ws[k].from]
           S == {f[k] : k \in DOMAIN ws}
           top == Planner!Max(S)
<1>2. \A k \in DOMAIN ws : f[k] \in Nat \ {0}
  BY <1>1 DEF IsWindow
<1>3. {ws[k].to - ws[k].from : k \in DOMAIN ws} = S
  OBVIOUS
<1>4. Planner!WindowBias(ws, i) = 20 - (20 * f[i]) \div top
  BY <1>3 DEF Planner!WindowBias
<1> HIDE DEF f
<1>5. top \in S
  <2>1. DOMAIN ws \in SUBSET (1 .. n) /\ DOMAIN ws # {} /\ \A k \in DOMAIN ws : f[k] \in Int
    BY <1>1, <1>2
  <2> QED
    BY <2>1, ExtremesAre
<1>6. top \in Nat \ {0} /\ 20 * f[i] \in Int
  BY <1>2, <1>5
<1> HIDE DEF top
<1>7. (20 * f[i]) \div top \in Int
  BY <1>6, DivKeepsOrder
<1> QED
  BY <1>4, <1>7

(* So is what a candidate gets for its windows.                             *)
LEMMA BiasIs ==
  ASSUME NEW ws, AreWindows(ws), NEW c \in Candidate
  PROVE  Planner!Bias(ws, c) \in Int
<1>1. PICK n \in Nat : DOMAIN ws \subseteq 1 .. n /\ \A k \in DOMAIN ws : IsWindow(ws[k])
  BY DEF AreWindows
<1> DEFINE P == Planner!Matches(ws, c)
           f == [i \in P |-> (Planner!WindowBias(ws, i) * Planner!Coverage(ws[i], c)) \div 100]
           S == {f[i] : i \in P}
<1>2. P \subseteq DOMAIN ws /\ P \in SUBSET (1 .. n)
  BY <1>1 DEF Planner!Matches
<1> HIDE DEF P
<1>3. ASSUME NEW i \in P PROVE f[i] \in Int
  <2>1. Planner!WindowBias(ws, i) \in Int /\ Planner!Coverage(ws[i], c) \in Int
    BY <1>1, <1>2, WindowBiasIs, CoverageIs
  <2>2. Planner!WindowBias(ws, i) * Planner!Coverage(ws[i], c) \in Int
    BY <2>1
  <2> QED
    BY <2>2, DivKeepsOrder
<1>4. {(Planner!WindowBias(ws, i) * Planner!Coverage(ws[i], c)) \div 100 : i \in P} = S
  OBVIOUS
<1>5. Planner!Bias(ws, c) = IF P = {} THEN 0 ELSE Planner!Max(S)
  BY <1>4 DEF Planner!Bias, P
<1> HIDE DEF f
<1>6. P # {} => Planner!Max(S) \in S
  BY <1>2, <1>3, ExtremesAre
<1> QED
  BY <1>3, <1>5, <1>6

(* The levels of evidence are counted.                                      *)
LEMMA CountIs ==
  ASSUME NEW S, IsFiniteSet(S)
  PROVE  Planner!Cardinality(S) \in Nat
<1>1. Planner!Cardinality(S) = Cardinality(S)
  BY Zenon DEF Planner!Cardinality, Cardinality
<1> QED
  BY <1>1, FS_CardinalityType

(* A score is a number.                                                     *)
LEMMA ScoreIs ==
  ASSUME Measured, NEW ws, AreWindows(ws), NEW c \in Candidate
  PROVE  Planner!Score(ws, c) \in Int
<1>1. c.snr \in Int /\ c.bw \in Nat /\ Planner!Cardinality(c.evidence) \in Int
  BY CountIs DEF Candidate
<1>2. Planner!Rank(c.hint) \in Int /\ Len(Hints) \in Nat
  BY DEF Planner!Rank, Measured
<1>3. Planner!Boost(c.hint) \in Int
  BY <1>2 DEF Planner!Boost
<1>4. Planner!EvidenceScore(c) \in Int
  BY <1>1 DEF Planner!EvidenceScore
<1> QED
  BY <1>1, <1>3, <1>4, BiasIs DEF Planner!Score

(* The best match is one of those to choose from.                             *)
LEMMA BestMatchIs ==
  ASSUME NEW ws, AreWindows(ws), NEW c \in Candidate, NEW wants \in SUBSET DOMAIN ws, wants # {}
  PROVE  Planner!BestMatch(ws, c, wants) \in wants
<1>1. PICK n \in Nat : DOMAIN ws \subseteq 1 .. n /\ \A k \in DOMAIN ws : IsWindow(ws[k])
  BY DEF AreWindows
<1> DEFINE cover == [k \in wants |-> Planner!Coverage(ws[k], c)]
           near == [k \in wants |-> 0 - Planner!Distance(ws[k], c)]
           favour == [k \in wants |-> Planner!WindowBias(ws, k) * Planner!Coverage(ws[k], c)]
           R == {ij \in wants \X wants : Planner!Better(ws, c, ij[1], ij[2])}
<1>2. ASSUME NEW k \in wants PROVE cover[k] \in Int /\ near[k] \in Int /\ favour[k] \in Int /\ k \in Int
  <2>1. IsWindow(ws[k]) /\ Planner!WindowBias(ws, k) \in Int /\ Planner!Coverage(ws[k], c) \in Int /\ k \in Int
    BY <1>1, WindowBiasIs, CoverageIs
  <2>2. Planner!Distance(ws[k], c) \in Int
    BY <2>1 DEF Planner!Distance, IsWindow, Candidate
  <2> QED
    BY <2>1, <2>2
<1>3. \A i, j \in wants : <<i, j>> \in R <=>
        \/ cover[i] > cover[j]
        \/ cover[i] = cover[j] /\ near[i] > near[j]
        \/ cover[i] = cover[j] /\ near[i] = near[j] /\ favour[i] > favour[j]
        \/ cover[i] = cover[j] /\ near[i] = near[j] /\ favour[i] = favour[j] /\ i <= j
  BY DEF Planner!Better
<1>4. \A i, j \in wants : <<i, j>> \in R <=> Planner!Better(ws, c, i, j)
  OBVIOUS
<1> HIDE DEF cover, near, favour, R
<1>5. ASSUME NEW i \in wants, NEW j \in wants PROVE <<i, j>> \in R \/ <<j, i>> \in R
  <2>1. /\ cover[i] \in Int /\ near[i] \in Int /\ favour[i] \in Int /\ i \in Int
        /\ cover[j] \in Int /\ near[j] \in Int /\ favour[j] \in Int /\ j \in Int
    BY <1>2
  <2> QED
    BY <1>3, <2>1
<1>6. \A i, j, k \in wants : <<i, j>> \in R /\ <<j, k>> \in R => <<i, k>> \in R
  BY <1>2, <1>3
<1>7. \E i \in wants : \A j \in wants : <<i, j>> \in R
  BY <1>1, <1>5, <1>6, BestExists
<1>8. \E i \in wants : \A j \in wants : Planner!Better(ws, c, i, j)
  BY <1>4, <1>7
<1> QED
  BY <1>8 DEF Planner!BestMatch

(* Who scores more has no lower a tier, before the floors.                    *)
LEMMA TierGrows ==
  ASSUME NEW a \in Int, NEW b \in Int, NEW least \in Int, NEW most \in Int, b <= a
  PROVE  /\ Planner!Tier(a, least, most) \in Int /\ Planner!Tier(b, least, most) \in Int
         /\ Planner!Tier(b, least, most) <= Planner!Tier(a, least, most)
<1>1. CASE most <= least
  BY <1>1 DEF Planner!Tier
<1>2. CASE most > least
  <2> DEFINE p == (100 * (a - least)) \div (most - least)
             q == (100 * (b - least)) \div (most - least)
  <2>1. p \in Int /\ q \in Int /\ q <= p
    <3>1. most - least \in Nat \ {0} /\ 100 * (a - least) \in Int /\ 100 * (b - least) \in Int
          /\ 100 * (b - least) <= 100 * (a - least)
      BY <1>2
    <3> QED
      BY <3>1, DivKeepsOrder
  <2> DEFINE Step(norm) == CASE norm >= 85 -> 4 [] norm >= 65 /\ norm < 85 -> 3 [] norm >= 45 /\ norm < 65 -> 2
                             [] norm >= 25 /\ norm < 45 -> 1 [] OTHER -> 0
  <2>2. Planner!Tier(a, least, most) = Step(p) /\ Planner!Tier(b, least, most) = Step(q)
    BY <1>2 DEF Planner!Tier
  <2> HIDE DEF p, q
  <2>3. Step(p) \in Int /\ Step(q) \in Int /\ Step(q) <= Step(p)
    BY <2>1
  <2> QED
    BY <2>2, <2>3
<1> QED
  BY <1>1, <1>2

Given == goals \in Goals /\ enabled \in Enabled /\ candidates \in Candidates

(* A candidate touches a window that matches it.                             *)
LEMMA MatchesAre ==
  ASSUME NEW ws, AreWindows(ws), NEW i \in DOMAIN ws, NEW c \in Candidate
  PROVE  i \in Planner!Matches(ws, c) <=>
           /\ ws[i].from > 0
           /\ \E f \in (c.at - c.bw \div 2) .. (c.at + c.bw \div 2) : ws[i].from <= f /\ f <= ws[i].to
<1> DEFINE low == c.at - c.bw \div 2
           high == c.at + c.bw \div 2
<1>1. /\ ws[i].from \in Int /\ ws[i].to \in Int /\ ws[i].from < ws[i].to
      /\ low \in Int /\ high \in Int /\ low <= high
  BY DEF AreWindows, IsWindow, Candidate
<1>2. i \in Planner!Matches(ws, c) <=>
        ws[i].from > 0 /\ ws[i].to > ws[i].from /\ high >= ws[i].from /\ low <= ws[i].to
  BY DEF Planner!Matches, Planner!Valid
<1> HIDE DEF low, high
<1>3. ASSUME high >= ws[i].from, low <= ws[i].to
      PROVE  \E f \in low .. high : ws[i].from <= f /\ f <= ws[i].to
  <2>1. PICK f : f = IF low >= ws[i].from THEN low ELSE ws[i].from
    OBVIOUS
  <2>2. f \in low .. high /\ ws[i].from <= f /\ f <= ws[i].to
    BY <1>1, <1>3, <2>1
  <2> QED
    BY <2>2
<1>4. ASSUME NEW f \in low .. high, ws[i].from <= f, f <= ws[i].to
      PROVE  high >= ws[i].from /\ low <= ws[i].to
  BY <1>1, <1>4
<1>5. i \in Planner!Matches(ws, c) <=>
        ws[i].from > 0 /\ \E f \in low .. high : ws[i].from <= f /\ f <= ws[i].to
  BY <1>1, <1>2, <1>3, <1>4
<1> QED
  BY <1>5 DEF low, high

(* A candidate is let in by a window, or by the bounds where there is none.    *)
Watched(ws, c) == IF DOMAIN ws = {} THEN Planner!InBounds(c) ELSE Planner!Matches(ws, c) # {}

(* What the plan makes of a candidate.                                       *)
LEMMA ItemIs ==
  ASSUME Measured, NEW ws, AreWindows(ws), NEW c \in Candidate, NEW item, item = Planner!Item(ws, c)
  PROVE  /\ (item.why # "monitor") <=> Watched(ws, c)
         /\ (item.status = "planned") <=> Watched(ws, c) /\ c.snr >= MinSNR
         /\ item.class = IF item.status = "planned" THEN "plan" ELSE "drop"
         /\ item.status \in {"planned", "dropped"}
         /\ (item.why = "snr") <=> Watched(ws, c) /\ ~(c.snr >= MinSNR)
         /\ item.score \in Int
         /\ item = [status |-> item.status, class |-> item.class, why |-> item.why, score |-> item.score,
                    tier |-> item.tier, span |-> item.span]
<1>1. c.snr \in Int /\ MinSNR \in Int
  BY DEF Candidate, Measured
<1>2. PICK n \in Int : n = Planner!Score(ws, c)
  BY ScoreIs
<1>3. Planner!InMonitor(ws, c) <=> Watched(ws, c)
  BY DEF Planner!InMonitor, Watched
<1>4. CASE ~Watched(ws, c)
  <2>1. item = [status |-> "dropped", class |-> "drop", why |-> "monitor", score |-> 0, tier |-> 0, span |-> 0]
    BY <1>3, <1>4 DEF Planner!Item
  <2> QED
    BY <1>4, <2>1
<1>5. CASE Watched(ws, c) /\ c.snr < MinSNR
  <2>1. item = [status |-> "dropped", class |-> "drop", why |-> "snr", score |-> 0, tier |-> 0, span |-> 0]
    BY <1>3, <1>5 DEF Planner!Item
  <2> QED
    BY <1>1, <1>5, <2>1
<1>6. CASE Watched(ws, c) /\ ~(c.snr < MinSNR)
  <2>1. item = [status |-> "planned", class |-> "plan", why |-> "planned", score |-> n, tier |-> 0, span |-> 0]
    BY <1>2, <1>3, <1>6 DEF Planner!Item
  <2>2. item.why # "monitor" /\ item.why # "snr" /\ item.status = "planned" /\ item.class = "plan"
    BY <2>1
  <2>3. item.score \in Int
    BY <1>2, <2>1
  <2>4. item = [status |-> item.status, class |-> item.class, why |-> item.why, score |-> item.score,
                tier |-> item.tier, span |-> item.span]
    BY <2>1
  <2>5. Watched(ws, c) /\ c.snr >= MinSNR
    BY <1>1, <1>6
  <2> QED
    BY <2>2, <2>3, <2>4, <2>5
<1> QED
  BY <1>4, <1>5, <1>6

(* The windows do not change during a frame.                                *)
LEMMA WindowsStay ==
  ASSUME goals' = goals
  PROVE  Windows' = Windows
  BY DEF Windows, Planner!MonitorWindows, Planner!Usable, Planner!Normalized

(* What matches is a window.                                                *)
LEMMA MatchedIsWindow ==
  ASSUME NEW ws, NEW c, NEW i \in Planner!Matches(ws, c)
  PROVE  i \in DOMAIN ws
  BY DEF Planner!Matches

(* The floor of a family is a tier.                                         *)
LEMMA FloorIs ==
  ASSUME NEW hint
  PROVE  Planner!TierFloor(hint) \in Int
  BY DEF Planner!TierFloor

(* The items of a plan before their tiers are known, and which get one.       *)
First(ws, cs) == [i \in DOMAIN cs |-> Planner!Item(ws, cs[i])]

Promising(ws, c) == Watched(ws, c) /\ c.snr >= MinSNR

Picked(ws, cs) == {i \in DOMAIN cs : Promising(ws, cs[i])}

(* Planned is what is in a window and strong enough.                        *)
LEMMA PickedIs ==
  ASSUME Measured, NEW ws, AreWindows(ws), NEW cs \in Seq(Candidate)
  PROVE  /\ DOMAIN First(ws, cs) = DOMAIN cs
         /\ Planner!Planned(First(ws, cs)) = Picked(ws, cs)
<1>1. DOMAIN First(ws, cs) = DOMAIN cs
  BY DEF First
<1>2. ASSUME NEW i \in DOMAIN cs
      PROVE  First(ws, cs)[i].status = "planned" <=> Promising(ws, cs[i])
  <2>1. cs[i] \in Candidate /\ First(ws, cs)[i] = Planner!Item(ws, cs[i])
    BY DEF First
  <2> QED
    BY <2>1, ItemIs DEF Promising
<1> QED
  BY <1>1, <1>2 DEF Planner!Planned, Picked

(* What Plan does, with its tiers.                                           *)
WithTiers(ws, cs, tier) ==
  [i \in DOMAIN cs |-> IF i \in Picked(ws, cs) THEN [First(ws, cs)[i] EXCEPT !.tier = tier[i]] ELSE First(ws, cs)[i]]

(* The tiers of a plan: none below its floor, and none below that of what   *)
(* scores less.                                                             *)
LEMMA PlanIs ==
  ASSUME Measured, Given, Planner!Plan, NEW ws, ws = Windows, NEW its, its = First(ws, candidates)
  PROVE  \E tier :
           /\ items' = WithTiers(ws, candidates, tier)
           /\ \A i \in Picked(ws, candidates) :
                /\ tier[i] \in Int
                /\ tier[i] >= Planner!TierFloor(candidates[i].hint)
           /\ \A i, j \in Picked(ws, candidates) :
                its[i].score >= its[j].score =>
                  tier[i] >= tier[j] \/ tier[j] = Planner!TierFloor(candidates[j].hint)
<1> DEFINE P == Picked(ws, candidates)
           S == {its[i].score : i \in P}
           least == Planner!Min(S)
           most == Planner!Max(S)
           base == [i \in P |-> Planner!Tier(its[i].score, least, most)]
           floor == [i \in P |-> Planner!TierFloor(candidates[i].hint)]
           tier == [i \in P |-> Planner!Max({base[i], floor[i]})]
<1>1. AreWindows(ws) /\ candidates \in Seq(Candidate)
  BY WindowsAre DEF Given, Measured
<1>2. PICK n \in Nat : DOMAIN candidates = 1 .. n /\ P \in SUBSET (1 .. n)
  BY <1>1 DEF Picked
<1>3. DOMAIN its = DOMAIN candidates /\ Planner!Planned(its) = P
  BY <1>1, PickedIs
<1>4. items' = WithTiers(ws, candidates, tier)
  <2> DEFINE made == [i \in DOMAIN candidates |-> Planner!Item(Planner!MonitorWindows, candidates[i])]
             scores == {made[i].score : i \in Planner!Planned(made)}
  <2>1. its = made
    BY DEF First, Windows
  <2>5. items' = [i \in DOMAIN made |->
                    IF i \in Planner!Planned(made) THEN [made[i] EXCEPT !.tier =
                       Planner!Max({Planner!Tier(made[i].score, Planner!Min(scores), Planner!Max(scores)),
                                    Planner!TierFloor(candidates[i].hint)})]
                    ELSE made[i]]
    BY Zenon DEF Planner!Plan
  <2> HIDE DEF made
  <2>6. scores = S
    BY <1>3, <2>1
  <2> HIDE DEF scores, S, P
  <2>2. items' = [i \in DOMAIN its |->
                    IF i \in P THEN [its[i] EXCEPT !.tier =
                       Planner!Max({Planner!Tier(its[i].score, least, most), Planner!TierFloor(candidates[i].hint)})]
                    ELSE its[i]]
    BY <1>3, <2>1, <2>5, <2>6, Zenon
  <2>3. \A i \in P : tier[i] = Planner!Max({Planner!Tier(its[i].score, least, most), Planner!TierFloor(candidates[i].hint)})
    OBVIOUS
  <2> HIDE DEF tier, P, S, least, most
  <2>4. WithTiers(ws, candidates, tier) =
          [i \in DOMAIN candidates |-> IF i \in P THEN [its[i] EXCEPT !.tier = tier[i]] ELSE its[i]]
    BY DEF WithTiers, P
  <2> QED
    BY <1>3, <2>2, <2>3, <2>4
<1>5. ASSUME NEW i \in P PROVE its[i].score \in Int
  <2>1. candidates[i] \in Candidate /\ its[i] = Planner!Item(ws, candidates[i])
    BY <1>1, <1>3, <1>5 DEF First, Picked
  <2> QED
    BY <1>1, <2>1, ItemIs
<1>6. ASSUME NEW i \in P, NEW j \in P
      PROVE  /\ base[i] \in Int /\ floor[i] \in Int /\ tier[i] = IF base[i] >= floor[i] THEN base[i] ELSE floor[i]
             /\ its[i].score >= its[j].score => base[i] >= base[j]
  <2>1. least \in Int /\ most \in Int
    <3> DEFINE f == [k \in P |-> its[k].score]
    <3>1. {f[k] : k \in P} = S
      OBVIOUS
    <3>2. P # {} /\ \A k \in P : f[k] \in Int
      BY <1>5
    <3> HIDE DEF f, P
    <3>4. Planner!Min({f[k] : k \in P}) \in {f[k] : k \in P} /\ Planner!Max({f[k] : k \in P}) \in {f[k] : k \in P}
      BY <1>2, <3>2, ExtremesAre
    <3> HIDE DEF S
    <3>3. least \in S /\ most \in S
      BY <3>1, <3>4
    <3> USE DEF S
    <3> QED
      BY <1>5, <3>3 DEF P
  <2>2. its[i].score \in Int /\ its[j].score \in Int
    BY <1>5
  <2>3. floor[i] \in Int
    BY FloorIs
  <2> HIDE DEF least, most
  <2>7. base[i] = Planner!Tier(its[i].score, least, most) /\ base[j] = Planner!Tier(its[j].score, least, most)
    OBVIOUS
  <2>8. PICK x \in Int, y \in Int : x = its[i].score /\ y = its[j].score
    BY <2>2
  <2>9. x >= y \/ y >= x
    BY <2>8
  <2>10. /\ Planner!Tier(x, least, most) \in Int /\ Planner!Tier(y, least, most) \in Int
         /\ x >= y => Planner!Tier(y, least, most) <= Planner!Tier(x, least, most)
    <3>1. CASE x >= y
      BY <2>1, <3>1, TierGrows
    <3>2. CASE y >= x
      BY <2>1, <3>2, TierGrows
    <3> QED
      BY <2>8, <2>9, <3>1, <3>2
  <2>4. /\ base[i] \in Int /\ base[j] \in Int
        /\ its[i].score >= its[j].score => base[j] <= base[i]
    BY <2>7, <2>8, <2>10
  <2>5. tier[i] = Planner!Max({base[i], floor[i]})
    OBVIOUS
  <2> HIDE DEF base, floor, tier
  <2>6. tier[i] = IF base[i] >= floor[i] THEN base[i] ELSE floor[i]
    BY <2>3, <2>4, <2>5, OfTwo
  <2> QED
    BY <2>3, <2>4, <2>6
<1>7. \A i \in P : floor[i] = Planner!TierFloor(candidates[i].hint)
  OBVIOUS
<1> HIDE DEF base, floor, tier
<1>8. \A i \in P : tier[i] \in Int /\ tier[i] >= Planner!TierFloor(candidates[i].hint)
  BY <1>6, <1>7
<1>9. ASSUME NEW i \in P, NEW j \in P, its[i].score >= its[j].score
      PROVE  tier[i] >= tier[j] \/ tier[j] = Planner!TierFloor(candidates[j].hint)
  <2>1. /\ base[i] \in Int /\ floor[i] \in Int /\ tier[i] = IF base[i] >= floor[i] THEN base[i] ELSE floor[i]
        /\ base[j] \in Int /\ floor[j] \in Int /\ tier[j] = IF base[j] >= floor[j] THEN base[j] ELSE floor[j]
        /\ base[i] >= base[j] /\ floor[j] = Planner!TierFloor(candidates[j].hint)
    BY <1>6, <1>7, <1>9
  <2> QED
    BY <2>1
<1> QED
  BY <1>4, <1>8, <1>9

(* A ranking: every candidate that is planned, once, none after a lesser.      *)
PlaceOf(r, i, k) == k \in DOMAIN r /\ {l \in DOMAIN r : r[l] = i} = {k}

IsRanking(r, P, its) ==
  /\ \A k \in DOMAIN r : r[k] \in P
  /\ \A i \in P : \E k : PlaceOf(r, i, k)
  /\ \A k, l \in DOMAIN r : k < l => its[r[k]].score >= its[r[l]].score

(* Plan ranks.                                                              *)
LEMMA RankedIs ==
  ASSUME Measured, Given, Planner!Plan, NEW ws, ws = Windows, NEW its, its = First(ws, candidates)
  PROVE  IsRanking(ranked', Picked(ws, candidates), its)
<1> DEFINE P == Picked(ws, candidates)
           made == [i \in DOMAIN candidates |-> Planner!Item(Planner!MonitorWindows, candidates[i])]
           Before(i, j) == \/ made[i].score > made[j].score
                           \/ made[i].score = made[j].score /\ candidates[i].at < candidates[j].at
           D == 1 .. Planner!Cardinality(Planner!Planned(made))
<1>1. AreWindows(ws) /\ candidates \in Seq(Candidate)
  BY WindowsAre DEF Given, Measured
<1>2. its = made
  BY DEF First, Windows
<1>3. Planner!Planned(made) = P
  <2> HIDE DEF made, P
  <2> QED
    BY <1>1, <1>2, PickedIs DEF P
<1>4. \E order \in Planner!Bijection(D, Planner!Planned(made)) :
        /\ \A k, l \in DOMAIN order : k < l => ~Before(order[l], order[k])
        /\ ranked' = order
  BY Zenon DEF Planner!Plan
<1> HIDE DEF made, P, D
<1>5. /\ ranked' \in Planner!Bijection(D, P)
      /\ \A k, l \in DOMAIN ranked' : k < l => ~Before(ranked'[l], ranked'[k])
  BY <1>3, <1>4
<1>14. PICK r : r = ranked'
  OBVIOUS
<1>6. /\ r \in [D -> P]
      /\ \A a, b \in D : r[a] = r[b] => a = b
      /\ \A i \in P : \E k \in D : r[k] = i
  BY <1>5, <1>14 DEF Planner!Bijection, Planner!Injection, Planner!Surjection, Planner!IsInjective
<1>7. ASSUME NEW i \in P PROVE its[i].score \in Int
  <2>1. candidates[i] \in Candidate /\ its[i] = Planner!Item(ws, candidates[i])
    BY <1>1, <1>7 DEF First, Picked, P
  <2> QED
    BY <1>1, <2>1, ItemIs
<1>8. ASSUME NEW k \in D, NEW l \in D, k < l PROVE its[r[k]].score >= its[r[l]].score
  <2>1. ~Before(r[l], r[k])
    BY <1>5, <1>6, <1>8, <1>14
  <2>2. r[k] \in P /\ r[l] \in P
    BY <1>6
  <2>3. PICK x \in Int, y \in Int : x = its[r[k]].score /\ y = its[r[l]].score
    BY <1>7, <2>2
  <2>4. ~(y > x)
    BY <1>2, <2>1, <2>3
  <2> QED
    BY <2>3, <2>4
<1>10. \A k \in D : r[k] \in P
  BY <1>6
<1>12. DOMAIN r = D
  BY <1>6
<1>11. ASSUME NEW i \in P PROVE \E k : PlaceOf(r, i, k)
  <2>1. PICK k \in D : r[k] = i
    BY <1>6
  <2>2. {l \in D : r[l] = i} = {k}
    BY <1>6, <2>1
  <2> QED
    BY <1>12, <2>1, <2>2 DEF PlaceOf
<1>13. IsRanking(r, P, its)
  BY <1>8, <1>10, <1>11, <1>12 DEF IsRanking
<1> QED
  BY <1>13, <1>14 DEF P

(* The plan is as WatchedIsPlanned has it.                                    *)
LEMMA PlanWatches ==
  ASSUME Measured, Given, Planner!Plan
  PROVE  Planner!WatchedIsPlanned'
<1>1. PICK ws : ws = Windows
  OBVIOUS
<1>2. PICK its : its = First(ws, candidates)
  OBVIOUS
<1> DEFINE P == Picked(ws, candidates)
<1>3. AreWindows(ws) /\ candidates \in Seq(Candidate)
  BY <1>1, WindowsAre DEF Given, Measured
<1>4. goals' = goals /\ candidates' = candidates /\ phase' = "planned"
  BY DEF Planner!Plan
<1>5. Planner!MonitorWindows' = ws
  BY <1>1, <1>4, WindowsStay DEF Windows
<1>6. PICK tier :
           /\ items' = WithTiers(ws, candidates, tier)
           /\ \A i \in P : tier[i] \in Int /\ tier[i] >= Planner!TierFloor(candidates[i].hint)
           /\ \A i, j \in P : its[i].score >= its[j].score =>
                tier[i] >= tier[j] \/ tier[j] = Planner!TierFloor(candidates[j].hint)
  BY <1>1, <1>2, PlanIs
<1>7. PICK r : r = ranked' /\ IsRanking(r, P, its)
  BY <1>1, <1>2, RankedIs
<1>8. ASSUME NEW i \in DOMAIN candidates
      PROVE  /\ candidates[i] \in Candidate
             /\ its[i] = Planner!Item(ws, candidates[i])
             /\ items'[i] = IF i \in P THEN [its[i] EXCEPT !.tier = tier[i]] ELSE its[i]
             /\ i \in P <=> Watched(ws, candidates[i]) /\ candidates[i].snr >= MinSNR
  BY <1>2, <1>3, <1>6 DEF First, WithTiers, Picked, Promising
<1>9. ASSUME NEW i \in DOMAIN candidates
      PROVE  /\ items'[i].why = its[i].why /\ items'[i].score = its[i].score
             /\ i \in P => items'[i].tier = tier[i]
             /\ its[i].why # "monitor" <=> Watched(ws, candidates[i])
  <2>1. its[i] = [status |-> its[i].status, class |-> its[i].class, why |-> its[i].why, score |-> its[i].score,
                  tier |-> its[i].tier, span |-> its[i].span]
    <3>1. PICK item : item = its[i]
      OBVIOUS
    <3>2. item = Planner!Item(ws, candidates[i]) /\ candidates[i] \in Candidate
      BY <1>8, <3>1
    <3>3. item = [status |-> item.status, class |-> item.class, why |-> item.why, score |-> item.score,
                  tier |-> item.tier, span |-> item.span]
      BY <1>3, <3>2, ItemIs
    <3> QED
      BY <3>1, <3>3
  <2>2. its[i].why # "monitor" <=> Watched(ws, candidates[i])
    BY <1>3, <1>8, ItemIs
  <2>3. CASE i \in P
    <3>1. items'[i] = [its[i] EXCEPT !.tier = tier[i]]
      BY <1>8, <2>3
    <3>2. items'[i].why = its[i].why /\ items'[i].score = its[i].score /\ items'[i].tier = tier[i]
      BY <2>1, <3>1
    <3> QED
      BY <2>2, <3>2
  <2>4. CASE i \notin P
    BY <1>8, <2>2, <2>4
  <2> QED
    BY <2>3, <2>4
<1> DEFINE Touches(c, w) == \E f \in (c.at - c.bw \div 2) .. (c.at + c.bw \div 2) : w.from <= f /\ f <= w.to
<1>10. ASSUME NEW i \in DOMAIN candidates
       PROVE  (items'[i].why # "monitor") <=>
                \/ \E w \in DOMAIN ws : ws[w].from > 0 /\ Touches(candidates[i], ws[w])
                \/ DOMAIN ws = {} /\ Planner!InBounds(candidates[i])'
  <2>1. Watched(ws, candidates[i]) <=>
          \/ \E w \in DOMAIN ws : w \in Planner!Matches(ws, candidates[i])
          \/ DOMAIN ws = {} /\ Planner!InBounds(candidates[i])
    BY MatchedIsWindow DEF Watched
  <2>3. Planner!InBounds(candidates[i])' <=> Planner!InBounds(candidates[i])
    BY <1>4 DEF Planner!InBounds
  <2>2. \A w \in DOMAIN ws : w \in Planner!Matches(ws, candidates[i]) <=> ws[w].from > 0 /\ Touches(candidates[i], ws[w])
    BY <1>3, <1>8, MatchesAre
  <2> HIDE DEF Touches
  <2> QED
    BY <1>9, <2>1, <2>2, <2>3
<1> HIDE DEF Touches
<1>11. ASSUME NEW i \in DOMAIN candidates
       PROVE  (items'[i].why # "monitor" /\ candidates[i].snr >= MinSNR)
                <=> Planner!Cardinality({k \in DOMAIN r : r[k] = i}) = 1
  <2> HIDE DEF P
  <2> DEFINE at == {k \in DOMAIN r : r[k] = i}
  <2>1. (items'[i].why # "monitor" /\ candidates[i].snr >= MinSNR) <=> i \in P
    BY <1>8, <1>9
  <2>2. CASE i \in P
    <3>1. PICK k : PlaceOf(r, i, k)
      BY <1>7, <2>2 DEF IsRanking
    <3>2. at = {k}
      BY <3>1 DEF PlaceOf
    <3> HIDE DEF at
    <3>3. Cardinality(at) = 1
      BY <3>2, FS_Singleton
    <3> QED
      BY <2>1, <2>2, <3>3, SameCount DEF at
  <2>3. CASE i \notin P
    <3>1. at = {}
      BY <1>7, <2>3 DEF IsRanking
    <3> HIDE DEF at
    <3>3. Cardinality(at) = 0
      BY <3>1, FS_EmptySet
    <3>4. Cardinality(at) # 1
      BY <3>3
    <3> QED
      BY <2>1, <2>3, <3>4, SameCount DEF at
  <2> QED
    BY <2>2, <2>3
<1>12. ASSUME NEW k \in DOMAIN r, NEW l \in DOMAIN r, k < l
       PROVE  LET i == r[k] j == r[l] IN
             /\ items'[i].score >= items'[j].score
             /\ items'[i].tier >= items'[j].tier \/ items'[j].tier = Planner!TierFloor(candidates[j].hint)
  <2>1. PICK i, j : i = r[k] /\ j = r[l]
    OBVIOUS
  <2>2. i \in P /\ j \in P /\ its[i].score >= its[j].score
    BY <1>7, <1>12, <2>1 DEF IsRanking
  <2>3. i \in DOMAIN candidates /\ j \in DOMAIN candidates
    BY <2>2 DEF Picked
  <2>4. /\ items'[i].score = its[i].score /\ items'[j].score = its[j].score
        /\ items'[i].tier = tier[i] /\ items'[j].tier = tier[j]
    BY <1>9, <2>2, <2>3
  <2>5. tier[i] >= tier[j] \/ tier[j] = Planner!TierFloor(candidates[j].hint)
    BY <1>6, <2>2
  <2> QED
    BY <2>1, <2>2, <2>4, <2>5
<1> HIDE DEF P
<1> QED
  BY <1>4, <1>5, <1>7, <1>10, <1>11, <1>12 DEF Planner!WatchedIsPlanned, Touches

(* Counting what is in disjoint sets.                                        *)
LEMMA CountsAdd ==
  ASSUME NEW S, NEW T, IsFiniteSet(S), IsFiniteSet(T), S \cap T = {}
  PROVE  /\ IsFiniteSet(S \cup T) /\ Cardinality(S) \in Nat /\ Cardinality(T) \in Nat
         /\ Cardinality(S \cup T) = Cardinality(S) + Cardinality(T)
<1>1. Cardinality(S \cap T) = 0
  BY FS_EmptySet
<1>2. Cardinality(S) \in Nat /\ Cardinality(T) \in Nat
  BY FS_CardinalityType
<1>3. IsFiniteSet(S \cup T) /\ Cardinality(S \cup T) = Cardinality(S) + Cardinality(T) - Cardinality(S \cap T)
  BY FS_Union
<1> QED
  BY <1>1, <1>2, <1>3

Answer == {"admit", "hold", "displace", "defer"}

(* Whoever has one of the classes is counted once.                            *)
LEMMA ClassesAdd ==
  ASSUME NEW T, IsFiniteSet(T), NEW its, \A i \in T : its[i].class \in Answer \cup {"drop"}
  PROVE  LET Of(class) == Cardinality({i \in T : its[i].class = class})
         IN  /\ Of("admit") + Of("hold") + Of("displace") + Of("defer") = Cardinality({i \in T : its[i].class # "drop"})
             /\ Of("admit") + Of("hold") + Of("displace") + Of("defer") + Of("drop") = Cardinality(T)
<1> DEFINE In(class) == {i \in T : its[i].class = class}
           rest == {i \in T : its[i].class # "drop"}
<1>1. \A class : IsFiniteSet(In(class))
  BY FS_Subset
<1>3. rest = ((In("admit") \cup In("hold")) \cup In("displace")) \cup In("defer")
  BY DEF Answer
<1>4. T = rest \cup In("drop") /\ rest \cap In("drop") = {}
  OBVIOUS
<1>5. /\ In("admit") \cap In("hold") = {}
      /\ (In("admit") \cup In("hold")) \cap In("displace") = {}
      /\ ((In("admit") \cup In("hold")) \cup In("displace")) \cap In("defer") = {}
  OBVIOUS
<1> HIDE DEF rest, In
<1>6. /\ Cardinality(In("admit") \cup In("hold")) = Cardinality(In("admit")) + Cardinality(In("hold"))
      /\ IsFiniteSet(In("admit") \cup In("hold"))
      /\ Cardinality(In("admit")) \in Nat /\ Cardinality(In("hold")) \in Nat
  BY <1>1, <1>5, CountsAdd
<1>7. /\ Cardinality((In("admit") \cup In("hold")) \cup In("displace")) =
           Cardinality(In("admit") \cup In("hold")) + Cardinality(In("displace"))
      /\ IsFiniteSet((In("admit") \cup In("hold")) \cup In("displace"))
      /\ Cardinality(In("displace")) \in Nat
  BY <1>1, <1>5, <1>6, CountsAdd
<1>8. /\ Cardinality(rest) = Cardinality((In("admit") \cup In("hold")) \cup In("displace")) + Cardinality(In("defer"))
      /\ IsFiniteSet(rest)
      /\ Cardinality(In("defer")) \in Nat
  BY <1>1, <1>3, <1>5, <1>7, CountsAdd
<1>9. Cardinality(T) = Cardinality(rest) + Cardinality(In("drop")) /\ Cardinality(In("drop")) \in Nat
  BY <1>1, <1>4, <1>8, CountsAdd
<1>10. /\ Cardinality(In("admit")) + Cardinality(In("hold")) + Cardinality(In("displace")) + Cardinality(In("defer"))
             = Cardinality(rest)
       /\ Cardinality(In("admit")) + Cardinality(In("hold")) + Cardinality(In("displace")) + Cardinality(In("defer"))
             + Cardinality(In("drop")) = Cardinality(T)
  BY <1>6, <1>7, <1>8, <1>9
<1> QED
  BY <1>10 DEF rest, In

(* An item, and what is known of the items at each stage.                     *)
IsItem(x) ==
  x = [status |-> x.status, class |-> x.class, why |-> x.why, score |-> x.score, tier |-> x.tier, span |-> x.span]

Accounted(ws, cs, its, classes) ==
  /\ DOMAIN its = DOMAIN cs
  /\ \A i \in DOMAIN cs :
       IsItem(its[i]) /\ its[i].class \in (IF Promising(ws, cs[i]) THEN classes ELSE {"drop"})

Touching(ws, cs, w) == {i \in DOMAIN cs : w \in Planner!Matches(ws, cs[i])}

StatsOf(ws, cs) ==
  [w \in DOMAIN ws |->
     [candidates |-> Cardinality(Touching(ws, cs, w)),
      planned |-> Cardinality({i \in Touching(ws, cs, w) : cs[i].snr >= MinSNR}),
      dropped |-> Cardinality({i \in Touching(ws, cs, w) : ~(cs[i].snr >= MinSNR)})]]

Admission(cs, its) ==
  \A i \in DOMAIN cs :
    /\ its[i].status # "completed"
    /\ its[i].status = "admitted" <=> enabled /\ Planner!Admitted(its[i].class)
    /\ its[i].status = "admitted" => its[i].span = Planner!RefinementSpan(cs[i])

Decided(ws, cs, its) ==
  /\ \A i \in DOMAIN cs : its[i].status = "completed" <=> enabled /\ Planner!Admitted(its[i].class)
  /\ DOMAIN decisions = {i \in DOMAIN cs : its[i].status = "completed"}
  /\ \A i \in DOMAIN decisions :
       /\ its[i].span = Planner!RefinementSpan(cs[i])
       /\ \E class : decisions[i] = Planner!Decision(ws, cs[i], class)

BooksInv ==
  /\ Given
  /\ phase \in {"surveyed", "planned", "admitted", "refined", "done"}
  /\ phase # "surveyed" => stats = StatsOf(Windows, candidates)
  /\ phase = "planned" =>
       /\ Accounted(Windows, candidates, items, {"plan"})
       /\ \A i \in DOMAIN candidates : items[i].status = IF items[i].class = "plan" THEN "planned" ELSE "dropped"
  /\ phase \notin {"surveyed", "planned"} => Accounted(Windows, candidates, items, Answer)
  /\ phase = "admitted" => Admission(candidates, items)
  /\ phase \in {"refined", "done"} => Decided(Windows, candidates, items)
  /\ phase = "done" => outcomes = [w \in DOMAIN Windows |-> Planner!Outcome(Windows, w)]

(* Finitely many candidates touch a window.                                 *)
LEMMA FiniteTouching ==
  ASSUME NEW cs \in Seq(Candidate), NEW ws, NEW w
  PROVE  IsFiniteSet(Touching(ws, cs, w))
<1>1. PICK n \in Nat : DOMAIN cs = 1 .. n
  OBVIOUS
<1>2. PICK one \in Int : one = 1
  OBVIOUS
<1>3. IsFiniteSet(one .. n)
  BY FS_Interval
<1>4. Touching(ws, cs, w) \in SUBSET (one .. n)
  BY <1>1, <1>2 DEF Touching
<1> QED
  BY <1>3, <1>4, FS_Subset

(* The windows for which what was counted is what was planned and dropped.     *)
LEMMA BooksBalance ==
  ASSUME Measured, Given, Accounted(Windows, candidates, items, Answer), NEW w \in DOMAIN Windows,
         NEW s, s = StatsOf(Windows, candidates)[w], NEW o, o = Planner!Outcome(Windows, w)
  PROVE  /\ o["admit"] + o["hold"] + o["displace"] + o["defer"] + o["drop"] = s.planned + s.dropped
         /\ o["admit"] + o["hold"] + o["displace"] + o["defer"] + o["drop"] = s.candidates
         /\ o["drop"] = s.dropped
<1> DEFINE T == Touching(Windows, candidates, w)
           Of(class) == {i \in T : items[i].class = class}
           strong == {i \in T : candidates[i].snr >= MinSNR}
           weak == {i \in T : ~(candidates[i].snr >= MinSNR)}
<1>1. candidates \in Seq(Candidate)
  BY DEF Given, Measured
<1>2. IsFiniteSet(T)
  BY <1>1, FiniteTouching
<1>3. \A i \in T : i \in DOMAIN candidates /\ Watched(Windows, candidates[i])
  BY DEF Touching, Watched
<1>4. \A i \in T : items[i].class \in (IF candidates[i].snr >= MinSNR THEN Answer ELSE {"drop"})
  BY <1>3 DEF Accounted, Promising
<1>5. \A i \in T : items[i].class \in Answer \cup {"drop"}
  BY <1>4
<1>6. {i \in DOMAIN items : w \in Planner!Matches(Windows, candidates[i])} = T
  BY DEF Accounted, Touching
<1>7. o = [class \in {"admit", "hold", "displace", "defer", "drop"} |-> Planner!Cardinality(Of(class))]
  BY <1>6 DEF Planner!Outcome
<1>8. s = [candidates |-> Cardinality(T), planned |-> Cardinality(strong), dropped |-> Cardinality(weak)]
  BY DEF StatsOf
<1>9. strong = {i \in T : items[i].class # "drop"} /\ weak = Of("drop")
  BY <1>4 DEF Answer
<1>10. LET Card(class) == Cardinality({i \in T : items[i].class = class})
       IN  /\ Card("admit") + Card("hold") + Card("displace") + Card("defer") = Cardinality({i \in T : items[i].class # "drop"})
           /\ Card("admit") + Card("hold") + Card("displace") + Card("defer") + Card("drop") = Cardinality(T)
  <2> HIDE DEF T
  <2> QED
    BY <1>2, <1>5, ClassesAdd
<1>11. /\ Cardinality(Of("admit")) + Cardinality(Of("hold")) + Cardinality(Of("displace")) + Cardinality(Of("defer"))
             = Cardinality(strong)
       /\ Cardinality(Of("admit")) + Cardinality(Of("hold")) + Cardinality(Of("displace")) + Cardinality(Of("defer"))
             + Cardinality(Of("drop")) = Cardinality(T)
  BY <1>9, <1>10
<1> HIDE DEF T, Of, strong, weak
<1>12. /\ o["admit"] = Cardinality(Of("admit")) /\ o["hold"] = Cardinality(Of("hold"))
       /\ o["displace"] = Cardinality(Of("displace")) /\ o["defer"] = Cardinality(Of("defer"))
       /\ o["drop"] = Cardinality(Of("drop"))
  BY <1>7, SameCount
<1>13. s.candidates = Cardinality(T) /\ s.planned = Cardinality(strong) /\ s.dropped = Cardinality(Of("drop"))
  BY <1>8, <1>9
<1> QED
  BY <1>11, <1>12, <1>13

(* What a decision says of a window that records, or decodes, whatever comes.  *)
LEMMA DecisionIs ==
  ASSUME NEW ws, AreWindows(ws), NEW c \in Candidate, NEW class, NEW d, d = Planner!Decision(ws, c, class),
         NEW w \in Planner!Matches(ws, c)
  PROVE  /\ ws[w].record => d.record /\ ws[d.recordWindow].record
         /\ ws[w].decode => d.decode /\ ws[d.decodeWindow].decode
<1> DEFINE rec == {i \in Planner!Matches(ws, c) : ws[i].record}
           dec == {i \in Planner!Matches(ws, c) : ws[i].decode}
           tag == IF class = "" THEN c.hint ELSE class
<1>1. rec \in SUBSET DOMAIN ws /\ dec \in SUBSET DOMAIN ws
  BY MatchedIsWindow
<1> DEFINE records == tag \in RecordClasses \/ rec # {}
           decodes == tag \in DecodeClasses \/ dec # {}
<1>2. d = [record |-> records, decode |-> decodes,
           recordWindow |-> Planner!BestMatch(ws, c, rec), decodeWindow |-> Planner!BestMatch(ws, c, dec)]
  BY Zenon DEF Planner!Decision
<1>8. (rec # {} => records = TRUE) /\ (dec # {} => decodes = TRUE)
  OBVIOUS
<1>3. (ws[w].record => rec # {}) /\ (ws[w].decode => dec # {})
  OBVIOUS
<1>4. \A i \in rec : ws[i].record
  OBVIOUS
<1>5. \A i \in dec : ws[i].decode
  OBVIOUS
<1> HIDE DEF records, decodes
<1>9. d.record = records /\ d.decode = decodes
  BY <1>2
<1> HIDE DEF rec, dec, tag
<1>6. ASSUME ws[w].record PROVE d.record /\ ws[d.recordWindow].record
  <2>1. Planner!BestMatch(ws, c, rec) \in rec
    BY <1>1, <1>3, <1>6, BestMatchIs
  <2>2. d.recordWindow = Planner!BestMatch(ws, c, rec)
    BY <1>2
  <2>3. d.record
    BY <1>3, <1>6, <1>8, <1>9
  <2> QED
    BY <1>4, <2>1, <2>2, <2>3
<1>7. ASSUME ws[w].decode PROVE d.decode /\ ws[d.decodeWindow].decode
  <2>1. Planner!BestMatch(ws, c, dec) \in dec
    BY <1>1, <1>3, <1>7, BestMatchIs
  <2>2. d.decodeWindow = Planner!BestMatch(ws, c, dec)
    BY <1>2
  <2>3. d.decode
    BY <1>3, <1>7, <1>8, <1>9
  <2> QED
    BY <1>5, <2>1, <2>2, <2>3
<1> QED
  BY <1>6, <1>7

(* The span of a refinement is the policy's.                                  *)
LEMMA SpanIs ==
  ASSUME Measured, NEW c \in Candidate, NEW span, span = Planner!RefinementSpan(c)
  PROVE  /\ span > 0
         /\ MaxSpan > 0 => span <= MaxSpan \/ (MinSpan = 0 /\ c.bw = 0)
         /\ MaxSpan = 0 \/ MinSpan <= MaxSpan => span >= MinSpan
<1>1. c.bw \in Nat /\ MinSpan \in Nat /\ MaxSpan \in Nat /\ AutoSpan \in Nat
  BY DEF Candidate, Measured
<1> DEFINE wide == c.bw < 2 /\ AutoSpan # 0 /\ c.hint # ""
           own == IF wide THEN AutoSpan ELSE c.bw
           low == IF MinSpan > 0 /\ own < MinSpan THEN MinSpan ELSE own
           top == IF MaxSpan > 0 /\ low > MaxSpan THEN MaxSpan ELSE low
<1>2. span = IF top <= 0 THEN 3 ELSE top
  BY Zenon DEF Planner!RefinementSpan
<1>3. wide => AutoSpan # 0
  OBVIOUS
<1> HIDE DEF wide
<1>4. own \in Nat /\ (own = 0 => c.bw = 0)
  BY <1>1, <1>3
<1> HIDE DEF own
<1> QED
  BY <1>1, <1>2, <1>4

(* The invariant is enough for the books to balance.                          *)
LEMMA BooksAddUp ==
  ASSUME Measured, BooksInv
  PROVE  Planner!OutcomesAddUp
<1> SUFFICES ASSUME phase = "done" PROVE Planner!OutcomesAddUp
  BY DEF Planner!OutcomesAddUp
<1>1. PICK ws : ws = Windows
  OBVIOUS
<1>2. /\ AreWindows(ws) /\ candidates \in Seq(Candidate) /\ Given
      /\ Accounted(ws, candidates, items, Answer) /\ Decided(ws, candidates, items)
      /\ stats = StatsOf(ws, candidates) /\ outcomes = [w \in DOMAIN ws |-> Planner!Outcome(ws, w)]
  BY <1>1, WindowsAre DEF BooksInv, Given, Measured
<1> DEFINE Sum(o) == o["admit"] + o["hold"] + o["displace"] + o["defer"] + o["drop"]
<1>3. ASSUME NEW w \in DOMAIN ws
      PROVE  /\ Sum(outcomes[w]) = stats[w].planned + stats[w].dropped
             /\ Sum(outcomes[w]) = stats[w].candidates
             /\ outcomes[w]["drop"] = stats[w].dropped
  <2>1. PICK o, s : o = outcomes[w] /\ s = stats[w]
    OBVIOUS
  <2>2. o = Planner!Outcome(ws, w) /\ s = StatsOf(ws, candidates)[w]
    BY <1>2, <2>1
  <2>3. /\ o["admit"] + o["hold"] + o["displace"] + o["defer"] + o["drop"] = s.planned + s.dropped
        /\ o["admit"] + o["hold"] + o["displace"] + o["defer"] + o["drop"] = s.candidates
        /\ o["drop"] = s.dropped
    BY <1>1, <1>2, <2>2, BooksBalance
  <2> QED
    BY <2>1, <2>3
<1>4. DOMAIN items = DOMAIN candidates /\ DOMAIN decisions = {i \in DOMAIN candidates : items[i].status = "completed"}
  BY <1>2 DEF Accounted, Decided
<1>5. ASSUME enabled, NEW i \in DOMAIN items
      PROVE  Planner!Admitted(items[i].class) <=> (items[i].status = "completed" /\ i \in DOMAIN decisions)
  BY <1>2, <1>4, <1>5 DEF Decided
<1>6. ASSUME NEW i \in DOMAIN decisions
      PROVE  /\ items[i].span > 0
             /\ MaxSpan > 0 => items[i].span <= MaxSpan \/ (MinSpan = 0 /\ candidates[i].bw = 0)
             /\ MaxSpan = 0 \/ MinSpan <= MaxSpan => items[i].span >= MinSpan
             /\ \A w \in Planner!Matches(ws, candidates[i]) :
                  ws[w].record => decisions[i].record /\ ws[decisions[i].recordWindow].record
             /\ \A w \in Planner!Matches(ws, candidates[i]) :
                  ws[w].decode => decisions[i].decode /\ ws[decisions[i].decodeWindow].decode
  <2>1. PICK c, span, d : c = candidates[i] /\ span = items[i].span /\ d = decisions[i]
    OBVIOUS
  <2>2. c \in Candidate /\ span = Planner!RefinementSpan(c)
    BY <1>2, <1>4, <2>1 DEF Decided
  <2>3. PICK class : d = Planner!Decision(ws, c, class)
    BY <1>2, <2>1 DEF Decided
  <2>4. /\ span > 0
        /\ MaxSpan > 0 => span <= MaxSpan \/ (MinSpan = 0 /\ c.bw = 0)
        /\ MaxSpan = 0 \/ MinSpan <= MaxSpan => span >= MinSpan
    BY <2>2, SpanIs
  <2>5. \A w \in Planner!Matches(ws, c) :
          /\ ws[w].record => d.record /\ ws[d.recordWindow].record
          /\ ws[w].decode => d.decode /\ ws[d.decodeWindow].decode
    BY <1>2, <2>2, <2>3, DecisionIs
  <2> QED
    BY <2>1, <2>4, <2>5
<1> HIDE DEF Sum
<1> QED
  BY <1>1, <1>3, <1>5, <1>6, Zenon DEF Planner!OutcomesAddUp, Sum, Windows

(* Before the plan there is nothing to balance.                             *)
LEMMA BooksStart == Planner!Init => BooksInv
  BY DEF Planner!Init, BooksInv, Given

(* The plan.                                                                *)
LEMMA PlanCounts ==
  ASSUME Measured, Given, Planner!Plan
  PROVE  stats' = StatsOf(Windows, candidates)
<1>1. PICK ws : ws = Windows
  OBVIOUS
<1>2. PICK its : its = First(ws, candidates)
  OBVIOUS
<1>3. AreWindows(ws) /\ candidates \in Seq(Candidate)
  BY <1>1, WindowsAre DEF Given, Measured
<1> DEFINE made == [i \in DOMAIN candidates |-> Planner!Item(Planner!MonitorWindows, candidates[i])]
           In(w) == {i \in DOMAIN made : w \in Planner!Matches(Planner!MonitorWindows, candidates[i])}
<1>4. its = made
  BY <1>1, <1>2 DEF First, Windows
<1>5. stats' = [w \in DOMAIN Planner!MonitorWindows |->
        [candidates |-> Planner!Cardinality(In(w)),
         planned |-> Planner!Cardinality(In(w) \cap Planner!Planned(made)),
         dropped |-> Planner!Cardinality({i \in In(w) : made[i].why = "snr"})]]
  BY Zenon DEF Planner!Plan
<1> HIDE DEF made
<1>6. /\ DOMAIN made = DOMAIN candidates /\ Planner!Planned(made) = Picked(ws, candidates)
      /\ \A i \in DOMAIN candidates : made[i] = Planner!Item(ws, candidates[i])
  <2>1. DOMAIN its = DOMAIN candidates /\ Planner!Planned(its) = Picked(ws, candidates)
    BY <1>2, <1>3, PickedIs
  <2>2. \A i \in DOMAIN candidates : its[i] = Planner!Item(ws, candidates[i])
    BY <1>2 DEF First
  <2> QED
    BY <1>4, <2>1, <2>2
<1>7. ASSUME NEW w \in DOMAIN ws
      PROVE  /\ In(w) = Touching(ws, candidates, w)
             /\ In(w) \cap Planner!Planned(made) = {i \in Touching(ws, candidates, w) : candidates[i].snr >= MinSNR}
             /\ {i \in In(w) : made[i].why = "snr"} = {i \in Touching(ws, candidates, w) : ~(candidates[i].snr >= MinSNR)}
  <2>1. In(w) = Touching(ws, candidates, w)
    BY <1>1, <1>6 DEF Touching, Windows
  <2>2. ASSUME NEW i \in In(w)
        PROVE  /\ i \in Planner!Planned(made) <=> candidates[i].snr >= MinSNR
               /\ made[i].why = "snr" <=> ~(candidates[i].snr >= MinSNR)
    <3>1. i \in DOMAIN candidates /\ Watched(ws, candidates[i])
      BY <2>1 DEF Touching, Watched
    <3>2. candidates[i] \in Candidate
      BY <1>3, <3>1
    <3>3. i \in Planner!Planned(made) <=> candidates[i].snr >= MinSNR
      BY <1>6, <3>1 DEF Picked, Promising
    <3>4. PICK item : item = made[i]
      OBVIOUS
    <3>5. item = Planner!Item(ws, candidates[i])
      BY <1>6, <3>1, <3>4
    <3>6. item.why = "snr" <=> Watched(ws, candidates[i]) /\ ~(candidates[i].snr >= MinSNR)
      BY <1>3, <3>2, <3>5, ItemIs
    <3> QED
      BY <3>1, <3>3, <3>4, <3>6
  <2> HIDE DEF In
  <2> QED
    BY <2>1, <2>2
<1>8. DOMAIN Planner!MonitorWindows = DOMAIN ws
  BY <1>1 DEF Windows
<1> HIDE DEF In
<1>9. stats' = [w \in DOMAIN ws |->
        [candidates |-> Cardinality(In(w)),
         planned |-> Cardinality(In(w) \cap Planner!Planned(made)),
         dropped |-> Cardinality({i \in In(w) : made[i].why = "snr"})]]
  BY <1>5, <1>8, SameCount
<1>10. stats' = StatsOf(ws, candidates)
  BY <1>7, <1>9 DEF StatsOf
<1> QED
  BY <1>1, <1>10

(* The plan keeps the invariant.                                            *)
LEMMA PlanBooks ==
  ASSUME Measured, BooksInv, Planner!Plan
  PROVE  BooksInv'
<1>1. PICK ws : ws = Windows
  OBVIOUS
<1>2. Given
  BY DEF BooksInv
<1>3. AreWindows(ws) /\ candidates \in Seq(Candidate)
  BY <1>1, <1>2, WindowsAre DEF Given, Measured
<1>4. /\ goals' = goals /\ candidates' = candidates /\ enabled' = enabled
      /\ phase' = "planned"
  BY DEF Planner!Plan
<1>5. Windows' = ws /\ Given'
  BY <1>1, <1>2, <1>4, WindowsStay DEF Given
<1>6. stats' = StatsOf(ws, candidates)
  BY <1>1, <1>2, PlanCounts
<1>7. PICK its : its = First(ws, candidates)
  OBVIOUS
<1>8. PICK tier : items' = WithTiers(ws, candidates, tier)
  BY <1>1, <1>2, <1>7, PlanIs
<1>9. ASSUME NEW i \in DOMAIN candidates
      PROVE  /\ IsItem(items'[i])
             /\ items'[i].class \in (IF Promising(ws, candidates[i]) THEN {"plan"} ELSE {"drop"})
             /\ items'[i].status = IF items'[i].class = "plan" THEN "planned" ELSE "dropped"
  <2>1. PICK item, new : item = its[i] /\ new = items'[i]
    OBVIOUS
  <2>2. item = Planner!Item(ws, candidates[i]) /\ candidates[i] \in Candidate
    BY <1>3, <1>7, <2>1 DEF First
  <2>3. /\ (item.status = "planned") <=> Promising(ws, candidates[i])
        /\ item.class = IF item.status = "planned" THEN "plan" ELSE "drop"
        /\ item.status \in {"planned", "dropped"}
        /\ IsItem(item)
    BY <1>3, <2>2, ItemIs DEF Promising, IsItem
  <2>4. new = item \/ new = [item EXCEPT !.tier = tier[i]]
    BY <1>7, <1>8, <2>1 DEF WithTiers
  <2>5. IsItem(new) /\ new.status = item.status /\ new.class = item.class
    BY <2>3, <2>4 DEF IsItem
  <2> QED
    BY <2>1, <2>3, <2>5
<1>10. DOMAIN items' = DOMAIN candidates
  BY <1>8 DEF WithTiers
<1>11. Accounted(ws, candidates, items', {"plan"})
  BY <1>9, <1>10 DEF Accounted
<1>12. \A i \in DOMAIN candidates : items'[i].status = IF items'[i].class = "plan" THEN "planned" ELSE "dropped"
  BY <1>9
<1>13. Accounted(Windows, candidates, items, {"plan"})'
  BY <1>4, <1>5, <1>6, <1>11 DEF Accounted, Promising, Watched, Planner!InBounds, Planner!Matches, Planner!Valid
<1> QED
  BY <1>4, <1>5, <1>6, <1>12, <1>13 DEF BooksInv

Answered(y, class, span, status) == IsItem(y) /\ y.class = class /\ y.span = span /\ y.status = status

(* An item with an answer.                                                  *)
LEMMA AnsweredItem ==
  ASSUME NEW x, IsItem(x), NEW class, NEW span, NEW why, NEW status, NEW y,
         y = [x EXCEPT !.class = class, !.span = span, !.why = why, !.status = status]
  PROVE  Answered(y, class, span, status)
  BY DEF Answered, IsItem

(* The arbiter's answer.                                                    *)
LEMMA AdmitBooks ==
  ASSUME Measured, BooksInv, Planner!Admit
  PROVE  BooksInv'
<1>1. PICK ws : ws = Windows
  OBVIOUS
<1>2. /\ Given /\ phase = "planned" /\ stats = StatsOf(ws, candidates)
      /\ Accounted(ws, candidates, items, {"plan"})
      /\ \A i \in DOMAIN candidates : items[i].status = IF items[i].class = "plan" THEN "planned" ELSE "dropped"
  BY <1>1 DEF BooksInv, Planner!Admit
<1>3. /\ goals' = goals /\ candidates' = candidates /\ enabled' = enabled /\ stats' = stats
      /\ phase' = "admitted"
  BY DEF Planner!Admit
<1>4. Windows' = ws /\ Given'
  BY <1>1, <1>2, <1>3, WindowsStay DEF Given
<1> DEFINE P == {i \in DOMAIN candidates : Promising(ws, candidates[i])}
           Status(class) == CASE ~enabled -> "dropped"
                              [] enabled /\ Planner!Admitted(class) -> "admitted"
                              [] enabled /\ class = "displace" -> "displaced"
                              [] enabled /\ class = "defer" -> "skipped"
           Span(i, class) == IF Planner!Admitted(class) THEN Planner!RefinementSpan(candidates[i]) ELSE 0
           why == IF enabled THEN "arbiter" ELSE "disabled"
<1>5. Planner!Planned(items) = P
  BY <1>2 DEF Planner!Planned, Accounted
<1>6. PICK answer \in [Planner!Planned(items) -> {"admit", "hold", "displace", "defer"}] :
        items' = [i \in DOMAIN items |->
            IF i \notin Planner!Planned(items) THEN items[i]
            ELSE [items[i] EXCEPT !.class = answer[i], !.span = Span(i, answer[i]), !.why = why, !.status = Status(answer[i])]]
  BY Zenon DEF Planner!Admit, Planner!Answers
<1>7. \A class \in Answer :
        /\ Status(class) # "completed"
        /\ Status(class) = "admitted" <=> enabled /\ Planner!Admitted(class)
  BY DEF Answer, Planner!Admitted
<1>8. \A i : \A class : Status(class) = "admitted" /\ enabled /\ Planner!Admitted(class) => Span(i, class) = Planner!RefinementSpan(candidates[i])
  OBVIOUS
<1> HIDE DEF Status, Span, why
<1>9. ASSUME NEW i \in DOMAIN candidates
      PROVE  /\ IsItem(items'[i])
             /\ items'[i].class \in (IF Promising(ws, candidates[i]) THEN Answer ELSE {"drop"})
             /\ items'[i].status # "completed"
             /\ items'[i].status = "admitted" <=> enabled /\ Planner!Admitted(items'[i].class)
             /\ items'[i].status = "admitted" => items'[i].span = Planner!RefinementSpan(candidates[i])
  <2>1. PICK x, y : x = items[i] /\ y = items'[i]
    OBVIOUS
  <2>2. IsItem(x) /\ i \in DOMAIN items
    BY <1>2, <2>1 DEF Accounted
  <2>3. CASE i \in P
    <3>1. PICK class : class = answer[i]
      OBVIOUS
    <3>2. class \in Answer
      BY <1>5, <1>6, <2>3, <3>1 DEF Answer
    <3>3. y = [x EXCEPT !.class = class, !.span = Span(i, class), !.why = why, !.status = Status(class)]
      BY <1>5, <1>6, <2>1, <2>2, <2>3, <3>1
    <3>7. PICK span, reason, status : span = Span(i, class) /\ reason = why /\ status = Status(class)
      OBVIOUS
    <3>8. y = [x EXCEPT !.class = class, !.span = span, !.why = reason, !.status = status]
      BY <3>3, <3>7
    <3>9. Answered(y, class, span, status)
      BY <2>2, <3>8, AnsweredItem
    <3>4. IsItem(y) /\ y.class = class /\ y.span = Span(i, class) /\ y.status = Status(class)
      BY <3>7, <3>9 DEF Answered
    <3>5. y.status = "admitted" => y.span = Planner!RefinementSpan(candidates[i])
      BY <1>7, <1>8, <3>2, <3>4
    <3>6. y.status # "completed" /\ (y.status = "admitted" <=> enabled /\ Planner!Admitted(y.class))
      BY <1>7, <3>2, <3>4
    <3> QED
      BY <2>1, <2>3, <3>2, <3>4, <3>5, <3>6
  <2>4. CASE i \notin P
    <3>1. y = x /\ x.class = "drop" /\ x.status = "dropped"
      BY <1>2, <1>5, <1>6, <2>1, <2>2, <2>4 DEF Accounted
    <3>2. ~Planner!Admitted("drop")
      BY DEF Planner!Admitted
    <3> QED
      BY <2>1, <2>2, <2>4, <3>1, <3>2
  <2> QED
    BY <2>3, <2>4
<1>10. DOMAIN items' = DOMAIN candidates
  BY <1>2, <1>6 DEF Accounted
<1>11. Accounted(ws, candidates, items', Answer)
  BY <1>9, <1>10 DEF Accounted
<1>12. Admission(candidates, items)'
  BY <1>3, <1>9 DEF Admission
<1>13. Accounted(Windows, candidates, items, Answer)'
  BY <1>3, <1>4, <1>11 DEF Accounted, Promising, Watched, Planner!InBounds, Planner!Matches, Planner!Valid
<1> QED
  BY <1>2, <1>3, <1>4, <1>12, <1>13 DEF BooksInv

(* What was admitted is refined and decided upon.                             *)
LEMMA RefineBooks ==
  ASSUME Measured, BooksInv, Planner!Refine
  PROVE  BooksInv'
<1>1. PICK ws : ws = Windows
  OBVIOUS
<1>2. /\ Given /\ phase = "admitted" /\ stats = StatsOf(ws, candidates)
      /\ Accounted(ws, candidates, items, Answer) /\ Admission(candidates, items)
  BY <1>1 DEF BooksInv, Planner!Refine
<1>3. /\ goals' = goals /\ candidates' = candidates /\ enabled' = enabled /\ stats' = stats
      /\ phase' = "refined"
  BY DEF Planner!Refine
<1>4. Windows' = ws /\ Given'
  BY <1>1, <1>2, <1>3, WindowsStay DEF Given
<1> DEFINE todo == {i \in DOMAIN items : items[i].status = "admitted"}
<1>5. items' = [i \in DOMAIN items |-> IF i \in todo THEN [items[i] EXCEPT !.status = "completed"] ELSE items[i]]
  BY Zenon DEF Planner!Refine
<1>6. PICK class : decisions' = [i \in todo |-> Planner!Decision(Planner!MonitorWindows, candidates[i], class[i])]
  BY Zenon DEF Planner!Refine
<1>7. DOMAIN decisions' = todo /\ \A i \in todo : decisions'[i] = Planner!Decision(ws, candidates[i], class[i])
  BY <1>1, <1>6 DEF Windows
<1>8. ASSUME NEW i \in DOMAIN candidates
      PROVE  /\ IsItem(items'[i])
             /\ items'[i].class \in (IF Promising(ws, candidates[i]) THEN Answer ELSE {"drop"})
             /\ items'[i].status = "completed" <=> enabled /\ Planner!Admitted(items'[i].class)
             /\ items'[i].status = "completed" <=> i \in todo
             /\ i \in todo => items'[i].span = Planner!RefinementSpan(candidates[i])
  <2>1. PICK x, y : x = items[i] /\ y = items'[i]
    OBVIOUS
  <2>2. /\ IsItem(x) /\ i \in DOMAIN items
        /\ x.class \in (IF Promising(ws, candidates[i]) THEN Answer ELSE {"drop"})
        /\ x.status # "completed"
        /\ x.status = "admitted" <=> enabled /\ Planner!Admitted(x.class)
        /\ x.status = "admitted" => x.span = Planner!RefinementSpan(candidates[i])
    BY <1>2, <2>1 DEF Accounted, Admission
  <2>3. y = IF x.status = "admitted" THEN [x EXCEPT !.status = "completed"] ELSE x
    BY <1>5, <2>1, <2>2
  <2>4. /\ IsItem(y) /\ y.class = x.class /\ y.span = x.span
        /\ y.status = IF x.status = "admitted" THEN "completed" ELSE x.status
    BY <2>2, <2>3 DEF IsItem
  <2>5. i \in todo <=> x.status = "admitted"
    BY <2>1, <2>2
  <2> HIDE DEF todo
  <2> QED
    BY <2>1, <2>2, <2>4, <2>5
<1>9. DOMAIN items' = DOMAIN candidates /\ todo \subseteq DOMAIN candidates
  BY <1>2, <1>5 DEF Accounted
<1>10. Accounted(ws, candidates, items', Answer)
  BY <1>8, <1>9 DEF Accounted
<1> HIDE DEF todo
<1>11. PICK ds, its : ds = decisions' /\ its = items'
  OBVIOUS
<1>12. \A i \in DOMAIN candidates : its[i].status = "completed" <=> enabled /\ Planner!Admitted(its[i].class)
  BY <1>8, <1>11
<1>13. DOMAIN ds = {i \in DOMAIN candidates : its[i].status = "completed"}
  BY <1>7, <1>8, <1>9, <1>11
<1>14. \A i \in DOMAIN ds :
         /\ its[i].span = Planner!RefinementSpan(candidates[i])
         /\ \E c : ds[i] = Planner!Decision(ws, candidates[i], c)
  BY <1>7, <1>8, <1>9, <1>11
<1>15. Decided(ws, candidates, items)'
  BY <1>3, <1>11, <1>12, <1>13, <1>14, Zenon DEF Decided
<1>16. Accounted(Windows, candidates, items, Answer)'
  BY <1>3, <1>4, <1>10 DEF Accounted, Promising, Watched, Planner!InBounds, Planner!Matches, Planner!Valid
<1> QED
  BY <1>2, <1>3, <1>4, <1>15, <1>16 DEF BooksInv

(* The outcomes are counted.                                                 *)
LEMMA SummarizeBooks ==
  ASSUME BooksInv, Planner!Summarize
  PROVE  BooksInv'
<1>1. /\ goals' = goals /\ candidates' = candidates /\ enabled' = enabled /\ stats' = stats
      /\ items' = items /\ decisions' = decisions /\ phase = "refined" /\ phase' = "done"
      /\ outcomes' = [w \in DOMAIN Windows |-> Planner!Outcome(Windows, w)]
  BY DEF Planner!Summarize, Windows
<1>2. Windows' = Windows /\ Given'
  BY <1>1, WindowsStay DEF Given, BooksInv
<1>3. \A w : Planner!Outcome(Windows, w)' = Planner!Outcome(Windows, w)
  BY <1>1, <1>2 DEF Planner!Outcome
<1>4. outcomes' = [w \in DOMAIN Windows |-> Planner!Outcome(Windows, w)]'
  BY <1>1, <1>2, <1>3
<1>5. Decided(Windows, candidates, items)' /\ (stats = StatsOf(Windows, candidates))'
  BY <1>1, <1>2 DEF BooksInv, Decided
<1>6. Accounted(Windows, candidates, items, Answer)
  BY <1>1 DEF BooksInv
<1>7. Accounted(Windows, candidates, items, Answer)'
  BY <1>1, <1>2, <1>6 DEF Accounted, Promising, Watched, Planner!InBounds, Planner!Matches, Planner!Valid
<1> QED
  BY <1>1, <1>2, <1>4, <1>5, <1>7 DEF BooksInv

(* Nothing happens, nothing changes.                                        *)
LEMMA BooksStutter ==
  ASSUME BooksInv, UNCHANGED Planner!vars
  PROVE  BooksInv'
<1>1. UNCHANGED <<goals, enabled, candidates, phase, items, ranked, stats, decisions, outcomes>>
  BY DEF Planner!vars
<1>2. Windows' = Windows /\ Given'
  BY <1>1, WindowsStay DEF Given, BooksInv
<1>3. \A w : Planner!Outcome(Windows, w)' = Planner!Outcome(Windows, w)
  BY <1>1, <1>2 DEF Planner!Outcome
<1>4. phase = "done" => (outcomes = [w \in DOMAIN Windows |-> Planner!Outcome(Windows, w)])'
  BY <1>1, <1>2, <1>3 DEF BooksInv
<1>5. ASSUME NEW classes, Accounted(Windows, candidates, items, classes)
      PROVE  Accounted(Windows, candidates, items, classes)'
  BY <1>1, <1>2, <1>5 DEF Accounted, Promising, Watched, Planner!InBounds, Planner!Matches, Planner!Valid
<1>6. phase = "planned" => Accounted(Windows, candidates, items, {"plan"})'
  BY <1>5 DEF BooksInv
<1>7. phase \notin {"surveyed", "planned"} => Accounted(Windows, candidates, items, Answer)'
  BY <1>5 DEF BooksInv
<1> QED
  BY <1>1, <1>2, <1>4, <1>6, <1>7 DEF BooksInv, Decided, Admission

(* The books of every window balance, what was counted as admitted was refined  *)
(* and decided upon in a span that is the policy's, and a window that records    *)
(* or decodes whatever comes has it recorded or decoded, for any windows and     *)
(* candidates (OutcomesAddUp).                                              *)
THEOREM BooksBalanced ==
  ASSUME Measured
  PROVE  Planner!Spec => []Planner!OutcomesAddUp
<1>1. BooksInv /\ [Planner!Next]_Planner!vars => BooksInv'
  BY PlanBooks, AdmitBooks, RefineBooks, SummarizeBooks, BooksStutter DEF Planner!Next
<1>2. BooksInv => Planner!OutcomesAddUp
  BY BooksAddUp
<1> QED
  BY <1>1, <1>2, BooksStart, PTL DEF Planner!Spec

(* Whoever is in a watched band is ranked, once, before all that score less and  *)
(* with no lower a tier but for the floors, and nobody else (WatchedIsPlanned).   *)
THEOREM WatchedAreRanked ==
  ASSUME Measured
  PROVE  Planner!Spec => []Planner!WatchedIsPlanned
<1>1. Planner!Init => Given /\ Planner!WatchedIsPlanned
  BY DEF Planner!Init, Given, Planner!WatchedIsPlanned
<1>2. ASSUME Given, Planner!WatchedIsPlanned, [Planner!Next]_Planner!vars
      PROVE  Given' /\ Planner!WatchedIsPlanned'
  <2>1. Given'
    BY <1>2 DEF Given, Planner!Next, Planner!Plan, Planner!Admit, Planner!Refine, Planner!Summarize, Planner!vars
  <2>2. CASE Planner!Plan
    BY <1>2, <2>1, <2>2, PlanWatches
  <2>3. CASE Planner!Admit \/ Planner!Refine \/ Planner!Summarize
    <3>1. phase' # "planned"
      BY <2>3 DEF Planner!Admit, Planner!Refine, Planner!Summarize
    <3> QED
      BY <2>1, <3>1 DEF Planner!WatchedIsPlanned
  <2>4. CASE UNCHANGED Planner!vars
    <3>1. UNCHANGED <<goals, candidates, phase, items, ranked>>
      BY <2>4 DEF Planner!vars
    <3>2. Planner!MonitorWindows' = Planner!MonitorWindows
      BY <3>1, WindowsStay DEF Windows
    <3> QED
      BY <1>2, <2>1, <3>1, <3>2, Zenon DEF Planner!WatchedIsPlanned, Planner!InBounds
  <2> QED
    BY <1>2, <2>2, <2>3, <2>4 DEF Planner!Next
<1> QED
  BY <1>1, <1>2, PTL DEF Planner!Spec
=============================================================================
