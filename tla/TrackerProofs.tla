----------------------------- MODULE TrackerProofs -----------------------------
(***************************************************************************)
(* That the tracker keeps events apart: for any frequencies, matching       *)
(* window, tolerances, maturity and numbers of frames and ids.  Then, that    *)
(* an event's class is what its votes say (module ClassVotes), that how its     *)
(* samples are cut into frames never shows in what the extractor makes of them  *)
(* (module Extraction), and hardly in what the rate changers make of those      *)
(* (module Resampling), that fusing the candidates of several detectors          *)
(* counts each observation once (module Fusion), and that windows which slide     *)
(* over the spectrum give the thresholds they should (module Cfar).              *)
(***************************************************************************)
EXTENDS Tracker, FiniteSetTheorems, SequenceTheorems, WellFoundedInduction, TLAPS

(* What is reported has ended: its id was given and is not in use.            *)
Reported ==
  /\ finished \in [IDs -> {0, 1}]
  /\ \A i \in IDs : finished[i] = 1 => i < nextID /\ i \notin DOMAIN active

TrackerInv == TypeOK /\ Reported
-----------------------------------------------------------------------------
(* A set of naturals has a least element: the way to induction.              *)
LEMMA Least ==
  ASSUME NEW S \in SUBSET Nat, S # {}
  PROVE  \E m \in S : \A k \in S : m <= k
<1> DEFINE R == {ss \in Nat \X Nat : ss[1] < ss[2]}
<1>1. OpToRel(<, Nat) = R
  BY Zenon DEF OpToRel
<1>2. IsWellFoundedOn(R, Nat)
  BY NatLessThanWellFounded, <1>1, Zenon
<1> HIDE DEF R
<1>3. PICK x \in S : \A y \in S : ~(<<y, x>> \in R)
  BY <1>2, WFMin
<1>4. ASSUME NEW k \in S PROVE x <= k
  <2>1. ~(k < x)
    BY <1>3 DEF R
  <2> QED
    BY <2>1
<1> QED
  BY <1>4

(* Induction up to n, over a set instead of a predicate.                     *)
LEMMA Induction ==
  ASSUME NEW n \in Nat, NEW S, 0 \in S,
         \A k \in Nat : k < n /\ k \in S => k + 1 \in S
  PROVE  \A k \in 0 .. n : k \in S
<1> DEFINE bad == {k \in 0 .. n : k \notin S}
<1> SUFFICES ASSUME bad # {} PROVE FALSE
  OBVIOUS
<1>0. bad \in SUBSET Nat
  OBVIOUS
<1> HIDE DEF bad
<1>1. PICK m \in bad : \A k \in bad : m <= k
  BY <1>0, Least
<1> USE DEF bad
<1>2. m \in Nat /\ m <= n /\ m # 0 /\ m \notin S
  OBVIOUS
<1>3. m - 1 \in Nat /\ m - 1 < n /\ m - 1 \notin bad
  BY <1>1, <1>2
<1>4. m - 1 \in S /\ (m - 1) + 1 = m
  BY <1>2, <1>3
<1> QED
  BY <1>2, <1>3, <1>4

(* The greatest of finitely many numbers.                                    *)
LEMMA MaxIs ==
  ASSUME NEW n \in Nat, NEW s \in SUBSET (1 .. n), s # {}
  PROVE  Max(s) \in s /\ \A y \in s : y <= Max(s)
<1> DEFINE U == {m \in Nat : \A y \in s : y <= m}
<1>1. n \in U
  OBVIOUS
<1>2. PICK m \in U : \A k \in U : m <= k
  BY <1>1, Least
<1>3. m \in s
  <2> SUFFICES ASSUME m \notin s PROVE FALSE
    OBVIOUS
  <2>0. m \in Nat /\ \A y \in s : y \in Nat /\ y >= 1 /\ y <= m /\ y # m
    BY <1>2
  <2>1. PICK y \in s : TRUE
    OBVIOUS
  <2>2. m - 1 \in Nat
    <3>1. y \in Nat /\ y >= 1 /\ y <= m
      BY <2>0
    <3> QED
      BY <2>0, <3>1
  <2>3. \A z \in s : z <= m - 1
    BY <2>0
  <2> QED
    BY <1>2, <2>2, <2>3
<1>4. \E x \in s : \A y \in s : y <= x
  BY <1>2, <1>3
<1> QED
  BY <1>4 DEF Max

(* The fusion of what several detectors found is an instance of its module.    *)
CONSTANTS Primaries, Seconds, Bands, BinOf, MinSplitSNR, MinSplitSeparation

VARIABLES found, other, bands, how, candidates

Fused == INSTANCE Fusion

(* So are the thresholds that adapt to the noise around a bin.                 *)
CONSTANTS Cells, Powers, Trains, Guards, Ranks

VARIABLES spectrum, shape, thresholds

Noise == INSTANCE Cfar

(* The folds: an event chooses a signal, a detected band passes the gate, a     *)
(* primary takes observations, an observation that is left follows; numbers     *)
(* are added, or put in their order, and windows slide.                        *)
Step(kind, c, s, x) ==
  IF kind = "choose" THEN Choose(c, s, x)
  ELSE IF kind = "gate" THEN Fused!Gate(s, x)
  ELSE IF kind = "take" THEN Fused!Take(c[1], c[2], s, x)
  ELSE IF kind = "leave" THEN Fused!Leave(c[1], c[2], s, x)
  ELSE IF kind = "add" THEN s + x
  ELSE IF kind = "insert" THEN Noise!InsertSorted(s, x)
  ELSE IF kind = "slide" THEN Append(s, Noise!Slide(c[1], c[2], Noise!Last(s), x))
  ELSE Append(s, Noise!SlideSorted(c[1], c[2], Noise!Last(s), x))

(* The function that FoldLeft applies to the domain of a sequence.           *)
Iterates(kind, c, base, order, iter) ==
  iter = [s \in SUBSET DOMAIN order |->
            IF s = {} THEN base
            ELSE Step(kind, c, iter[s \ {Max(s)}], order[Max(s)])]

(* There is such a function: on the sets of the first m places it is defined  *)
(* by that of the first m - 1.                                              *)
LEMMA IterExists ==
  ASSUME NEW kind, NEW c, NEW base, NEW n \in Nat, NEW order, DOMAIN order = 1 .. n
  PROVE  \E iter : Iterates(kind, c, base, order, iter)
<1> DEFINE result(g, s) == IF s = {} THEN base
                         ELSE Step(kind, c, g[s \ {Max(s)}], order[Max(s)])
           Is(g, m) == g = [s \in SUBSET (1 .. m) |-> result(g, s)]
           good == {m \in Nat : \E g : Is(g, m)}
<1>1. 0 \in good
  <2> DEFINE none == [s \in SUBSET (1 .. 0) |-> base]
  <2>1. \A s \in SUBSET (1 .. 0) : result(none, s) = base
    BY 1 .. 0 = {}
  <2> HIDE DEF result
  <2>2. Is(none, 0)
    BY <2>1
  <2> HIDE DEF Is, none
  <2> QED
    BY <2>2
<1>2. ASSUME NEW k \in Nat, k < n, k \in good PROVE k + 1 \in good
  <2> DEFINE m == k + 1
  <2>1. m \in Nat /\ m - 1 = k /\ m \in 1 .. n
    BY <1>2
  <2> HIDE DEF m
  <2>2. PICK g : Is(g, k)
    BY <1>2
  <2> DEFINE more == [s \in SUBSET (1 .. m) |-> result(g, s)]
  <2>3. \A s \in SUBSET (1 .. k) : more[s] = g[s]
    <3>1. SUBSET (1 .. k) \subseteq SUBSET (1 .. m)
      BY <2>1
    <3> HIDE DEF result
    <3>2. \A s \in SUBSET (1 .. k) : g[s] = result(g, s)
      BY <2>2
    <3> QED
      BY <3>1, <3>2
  <2>4. ASSUME NEW s \in SUBSET (1 .. m), s # {} PROVE s \ {Max(s)} \in SUBSET (1 .. k)
    <3>1. Max(s) \in s /\ \A y \in s : y <= Max(s)
      BY <2>1, <2>4, MaxIs
    <3>2. ASSUME NEW y \in s, y # Max(s) PROVE y \in 1 .. k
      <4>1. y \in 1 .. m /\ Max(s) \in 1 .. m /\ y <= Max(s)
        BY <3>1
      <4> QED
        BY <4>1, <3>2, <2>1
    <3> QED
      BY <3>2
  <2>5. \A s \in SUBSET (1 .. m) : result(g, s) = result(more, s)
    <3> SUFFICES ASSUME NEW s \in SUBSET (1 .. m) PROVE result(g, s) = result(more, s)
      OBVIOUS
    <3>1. CASE s = {}
      BY <3>1
    <3>2. CASE s # {}
      <4>1. more[s \ {Max(s)}] = g[s \ {Max(s)}]
        BY <2>3, <2>4, <3>2
      <4> HIDE DEF more
      <4> QED
        BY <4>1, <3>2
    <3> QED
      BY <3>1, <3>2
  <2>6. Is(more, m)
    <3> HIDE DEF result
    <3> QED
      BY <2>5
  <2>7. m \in good
    <3> HIDE DEF Is, more
    <3> QED
      BY <2>1, <2>6
  <2> QED
    BY <2>7 DEF m
<1>3. n \in good
  <2> HIDE DEF good
  <2>1. \A k \in Nat : k < n /\ k \in good => k + 1 \in good
    BY <1>2
  <2>2. \A k \in 0 .. n : k \in good
    BY <1>1, <2>1, Induction
  <2> QED
    BY <2>2
<1>4. PICK g : Is(g, n)
  BY <1>3
<1> QED
  BY <1>4 DEF Iterates

(* What taking the elements one after the other goes through: f[k] is what the *)
(* first k of them have led to.                                              *)
GoesThrough(kind, c, base, order, n, f) ==
  f[0] = base /\ \A k \in 1 .. n : f[k] = Step(kind, c, f[k - 1], order[k])

(* They lead to result.                                                       *)
Passes(kind, c, base, order, n, result) ==
  \E f : GoesThrough(kind, c, base, order, n, f) /\ result = f[n]

(* A fold goes through such steps to its result.                             *)
LEMMA FoldSteps ==
  ASSUME NEW kind, NEW c, NEW base, NEW n \in Nat, NEW order, DOMAIN order = 1 .. n,
         NEW iter, Iterates(kind, c, base, order, iter)
  PROVE  Passes(kind, c, base, order, n, iter[DOMAIN order])
<1> DEFINE f == [k \in 0 .. n |-> iter[1 .. k]]
<1>1. f[0] = base
  <2>1. 1 .. 0 = {} /\ {} \in SUBSET DOMAIN order
    OBVIOUS
  <2>2. iter[{}] = base
    BY <2>1 DEF Iterates
  <2> QED
    BY <2>1, <2>2
<1>2. ASSUME NEW k \in 1 .. n PROVE f[k] = Step(kind, c, f[k - 1], order[k])
  <2>1. 1 .. k # {} /\ 1 .. k \in SUBSET DOMAIN order
    <3>1. k \in 1 .. k /\ \A i \in 1 .. k : i \in 1 .. n
      OBVIOUS
    <3> QED
      BY <3>1
  <2>2. Max(1 .. k) = k
    <3>1. Max(1 .. k) \in 1 .. k /\ \A y \in 1 .. k : y <= Max(1 .. k)
      BY <2>1, MaxIs
    <3> QED
      BY <3>1
  <2>3. (1 .. k) \ {k} = 1 .. k - 1
    OBVIOUS
  <2>4. iter[1 .. k] = Step(kind, c, iter[(1 .. k) \ {Max(1 .. k)}], order[Max(1 .. k)])
    BY <2>1 DEF Iterates
  <2>5. iter[1 .. k] = Step(kind, c, iter[1 .. k - 1], order[k])
    BY <2>2, <2>3, <2>4
  <2>6. f[k] = iter[1 .. k] /\ f[k - 1] = iter[1 .. k - 1]
    <3>1. k \in 0 .. n /\ k - 1 \in 0 .. n
      OBVIOUS
    <3> QED
      BY <3>1
  <2> HIDE DEF f
  <2> QED
    BY <2>5, <2>6
<1>3. iter[DOMAIN order] = f[n]
  OBVIOUS
<1> HIDE DEF f
<1>4. GoesThrough(kind, c, base, order, n, f)
  BY <1>1, <1>2 DEF GoesThrough
<1> QED
  BY <1>3, <1>4, Zenon DEF Passes

(* A matching is the end of such a way.                                      *)
LEMMA MatchingSteps ==
  ASSUME NEW signals, NEW n \in Nat, NEW order, DOMAIN order = 1 .. n
  PROVE  \E f : GoesThrough("choose", signals, <<>>, order, n, f) /\ Matching(signals, order) = f[n]
<1> DEFINE iter == CHOOSE g : Iterates("choose", signals, <<>>, order, g)
<1>1. Matching(signals, order) = iter[DOMAIN order]
  BY DEF Matching, FoldLeft, MapThenFoldSet, Iterates, Step
<1>2. Iterates("choose", signals, <<>>, order, iter)
  <2>1. \E g : Iterates("choose", signals, <<>>, order, g)
    BY IterExists, Zenon
  <2> QED
    BY <2>1, Zenon
<1> HIDE DEF iter
<1>3. PICK f : GoesThrough("choose", signals, <<>>, order, n, f) /\ iter[DOMAIN order] = f[n]
  <2>1. Passes("choose", signals, <<>>, order, n, iter[DOMAIN order])
    BY <1>2, FoldSteps, Zenon
  <2> QED
    BY <2>1, Zenon DEF Passes
<1> QED
  BY <1>1, <1>3

-----------------------------------------------------------------------------
(* Putting a set into an order misses no element and repeats none.           *)
LEMMA Enumerates ==
  ASSUME NEW S, IsFiniteSet(S), NEW s \in SetToSeqs(S)
  PROVE  /\ Cardinality(S) \in Nat /\ s \in [1 .. Cardinality(S) -> S]
         /\ s \in Seq(S) /\ Len(s) = Cardinality(S)
         /\ \A i, j \in 1 .. Cardinality(S) : i # j => s[i] # s[j]
         /\ \A x \in S : \E j \in 1 .. Cardinality(S) : s[j] = x
<1> DEFINE n == Cardinality(S)
<1>1. n \in Nat
  BY FS_CardinalityType
<1>2. s \in [1 .. n -> S] /\ \A i, j \in 1 .. n : i # j => s[i] # s[j]
  BY DEF SetToSeqs
<1> HIDE DEF n
<1>3. s \in Seq(S) /\ Len(s) = n
  BY <1>1, <1>2, SeqDef, LenProperties
<1>4. s \in Injection(1 .. n, S)
  BY <1>2 DEF Injection, IsInjective
<1>5. s \in Surjection(1 .. n, S)
  BY <1>1, <1>4, FS_Injection, FS_Interval DEF n
<1> QED
  BY <1>1, <1>2, <1>3, <1>5 DEF Surjection, n
-----------------------------------------------------------------------------
(* What an event that chooses may take.                                      *)
Near(signals, match, i) ==
  {s \in signals \ {match[j] : j \in DOMAIN match} : Dist(s, active[i].center) < Window}

(* Distances are numbers.                                                    *)
LEMMA DistType ==
  ASSUME NEW a \in Int, NEW b \in Int
  PROVE  Dist(a, b) \in Nat
BY DEF Dist

(* The choice of a signal: one of those that are near, and none of them is     *)
(* nearer.                                                                  *)
LEMMA ChooseIs ==
  ASSUME NEW signals \in SUBSET Int, NEW match, NEW i, active[i].center \in Int
  PROVE  LET near == Near(signals, match, i)
             m    == Choose(signals, match, i)
             c    == active[i].center
         IN  /\ near = {} => m = match
             /\ near # {} =>
                  /\ m = [j \in DOMAIN match \cup {i} |-> IF j = i THEN m[i] ELSE match[j]]
                  /\ m[i] \in near /\ \A t \in near : Dist(m[i], c) <= Dist(t, c)
<1> DEFINE c    == active[i].center
           near == Near(signals, match, i)
           best == {s \in near : \A t \in near : Dist(s, c) <= Dist(t, c)}
           pick == CHOOSE s \in best : \A t \in best : s <= t
           more == [j \in DOMAIN match \cup {i} |-> IF j = i THEN pick ELSE match[j]]
<1>1. Choose(signals, match, i) = IF near = {} THEN match ELSE more
  BY DEF Choose, Near
<1>2. near \subseteq Int /\ c \in Int
  BY DEF Near
<1>3. ASSUME near # {} PROVE pick \in best
  <2> HIDE DEF near, c
  <2> DEFINE D == {Dist(s, c) : s \in near}
  <2>1. D \in SUBSET Nat /\ D # {}
    BY <1>2, <1>3, DistType
  <2> HIDE DEF D
  <2>2. PICK d \in D : \A k \in D : d <= k
    BY <2>1, Least
  <2> USE DEF D
  <2>3. d \in Nat /\ \A s \in best : s \in Int /\ Dist(s, c) <= d /\ d <= Dist(s, c) /\ Dist(s, c) \in Nat
    BY <2>1, <2>2, <1>2, DistType
  <2>4. PICK x \in near : d = Dist(x, c)
    BY <2>2
  <2>5. x \in best
    BY <2>2, <2>4
  <2> HIDE DEF best, D
  <2>6. \A s \in best : s = c - d \/ s = c + d
    BY <2>3, <1>2 DEF Dist
  <2>7. \E s \in best : \A t \in best : s <= t
    <3>1. c - d \in Int /\ c + d \in Int /\ c - d <= c + d
      BY <2>3, <1>2
    <3>2. CASE c - d \in best
      BY <2>6, <3>1, <3>2
    <3>3. CASE c - d \notin best
      BY <2>5, <2>6, <3>1, <3>3
    <3> QED
      BY <3>2, <3>3
  <2> QED
    BY <2>7
<1>4. near # {} => pick \in near /\ \A t \in near : Dist(pick, c) <= Dist(t, c)
  BY <1>3
<1>5. more[i] = pick
  OBVIOUS
<1>6. near # {} => Choose(signals, match, i) = more
  BY <1>1
<1> HIDE DEF near, best, pick, c
<1>7. near # {} =>
        LET m == Choose(signals, match, i)
        IN  /\ m = [j \in DOMAIN match \cup {i} |-> IF j = i THEN m[i] ELSE match[j]]
            /\ m[i] = pick
  BY <1>5, <1>6
<1>8. near = {} => Choose(signals, match, i) = match
  BY <1>1
<1> QED
  BY <1>4, <1>7, <1>8 DEF near, c

(* What the first k events of an order have chosen: each a signal of its own   *)
(* in its window; and a signal in an event's window is at least as far from it *)
(* as the one it has, or an event before it took it.                         *)
ChosenUpTo(signals, order, k, match) ==
  /\ DOMAIN match \subseteq {order[a] : a \in 1 .. k}
  /\ \A i \in DOMAIN match : match[i] \in signals /\ Dist(match[i], active[i].center) < Window
  /\ \A i, j \in DOMAIN match : match[i] = match[j] => i = j
  /\ \A a \in 1 .. k, s \in signals :
       Dist(s, active[order[a]].center) < Window =>
         \/ /\ order[a] \in DOMAIN match
            /\ Dist(match[order[a]], active[order[a]].center) <= Dist(s, active[order[a]].center)
         \/ \E b \in 1 .. k : b < a /\ order[b] \in DOMAIN match /\ match[order[b]] = s

(* One more event chooses.                                                   *)
LEMMA ChosenNext ==
  ASSUME NEW signals \in SUBSET Int, NEW n \in Nat, NEW order, NEW k \in 1 .. n, NEW match,
         \A a \in 1 .. n : active[order[a]].center \in Int,
         \A a, b \in 1 .. n : a # b => order[a] # order[b],
         ChosenUpTo(signals, order, k - 1, match)
  PROVE  ChosenUpTo(signals, order, k, Choose(signals, match, order[k]))
<1> DEFINE i    == order[k]
           near == Near(signals, match, i)
           m    == Choose(signals, match, i)
           D(s, a) == Dist(s, active[order[a]].center)
<1>1. /\ near = {} => m = match
      /\ near # {} =>
           /\ m = [j \in DOMAIN match \cup {i} |-> IF j = i THEN m[i] ELSE match[j]]
           /\ m[i] \in near /\ \A t \in near : Dist(m[i], active[i].center) <= Dist(t, active[i].center)
  BY ChooseIs
<1>2. k \in Nat /\ k - 1 \in Nat /\ 1 .. (k - 1) \subseteq 1 .. k /\ 1 .. k = 1 .. (k - 1) \cup {k}
  OBVIOUS
<1>3. \A j \in DOMAIN match : \E a \in 1 .. (k - 1) : j = order[a]
  BY DEF ChosenUpTo
<1>4. i \notin DOMAIN match
  BY <1>2, <1>3
<1>5. \A s \in near : s \in signals /\ Dist(s, active[i].center) < Window /\ \A j \in DOMAIN match : match[j] # s
  BY DEF Near
<1>6. \A s \in signals : Dist(s, active[i].center) < Window =>
        s \in near \/ \E j \in DOMAIN match : match[j] = s
  BY DEF Near
<1> HIDE DEF near, m
<1>7. CASE near = {}
  <2>1. m = match
    BY <1>1, <1>7
  <2>2. \A s \in signals : D(s, k) < Window =>
          \E b \in 1 .. k : b < k /\ order[b] \in DOMAIN match /\ match[order[b]] = s
    BY <1>2, <1>3, <1>6, <1>7
  <2>3. ChosenUpTo(signals, order, k, match)
    BY <1>2, <2>2 DEF ChosenUpTo
  <2> QED
    BY <2>1, <2>3 DEF m
<1>8. CASE near # {}
  <2>1. /\ DOMAIN m = DOMAIN match \cup {i}
        /\ \A j \in DOMAIN match : m[j] = match[j]
        /\ m[i] \in near /\ \A t \in near : Dist(m[i], active[i].center) <= Dist(t, active[i].center)
    BY <1>1, <1>4, <1>8
  <2>2. DOMAIN m \subseteq {order[a] : a \in 1 .. k}
    BY <1>2, <1>3, <2>1
  <2>3. \A j \in DOMAIN m : m[j] \in signals /\ Dist(m[j], active[j].center) < Window
    BY <1>5, <2>1 DEF ChosenUpTo
  <2>4. \A j, l \in DOMAIN m : m[j] = m[l] => j = l
    BY <1>5, <2>1 DEF ChosenUpTo
  <2>5. ASSUME NEW a \in 1 .. k, NEW s \in signals, D(s, a) < Window
        PROVE  \/ order[a] \in DOMAIN m /\ D(m[order[a]], a) <= D(s, a)
               \/ \E b \in 1 .. k : b < a /\ order[b] \in DOMAIN m /\ m[order[b]] = s
    <3>1. CASE a = k
      <4>1. CASE s \in near
        BY <2>1, <3>1, <4>1
      <4>2. CASE s \notin near
        <5>1. PICK j \in DOMAIN match : match[j] = s
          BY <1>6, <2>5, <3>1, <4>2
        <5>2. PICK b \in 1 .. (k - 1) : j = order[b]
          BY <1>3
        <5> QED
          BY <1>2, <2>1, <3>1, <5>1, <5>2
      <4> QED
        BY <4>1, <4>2
    <3>2. CASE a # k
      <4>1. a \in 1 .. (k - 1)
        BY <1>2, <3>2
      <4>2. \/ order[a] \in DOMAIN match /\ D(match[order[a]], a) <= D(s, a)
            \/ \E b \in 1 .. (k - 1) : b < a /\ order[b] \in DOMAIN match /\ match[order[b]] = s
        BY <2>5, <4>1 DEF ChosenUpTo
      <4> QED
        BY <1>2, <2>1, <4>2
    <3> QED
      BY <3>1, <3>2
  <2>6. ChosenUpTo(signals, order, k, m)
    BY <2>2, <2>3, <2>4, <2>5 DEF ChosenUpTo
  <2> QED
    BY <2>6 DEF m
<1> QED
  BY <1>7, <1>8

(* The parts of an event.                                                    *)
LEMMA EventParts ==
  ASSUME TypeOK, NEW i \in DOMAIN active
  PROVE  /\ i \in Nat /\ i \in IDs /\ i < nextID
         /\ active[i].center \in Freqs /\ active[i].center \in Int
         /\ active[i].hits \in 1 .. MaxHits /\ active[i].away \in Nat
         /\ active[i].long \in 0 .. MaxHits
<1>1. active[i] \in Event /\ i \in IDs /\ i < nextID
  BY DEF TypeOK
<1>2. Freqs \subseteq Int
  BY TrackerAssumption
<1>3. /\ active[i].center \in Freqs /\ active[i].hits \in 1 .. MaxHits
      /\ active[i].away \in Nat /\ active[i].long \in 0 .. MaxHits
  BY <1>1 DEF Event
<1>4. i \in Nat
  BY <1>1 DEF IDs
<1> QED
  BY <1>1, <1>2, <1>3, <1>4

(* What holds of a matching: it gives events of the last frame a signal each  *)
(* in their windows, and a signal in an event's window is no nearer to it than *)
(* the one it has, or went to an event that is at least as mature.            *)
Matched(signals, match) ==
  /\ DOMAIN match \subseteq DOMAIN active
  /\ \A i \in DOMAIN match : match[i] \in signals
  /\ \A i, j \in DOMAIN match : match[i] = match[j] => i = j
  /\ \A i \in DOMAIN active, s \in signals :
       Dist(s, active[i].center) < Window =>
         \/ i \in DOMAIN match /\ Dist(match[i], active[i].center) <= Dist(s, active[i].center)
         \/ \E j \in DOMAIN match : match[j] = s /\ active[j].hits >= active[i].hits

LEMMA MatchingsMatch ==
  ASSUME TypeOK, NEW signals \in SUBSET Freqs, NEW match \in Matchings(signals)
  PROVE  Matched(signals, match)
<1> DEFINE S == DOMAIN active
           n == Cardinality(S)
<1>1. PICK order \in Orders : match = Matching(signals, order)
  BY DEF Matchings
<1>2. IsFiniteSet(S) /\ \A i \in S : active[i].center \in Int
  <2>1. MaxID \in Int /\ 1 \in Int
    BY TrackerAssumption
  <2>2. IsFiniteSet(1 .. MaxID)
    BY <2>1, FS_Interval
  <2>3. S \in SUBSET (1 .. MaxID)
    BY DEF TypeOK, IDs
  <2> HIDE DEF S
  <2>4. IsFiniteSet(S)
    BY <2>2, <2>3, FS_Subset
  <2> USE DEF S
  <2> QED
    BY <2>4, EventParts
<1>3. order \in SetToSeqs(S)
  BY DEF Orders
<1> HIDE DEF S
<1>4. /\ n \in Nat /\ order \in [1 .. n -> S] /\ Len(order) = n
      /\ \A a, b \in 1 .. n : a # b => order[a] # order[b]
      /\ \A i \in S : \E a \in 1 .. n : order[a] = i
  BY <1>2, <1>3, Enumerates
<1>5. \A a, b \in 1 .. n : a < b => active[order[a]].hits >= active[order[b]].hits
  BY <1>4 DEF Orders
<1> HIDE DEF n
<1>6. PICK f : GoesThrough("choose", signals, <<>>, order, n, f) /\ Matching(signals, order) = f[n]
  BY <1>4, MatchingSteps
<1> DEFINE good == {k \in Nat : ChosenUpTo(signals, order, k, f[k])}
<1>7. 0 \in good
  <2>1. 1 .. 0 = {} /\ f[0] = <<>> /\ DOMAIN f[0] = {}
    BY <1>6 DEF GoesThrough
  <2>2. ChosenUpTo(signals, order, 0, f[0])
    BY <2>1 DEF ChosenUpTo
  <2> QED
    BY <2>2
<1>8. \A k \in Nat : k < n /\ k \in good => k + 1 \in good
  <2> SUFFICES ASSUME NEW k \in Nat, k < n, k \in good PROVE k + 1 \in good
    OBVIOUS
  <2> DEFINE l == k + 1
  <2>1. l \in 1 .. n /\ l \in Nat /\ l - 1 = k
    BY <1>4
  <2> HIDE DEF l
  <2>2. f[l] = Choose(signals, f[l - 1], order[l])
    BY <1>6, <2>1 DEF GoesThrough, Step
  <2>3. ChosenUpTo(signals, order, l - 1, f[l - 1])
    BY <2>1
  <2>4. signals \in SUBSET Int /\ \A a \in 1 .. n : active[order[a]].center \in Int
    BY <1>2, <1>4, TrackerAssumption
  <2> DEFINE before == f[l - 1]
  <2> HIDE DEF before
  <2>5. ChosenUpTo(signals, order, l, Choose(signals, before, order[l]))
    BY <1>4, <2>1, <2>3, <2>4, ChosenNext DEF before
  <2>55. ChosenUpTo(signals, order, l, f[l])
    BY <2>2, <2>5 DEF before
  <2>6. l \in good
    BY <2>1, <2>55
  <2> QED
    BY <2>6 DEF l
<1>9. ChosenUpTo(signals, order, n, match)
  <2> HIDE DEF good
  <2>1. n \in good
    BY <1>4, <1>7, <1>8, Induction
  <2> QED
    BY <2>1, <1>1, <1>6 DEF good, GoesThrough
<1>10. DOMAIN match \subseteq S
  BY <1>4, <1>9 DEF ChosenUpTo
<1>11. ASSUME NEW i \in S, NEW s \in signals, Dist(s, active[i].center) < Window
       PROVE  \/ i \in DOMAIN match /\ Dist(match[i], active[i].center) <= Dist(s, active[i].center)
              \/ \E j \in DOMAIN match : match[j] = s /\ active[j].hits >= active[i].hits
  <2>1. PICK a \in 1 .. n : order[a] = i
    BY <1>4
  <2>2. \/ i \in DOMAIN match /\ Dist(match[i], active[i].center) <= Dist(s, active[i].center)
        \/ \E b \in 1 .. n : b < a /\ order[b] \in DOMAIN match /\ match[order[b]] = s
    BY <1>9, <1>11, <2>1 DEF ChosenUpTo
  <2> QED
    BY <1>5, <2>1, <2>2
<1> QED
  BY <1>9, <1>10, <1>11 DEF Matched, ChosenUpTo, S

(* New ids differ, and come after all that were given before.                *)
LEMMA NewIds ==
  ASSUME NEW free \in SUBSET Int, IsFiniteSet(free), nextID \in Nat
  PROVE  /\ Cardinality(free) \in Nat
         /\ \A s \in free : /\ IdOf(free, s) \in Nat
                            /\ nextID <= IdOf(free, s)
                            /\ IdOf(free, s) < nextID + Cardinality(free)
         /\ \A s, t \in free : IdOf(free, s) = IdOf(free, t) => s = t
<1> DEFINE below(s) == {t \in free : t < s}
<1>1. Cardinality(free) \in Nat
  BY FS_CardinalityType
<1>2. ASSUME NEW s \in free
      PROVE  /\ IsFiniteSet(below(s)) /\ Cardinality(below(s)) \in Nat
             /\ Cardinality(below(s)) < Cardinality(free)
  <2>1. below(s) \in SUBSET free /\ below(s) # free
    OBVIOUS
  <2> HIDE DEF below
  <2>2. IsFiniteSet(below(s)) /\ Cardinality(below(s)) <= Cardinality(free)
        /\ Cardinality(below(s)) # Cardinality(free)
    BY <2>1, FS_Subset
  <2>3. Cardinality(below(s)) \in Nat
    BY <2>2, FS_CardinalityType
  <2> QED
    BY <1>1, <2>2, <2>3
<1>3. ASSUME NEW s \in free, NEW t \in free, s < t
      PROVE  Cardinality(below(s)) # Cardinality(below(t))
  <2>0. \A u \in free : u < s => u < t
    BY <1>3
  <2>1. below(s) \in SUBSET below(t)
    BY <2>0
  <2>3. s \in below(t) /\ s \notin below(s)
    BY <1>3
  <2>2. IsFiniteSet(below(t))
    BY <1>2
  <2> HIDE DEF below
  <2> QED
    BY <2>1, <2>2, <2>3, FS_Subset
<1>4. \A s \in free : IdOf(free, s) = nextID + Cardinality(below(s))
  BY DEF IdOf
<1> HIDE DEF below
<1>5. ASSUME NEW s \in free, NEW t \in free, s # t PROVE IdOf(free, s) # IdOf(free, t)
  <2>1. s \in Int /\ t \in Int /\ (s < t \/ t < s)
    BY <1>5
  <2>2. Cardinality(below(s)) # Cardinality(below(t))
    BY <1>3, <2>1
  <2> QED
    BY <1>2, <1>4, <2>2
<1> QED
  BY <1>1, <1>2, <1>4, <1>5
-----------------------------------------------------------------------------
(* A frame, as far as the properties are concerned: kept and ended are the     *)
(* events without a signal that go on and that are reported.                 *)
FrameWith(signals, match, free, kept, ended) ==
  LET lost == DOMAIN active \ DOMAIN match
  IN  /\ signals \in SUBSET Freqs /\ Matched(signals, match)
      /\ free = signals \ {match[i] : i \in DOMAIN match}
      /\ kept = {i \in lost : ~Overdue(Missed(active[i]))}
      /\ ended = {i \in lost : Overdue(Missed(active[i])) /\ Notable(Missed(active[i]))}
      /\ nextID' = nextID + Cardinality(free) /\ nextID' <= MaxID + 1
      /\ DOMAIN tagged' = signals
      /\ \A s \in free : tagged'[s] = IdOf(free, s)
      /\ \A i \in DOMAIN match : tagged'[match[i]] = i
      /\ finished' = [i \in IDs |-> IF i \in ended THEN finished[i] + 1 ELSE finished[i]]
      /\ DOMAIN active' = DOMAIN match \cup {IdOf(free, s) : s \in free} \cup kept
      /\ \A i \in DOMAIN match : \E c \in Freqs : active'[i] = Moved(active[i], match[i], c)
      /\ \A s \in free : active'[IdOf(free, s)] = Opened(s)
      /\ \A i \in kept : active'[i] = Missed(active[i])

(* The signals without an event are finitely many, and their ids are new.     *)
LEMMA FreeIds ==
  ASSUME TypeOK, NEW free \in SUBSET Freqs
  PROVE  /\ nextID \in Nat /\ Cardinality(free) \in Nat
         /\ \A s \in free : /\ IdOf(free, s) \in Nat
                            /\ nextID <= IdOf(free, s)
                            /\ IdOf(free, s) < nextID + Cardinality(free)
                            /\ IdOf(free, s) \notin DOMAIN active
         /\ \A s, t \in free : IdOf(free, s) = IdOf(free, t) => s = t
<1>1. Freqs \subseteq Int /\ IsFiniteSet(Freqs)
  BY TrackerAssumption
<1>2. IsFiniteSet(free) /\ free \in SUBSET Int
  BY <1>1, FS_Subset
<1>3. nextID \in Nat
  BY DEF TypeOK
<1>4. \A i \in DOMAIN active : i \in Nat /\ i < nextID
  BY <1>3, EventParts
<1> QED
  BY <1>2, <1>3, <1>4, NewIds

(* Every frame is one of these.                                              *)
LEMMA FrameIs ==
  ASSUME TypeOK, Frame
  PROVE  \E signals, match, free, kept, ended : FrameWith(signals, match, free, kept, ended)
<1>0. PICK signals \in SUBSET Freqs : \E match \in Matchings(signals) : Follow(signals, match)
  BY DEF Frame
<1>1. PICK match \in Matchings(signals) : Follow(signals, match)
  BY <1>0
<1> DEFINE matched == DOMAIN match
           free    == signals \ {match[i] : i \in matched}
           new     == {IdOf(free, s) : s \in free}
           missed  == [i \in DOMAIN active \ matched |-> Missed(active[i])]
           kept    == {i \in DOMAIN missed : ~Overdue(missed[i])}
           ended   == {i \in DOMAIN missed : Overdue(missed[i]) /\ Notable(missed[i])}
           lost    == DOMAIN active \ DOMAIN match
           reported == {i \in lost : Overdue(Missed(active[i])) /\ Notable(Missed(active[i]))}
<1>2. PICK c \in Centers(match) :
        active' = [i \in matched \cup new \cup kept |->
                     IF i \in matched THEN Moved(active[i], match[i], c[i])
                     ELSE IF i \in new
                     THEN Opened(CHOOSE s \in free : IdOf(free, s) = i)
                     ELSE missed[i]]
  BY <1>1 DEF Follow
<1>3. Matched(signals, match)
  BY MatchingsMatch
<1>4. /\ DOMAIN missed = lost
      /\ \A i \in lost : missed[i] = Missed(active[i])
      /\ kept = {i \in lost : ~Overdue(Missed(active[i]))}
      /\ ended = reported
  OBVIOUS
<1>5. /\ nextID' = nextID + Cardinality(free) /\ nextID' <= MaxID + 1
      /\ DOMAIN tagged' = signals
      /\ \A s \in free : tagged'[s] = IdOf(free, s)
      /\ \A s \in signals \ free : tagged'[s] = CHOOSE i \in matched : match[i] = s
      /\ finished' = [i \in IDs |-> IF i \in ended THEN finished[i] + 1 ELSE finished[i]]
  BY <1>1 DEF Follow
<1>6. free \in SUBSET Freqs
  OBVIOUS
<1>7. matched \subseteq DOMAIN active /\ kept \subseteq lost
  BY <1>3, <1>4 DEF Matched
<1>8. \A i \in matched : tagged'[match[i]] = i
  <2> SUFFICES ASSUME NEW i \in matched PROVE tagged'[match[i]] = i
    OBVIOUS
  <2>1. match[i] \in signals \ free
    BY <1>3 DEF Matched
  <2>2. \A j \in matched : match[j] = match[i] => j = i
    BY <1>3 DEF Matched
  <2>3. (CHOOSE j \in matched : match[j] = match[i]) = i
    BY <2>2
  <2> QED
    BY <1>5, <2>1, <2>3
<1>9. \A s \in free : IdOf(free, s) \notin DOMAIN active /\ IdOf(free, s) \in new
  BY <1>6, FreeIds
<1>10. \A s, t \in free : IdOf(free, s) = IdOf(free, t) => s = t
  BY <1>6, FreeIds
<1> HIDE DEF free
<1>11. \A s \in free : (CHOOSE t \in free : IdOf(free, t) = IdOf(free, s)) = s
  BY <1>10
<1>12. \A i \in matched : c[i] \in Freqs
  BY DEF Centers
<1>13. \A i \in new : i \notin DOMAIN active
  BY <1>9
<1>15. /\ \A i \in matched \cup new \cup kept : i \in DOMAIN active'
       /\ DOMAIN active' = matched \cup new \cup kept
       /\ \A i \in matched : active'[i] = Moved(active[i], match[i], c[i])
       /\ \A i \in new : i \notin matched => active'[i] = Opened(CHOOSE s \in free : IdOf(free, s) = i)
       /\ \A i \in kept : i \notin matched /\ i \notin new => active'[i] = missed[i]
  <2> HIDE DEF matched, new, kept, missed
  <2> QED
    BY <1>2
<1> HIDE DEF missed, kept, ended, new
<1>16. \A s \in free : active'[IdOf(free, s)] = Opened(s)
  <2> SUFFICES ASSUME NEW s \in free PROVE active'[IdOf(free, s)] = Opened(s)
    OBVIOUS
  <2>1. IdOf(free, s) \in new /\ IdOf(free, s) \notin matched
    BY <1>7, <1>9
  <2>2. active'[IdOf(free, s)] = Opened(CHOOSE t \in free : IdOf(free, t) = IdOf(free, s))
    BY <1>15, <2>1
  <2> QED
    BY <1>11, <2>2
<1>17. \A i \in kept : active'[i] = Missed(active[i])
  BY <1>4, <1>7, <1>13, <1>15
<1>18. FrameWith(signals, match, free, kept, ended)
  BY <1>3, <1>4, <1>5, <1>8, <1>12, <1>15, <1>16, <1>17 DEF FrameWith, free, new
<1> QED
  BY <1>18
-----------------------------------------------------------------------------
(* The invariant is kept.                                                    *)
LEMMA FrameKeeps ==
  ASSUME TrackerInv, Frame
  PROVE  TrackerInv'
<1>1. TypeOK
  BY DEF TrackerInv
<1>2. PICK signals, match, free, kept, ended : FrameWith(signals, match, free, kept, ended)
  BY <1>1, FrameIs
<1> DEFINE lost == DOMAIN active \ DOMAIN match
           new  == {IdOf(free, s) : s \in free}
<1>3. /\ MaxHits \in Nat /\ 1 <= MaxHits /\ MaxID \in Nat /\ Freqs \subseteq Int
      /\ MinDuration \in Nat /\ MinStableFrames \in Nat \ {0}
  BY TrackerAssumption
<1>4. free \in SUBSET Freqs
  BY <1>2 DEF FrameWith
<1>5. /\ nextID \in Nat /\ Cardinality(free) \in Nat /\ nextID' = nextID + Cardinality(free)
      /\ nextID' <= MaxID + 1 /\ 1 <= nextID /\ nextID \in 1 .. MaxID + 1
  BY <1>1, <1>2, <1>4, FreeIds DEF FrameWith, TypeOK
<1>6. /\ DOMAIN match \subseteq DOMAIN active /\ kept \subseteq lost /\ ended \subseteq lost
      /\ kept \cap ended = {}
  BY <1>2 DEF FrameWith, Matched
<1>7. /\ DOMAIN active' = DOMAIN match \cup new \cup kept
      /\ \A i \in DOMAIN match : \E c \in Freqs : active'[i] = Moved(active[i], match[i], c)
      /\ \A s \in free : active'[IdOf(free, s)] = Opened(s)
      /\ \A i \in kept : active'[i] = Missed(active[i])
  BY <1>2 DEF FrameWith
<1>8. \A i \in new : i \in Nat /\ nextID <= i /\ i < nextID'
  BY <1>1, <1>4, <1>5, FreeIds
<1>9. \A i \in DOMAIN active : i \in Nat /\ 1 <= i /\ i < nextID
  <2>1. \A i \in DOMAIN active : i \in IDs
    BY <1>1, EventParts
  <2> QED
    BY <1>1, <2>1, EventParts DEF IDs
<1>10. ASSUME NEW e, NEW s, NEW c \in Freqs,
              e.hits \in 1 .. MaxHits, e.away \in Nat, e.long \in 0 .. MaxHits
       PROVE  Moved(e, s, c) \in Event
  <2>1. Capped(e.hits + 1) \in 1 .. MaxHits
    BY <1>3, <1>10 DEF Capped
  <2>2. Capped(e.long + e.away + 1) \in 0 .. MaxHits
    BY <1>3, <1>10 DEF Capped
  <2> QED
    BY <2>1, <2>2 DEF Moved, Event
<1>11. ASSUME NEW s \in Freqs PROVE Opened(s) \in Event
  BY <1>3 DEF Opened, Event
<1>12. ASSUME NEW e \in Event PROVE Missed(e) \in Event
  BY DEF Missed, Event
<1>13. \A i \in DOMAIN active' : active'[i] \in Event
  <2> SUFFICES ASSUME NEW i \in DOMAIN active' PROVE active'[i] \in Event
    OBVIOUS
  <2>1. CASE i \in DOMAIN match
    <3>1. PICK c \in Freqs : active'[i] = Moved(active[i], match[i], c)
      BY <1>7, <2>1
    <3>2. i \in DOMAIN active
      BY <1>6, <2>1
    <3> QED
      BY <1>1, <1>10, <3>1, <3>2, EventParts
  <2>2. CASE i \in new
    BY <1>4, <1>7, <1>11, <2>2
  <2>3. CASE i \in kept
    <3>1. i \in DOMAIN active /\ active[i] \in Event
      BY <1>1, <1>6, <2>3 DEF TypeOK
    <3> QED
      BY <1>7, <1>12, <2>3, <3>1
  <2> QED
    BY <1>7, <2>1, <2>2, <2>3
<1>14. \A i \in DOMAIN active' : i \in Nat /\ 1 <= i /\ i < nextID'
  BY <1>5, <1>6, <1>7, <1>8, <1>9
<1>15. TypeOK'
  <2>1. DOMAIN active' \subseteq IDs
    BY <1>3, <1>5, <1>14 DEF IDs
  <2>2. nextID' \in 1 .. MaxID + 1
    BY <1>3, <1>5
  <2>3. DOMAIN tagged' \subseteq Freqs
    BY <1>2 DEF FrameWith
  <2> QED
    BY <1>13, <1>14, <2>1, <2>2, <2>3 DEF TypeOK
<1>16. finished' = [i \in IDs |-> IF i \in ended THEN finished[i] + 1 ELSE finished[i]]
  BY <1>2 DEF FrameWith
<1>17. /\ finished \in [IDs -> {0, 1}]
       /\ \A i \in IDs : finished[i] = 1 => i < nextID /\ i \notin DOMAIN active
  BY DEF TrackerInv, Reported
<1>18. \A i \in IDs : i \in Nat
  BY DEF IDs
<1>19. \A i \in ended : i \in DOMAIN active /\ i \notin DOMAIN active'
  BY <1>5, <1>6, <1>7, <1>8, <1>9
<1>20. Reported'
  <2>1. finished' \in [IDs -> {0, 1}]
    BY <1>16, <1>17, <1>19
  <2>2. ASSUME NEW i \in IDs, finished'[i] = 1 PROVE i < nextID' /\ i \notin DOMAIN active'
    <3>1. CASE i \in ended
      BY <1>5, <1>9, <1>19, <3>1
    <3>2. CASE i \notin ended
      <4>1. finished[i] = 1
        BY <1>16, <2>2, <3>2
      <4>2. i < nextID /\ i \notin DOMAIN active
        BY <1>17, <4>1
      <4> QED
        BY <1>5, <1>6, <1>7, <1>8, <1>18, <4>2
    <3> QED
      BY <3>1, <3>2
  <2> QED
    BY <2>1, <2>2 DEF Reported, IDs
<1> QED
  BY <1>15, <1>20 DEF TrackerInv

(* Maturity grows with the frames in which the event was seen.                *)
LEMMA MaturityGrows ==
  ASSUME NEW a \in 1 .. MaxHits, NEW b \in 1 .. MaxHits, a <= b
  PROVE  Maturity[a] \in Int /\ Maturity[b] \in Int /\ Maturity[a] <= Maturity[b]
<1>1. /\ MaxHits \in Nat /\ \A h \in 1 .. MaxHits : Maturity[h] \in Int
      /\ \A h \in 1 .. MaxHits - 1 : Maturity[h] <= Maturity[h + 1]
  <2>1. MaxHits \in Nat
    BY TrackerAssumption
  <2>2. Maturity \in [1 .. MaxHits -> Nat \ {0}]
    BY TrackerAssumption, Zenon
  <2>3. \A h \in 1 .. MaxHits : Maturity[h] \in Int
    BY <2>2
  <2>4. \A h \in 1 .. MaxHits - 1 : Maturity[h] <= Maturity[h + 1]
    BY TrackerAssumption, Zenon
  <2> QED
    BY ONLY <2>1, <2>3, <2>4, Zenon
<1> DEFINE n == b - a
           good == {k \in Nat : a + k <= b => Maturity[a] <= Maturity[a + k]}
<1>2. a \in Nat /\ b \in Nat /\ n \in Nat /\ a + n = b /\ 1 <= a /\ b <= MaxHits
  BY <1>1
<1>3. 0 \in good
  <2>1. a + 0 = a
    BY <1>2
  <2> QED
    BY <1>1, <2>1
<1>4. \A k \in Nat : k < n /\ k \in good => k + 1 \in good
  <2> SUFFICES ASSUME NEW k \in Nat, k < n, k \in good PROVE k + 1 \in good
    OBVIOUS
  <2> DEFINE h == a + k
  <2>1. h \in 1 .. MaxHits - 1 /\ h \in 1 .. MaxHits /\ h + 1 \in 1 .. MaxHits /\ a + (k + 1) = h + 1 /\ h <= b
    BY <1>1, <1>2
  <2>2. Maturity[a] <= Maturity[h]
    BY <2>1
  <2> HIDE DEF h
  <2>3. Maturity[h] <= Maturity[h + 1] /\ Maturity[h] \in Int /\ Maturity[h + 1] \in Int /\ Maturity[a] \in Int
    BY <1>1, <2>1
  <2>4. Maturity[a] <= Maturity[a + (k + 1)]
    BY <2>1, <2>2, <2>3
  <2> QED
    BY <2>4
<1>5. n \in good
  <2> HIDE DEF good, n
  <2>1. n \in 0 .. n
    BY <1>2
  <2> QED
    BY <1>2, <1>3, <1>4, <2>1, Induction
<1> QED
  BY <1>1, <1>2, <1>5

(* A signal goes to another event only if that one is as mature, or its own    *)
(* event has a signal as near.                                              *)
LEMMA StealsNothing == TrackerInv /\ Frame => NotStolen
<1> SUFFICES ASSUME TrackerInv, Frame PROVE NotStolen
  OBVIOUS
<1>1. PICK signals, match, free, kept, ended : FrameWith(signals, match, free, kept, ended)
  BY FrameIs DEF TrackerInv
<1>2. /\ DOMAIN tagged' = signals /\ Matched(signals, match)
      /\ \A i \in DOMAIN match : tagged'[match[i]] = i
  BY <1>1 DEF FrameWith
<1>3. ASSUME NEW i \in DOMAIN active, NEW s \in DOMAIN tagged',
             Dist(s, active[i].center) < Window
      PROVE  \/ tagged'[s] \in DOMAIN active /\ active[tagged'[s]].hits >= active[i].hits
             \/ \E t \in DOMAIN tagged' : tagged'[t] = i /\ Dist(t, active[i].center) <= Dist(s, active[i].center)
  <2>1. CASE i \in DOMAIN match /\ Dist(match[i], active[i].center) <= Dist(s, active[i].center)
    <3>1. match[i] \in signals
      BY <1>2, <2>1 DEF Matched
    <3> QED
      BY <1>2, <2>1, <3>1
  <2>2. CASE \E j \in DOMAIN match : match[j] = s /\ active[j].hits >= active[i].hits
    BY <1>2, <2>2 DEF Matched
  <2> QED
    BY <1>2, <1>3, <2>1, <2>2 DEF Matched
<1> QED
  BY <1>3 DEF NotStolen

(* The signals of a frame carry different ids, which are those of the events   *)
(* seen in it.                                                              *)
LEMMA TagsAreIds ==
  ASSUME TypeOK, Frame
  PROVE  /\ \A s, t \in DOMAIN tagged' : tagged'[s] = tagged'[t] => s = t
         /\ {tagged'[s] : s \in DOMAIN tagged'} = {i \in DOMAIN active' : active'[i].away = 0}
         /\ \A i \in DOMAIN active' \ DOMAIN active : i >= nextID
<1>1. PICK signals, match, free, kept, ended : FrameWith(signals, match, free, kept, ended)
  BY FrameIs
<1>2. /\ free = signals \ {match[i] : i \in DOMAIN match} /\ free \in SUBSET Freqs
      /\ DOMAIN tagged' = signals
  BY <1>1 DEF FrameWith
<1>3. /\ \A s \in free : tagged'[s] = IdOf(free, s)
      /\ \A i \in DOMAIN match : tagged'[match[i]] = i
  BY <1>1 DEF FrameWith
<1>4. DOMAIN active' = DOMAIN match \cup {IdOf(free, s) : s \in free} \cup kept
  BY <1>1 DEF FrameWith
<1>5. /\ DOMAIN match \subseteq DOMAIN active /\ kept \subseteq DOMAIN active
      /\ \A i \in DOMAIN match : match[i] \in signals
  BY <1>1 DEF FrameWith, Matched
<1>6. \A s \in free : /\ IdOf(free, s) \notin DOMAIN active
                     /\ nextID <= IdOf(free, s) /\ IdOf(free, s) \in Nat
  BY <1>2, FreeIds
<1>7. \A s, t \in free : IdOf(free, s) = IdOf(free, t) => s = t
  BY <1>2, FreeIds
<1>8. \A s \in signals : s \in free \/ \E i \in DOMAIN match : s = match[i]
  BY <1>2
<1>9. \A s, t \in signals : tagged'[s] = tagged'[t] => s = t
  BY <1>2, <1>3, <1>5, <1>6, <1>7, <1>8
<1>10. ASSUME NEW i \in DOMAIN match PROVE active'[i].away = 0
  <2>1. PICK c \in Freqs : active'[i] = Moved(active[i], match[i], c)
    BY <1>1 DEF FrameWith
  <2> QED
    BY <2>1 DEF Moved
<1>11. ASSUME NEW s \in free PROVE active'[IdOf(free, s)].away = 0
  <2>1. active'[IdOf(free, s)] = Opened(s)
    BY <1>1 DEF FrameWith
  <2> QED
    BY <2>1 DEF Opened
<1>12. ASSUME NEW i \in kept PROVE active'[i].away # 0
  <2>1. active[i] \in Event /\ active[i].away \in Nat
    BY <1>5, EventParts DEF TypeOK
  <2>2. Missed(active[i]).away = active[i].away + 1
    BY <2>1 DEF Missed, Event
  <2>3. active'[i] = Missed(active[i])
    BY <1>1 DEF FrameWith
  <2> QED
    BY <2>1, <2>2, <2>3
<1>13. ASSUME NEW s \in signals PROVE tagged'[s] \in DOMAIN active' /\ active'[tagged'[s]].away = 0
  <2>1. CASE s \in free
    BY <1>3, <1>4, <1>11, <2>1
  <2>2. CASE \E i \in DOMAIN match : s = match[i]
    BY <1>3, <1>4, <1>10, <2>2
  <2> QED
    BY <1>8, <2>1, <2>2
<1>14. ASSUME NEW i \in DOMAIN active', active'[i].away = 0 PROVE \E s \in signals : tagged'[s] = i
  <2>1. i \notin kept
    BY <1>12, <1>14
  <2>2. free \subseteq signals
    BY <1>2
  <2> QED
    BY <1>3, <1>4, <1>5, <2>1, <2>2
<1>15. \A i \in DOMAIN active' \ DOMAIN active : i >= nextID
  <2>1. nextID \in Nat
    BY <1>2, FreeIds
  <2>2. \A s \in free : IdOf(free, s) >= nextID
    BY <1>6, <2>1
  <2>3. \A i \in DOMAIN active' : i \notin DOMAIN active => \E s \in free : i = IdOf(free, s)
    BY <1>4, <1>5
  <2> QED
    BY <2>2, <2>3
<1> QED
  BY <1>2, <1>9, <1>13, <1>14, <1>15

(* An event that goes was away for long enough, and is reported if it lasted.  *)
LEMMA EndsAreReported ==
  ASSUME TrackerInv, Frame, NEW i \in DOMAIN active \ DOMAIN active'
  PROVE  /\ active[i].hits >= MinStableFrames =>
               100 * (active[i].away + 1) >= GapTolerance * Maturity[MinStableFrames]
         /\ finished'[i] > 0 <=>
               active[i].hits >= MinStableFrames /\ active[i].long >= MinDuration
<1>1. PICK signals, match, free, kept, ended : FrameWith(signals, match, free, kept, ended)
  BY FrameIs DEF TrackerInv
<1> DEFINE e == active[i]
           m == Missed(active[i])
<1>2. /\ e \in Event /\ e.hits \in 1 .. MaxHits /\ e.away \in Nat /\ i \in IDs
  BY EventParts DEF TypeOK, TrackerInv
<1>3. m.away = e.away + 1 /\ m.hits = e.hits /\ m.long = e.long
  BY <1>2 DEF Missed, Event
<1>4. i \notin DOMAIN match /\ i \notin kept
  BY <1>1 DEF FrameWith
<1>5. Overdue(m) /\ (i \in ended <=> Notable(m))
  BY <1>1, <1>4 DEF FrameWith
<1>6. finished'[i] = IF i \in ended THEN finished[i] + 1 ELSE finished[i]
  BY <1>1, <1>2 DEF FrameWith
<1>7. finished[i] = 0
  BY <1>2 DEF TrackerInv, Reported
<1>8. Overdue(m) <=> 100 * (e.away + 1) >= GapTolerance * Maturity[e.hits]
  BY <1>3 DEF Overdue
<1>9. Notable(m) <=> e.hits >= MinStableFrames /\ e.long >= MinDuration
  BY <1>3 DEF Notable
<1> HIDE DEF e, m
<1>10. ASSUME e.hits >= MinStableFrames
       PROVE  100 * (e.away + 1) >= GapTolerance * Maturity[MinStableFrames]
  <2>1. MinStableFrames \in 1 .. MaxHits /\ MinStableFrames <= e.hits /\ GapTolerance \in Nat
    BY <1>2, <1>10, TrackerAssumption
  <2> DEFINE low  == Maturity[MinStableFrames]
             high == Maturity[e.hits]
  <2>2. low \in Int /\ high \in Int /\ low <= high
    BY <1>2, <2>1, MaturityGrows
  <2>3. 100 * (e.away + 1) >= GapTolerance * high
    BY <1>5, <1>8
  <2> HIDE DEF low, high
  <2>4. GapTolerance * low <= GapTolerance * high
    BY <2>1, <2>2
  <2>5. GapTolerance * low \in Int /\ GapTolerance * high \in Int /\ 100 * (e.away + 1) \in Int
    BY <1>2, <2>1, <2>2
  <2>6. 100 * (e.away + 1) >= GapTolerance * low
    BY <2>3, <2>4, <2>5
  <2> QED
    BY <2>6 DEF low
<1>11. finished'[i] > 0 <=> e.hits >= MinStableFrames /\ e.long >= MinDuration
  BY <1>5, <1>6, <1>7, <1>9
<1> QED
  BY <1>10, <1>11 DEF e
-----------------------------------------------------------------------------
(* It holds of the tracker as it is made.                                    *)
LEMMA TrackerStart == Init => TrackerInv
<1>1. MaxID \in Nat
  BY TrackerAssumption
<1> QED
  BY <1>1 DEF Init, TrackerInv, TypeOK, Reported, IDs

(* TrackerInv is inductive.                                                  *)
LEMMA TrackerNext == TrackerInv /\ [Next]_vars => TrackerInv'
<1>1. ASSUME TrackerInv, Next PROVE TrackerInv'
  BY <1>1, FrameKeeps DEF Next
<1>2. ASSUME TrackerInv, UNCHANGED vars PROVE TrackerInv'
  BY <1>2 DEF vars, TrackerInv, TypeOK, Reported
<1> QED
  BY <1>1, <1>2

(* Whatever is reached is typed, and what was reported is over.               *)
LEMMA TrackerInvariant == Spec => []TrackerInv
  BY TrackerStart, TrackerNext, PTL DEF Spec

(* The tracker's state keeps its shape (detector.go, matchSignals).            *)
THEOREM TrackerTypes == Spec => []TypeOK
<1>1. TrackerInv => TypeOK
  BY DEF TrackerInv
<1> QED
  BY <1>1, TrackerInvariant, PTL

(* The same signal stays the same event: mature events choose first and the    *)
(* nearest, ids are unique and reported at most once, and what is stable ends  *)
(* only when it has been away for its tolerance, and is then reported           *)
(* (detector.go, matchSignals).                                             *)
THEOREM TracksRight == Spec => TracksSignals
<1>1. ASSUME TrackerInv, Frame PROVE NotStolen
  BY <1>1, StealsNothing
<1>2. ASSUME TrackerInv, TrackerInv', Frame PROVE OneIdEach
  <2>1. \A i \in IDs : finished'[i] <= 1 /\ (finished'[i] > 0 => i \notin DOMAIN active')
    <3>1. /\ finished' \in [IDs -> {0, 1}]
          /\ \A i \in IDs : finished'[i] = 1 => i \notin DOMAIN active'
      BY <1>2 DEF TrackerInv, Reported, IDs
    <3> QED
      BY <3>1
  <2>2. TypeOK
    BY <1>2 DEF TrackerInv
  <2> QED
    BY <1>2, <2>1, <2>2, TagsAreIds DEF OneIdEach
<1>3. ASSUME TrackerInv, Frame PROVE EndedRightly
  BY <1>3, EndsAreReported DEF EndedRightly
<1>4. TrackerInv /\ TrackerInv' /\ [Next]_vars =>
        [NotStolen]_vars /\ [OneIdEach]_vars /\ [EndedRightly]_vars
  BY <1>1, <1>2, <1>3 DEF Next
<1> QED
  BY <1>4, TrackerInvariant, PTL
     DEF Spec, TracksSignals, MatureFirst, IdsAreUnique, StableEndIsReported
-----------------------------------------------------------------------------
(* The votes on the class of one event are an instance of their module.        *)
CONSTANTS Classes, Unknown, Names, HistorySize, SwitchRatio

VARIABLES history, class

Votes == INSTANCE ClassVotes

(* With half of the votes two classes could have their share at once.  The      *)
(* code's default is 0.6, of which SwitchRatio is the hundredths.              *)
Decisive ==
  /\ SwitchRatio \in Nat /\ SwitchRatio > 50
  /\ HistorySize \in Nat \ {0}
  /\ Unknown \in Classes
  /\ Votes!NoPLL \notin Names /\ Votes!NoName \notin Names

(* The votes kept, and no class before the first vote.                        *)
VotesInv ==
  /\ history \in Seq(Classes) /\ Len(history) <= HistorySize
  /\ class = <<>> => history = <<>>

(* The instance's cardinality is the one the theorems about sets know.         *)
LEMMA SameCardinality ==
  ASSUME NEW S
  PROVE  Votes!Cardinality(S) = Cardinality(S)
  BY Zenon DEF Votes!Cardinality, Cardinality

(* The votes of two classes are no more than all.                             *)
LEMMA CountsAdd ==
  ASSUME NEW votes \in Seq(Classes), NEW c, NEW d, c # d
  PROVE  /\ Votes!Count(votes, c) \in Nat /\ Votes!Count(votes, d) \in Nat
         /\ Votes!Count(votes, c) + Votes!Count(votes, d) <= Len(votes)
<1> DEFINE all == 1 .. Len(votes)
           for(x) == {i \in all : votes[i] = x}
<1>1. IsFiniteSet(all) /\ Cardinality(all) = Len(votes) /\ Len(votes) \in Nat
  <2>1. PICK n \in Nat : n = Len(votes)
    BY SMTT(30)
  <2>2. IsFiniteSet(1 .. n) /\ Cardinality(1 .. n) = n
    <3>1. PICK one \in Int : one = 1
      OBVIOUS
    <3>2. /\ IsFiniteSet(one .. n)
          /\ Cardinality(one .. n) = IF one > n THEN 0 ELSE n - one + 1
      BY FS_Interval
    <3> QED
      BY <3>1, <3>2
  <2> QED
    BY <2>1, <2>2
<1>2. /\ IsFiniteSet(for(c)) /\ IsFiniteSet(for(d))
      /\ Cardinality(for(c)) \in Nat /\ Cardinality(for(d)) \in Nat
  BY <1>1, FS_Subset, FS_CardinalityType
<1>3. for(c) \cap for(d) = {}
  OBVIOUS
<1>4. Votes!Count(votes, c) = Cardinality(for(c)) /\ Votes!Count(votes, d) = Cardinality(for(d))
  <2>1. DOMAIN votes = all
    OBVIOUS
  <2>2. {i \in DOMAIN votes : votes[i] = c} = for(c) /\ {i \in DOMAIN votes : votes[i] = d} = for(d)
    BY <2>1
  <2> HIDE DEF for
  <2> QED
    BY <2>2, SameCardinality DEF Votes!Count
<1>5. for(c) \cup for(d) \subseteq all
  OBVIOUS
<1> HIDE DEF for, all
<1>6. Cardinality(for(c) \cup for(d)) = Cardinality(for(c)) + Cardinality(for(d))
  <2>1. Cardinality(for(c) \cup for(d)) = Cardinality(for(c)) + Cardinality(for(d)) - Cardinality(for(c) \cap for(d))
    BY <1>2, FS_Union
  <2>2. Cardinality(for(c) \cap for(d)) = 0
    BY <1>3, FS_EmptySet
  <2> QED
    BY <1>2, <2>1, <2>2
<1>7. Cardinality(for(c) \cup for(d)) <= Cardinality(all)
  BY <1>1, <1>5, FS_Subset
<1> QED
  BY <1>1, <1>2, <1>4, <1>6, <1>7

(* A vote is kept, and no more of them than the history has room for.           *)
LEMMA CastIs ==
  ASSUME Decisive, VotesInv, NEW mod \in Classes
  PROVE  /\ Votes!Cast(mod) \in Seq(Classes)
         /\ Len(Votes!Cast(mod)) >= 1 /\ Len(Votes!Cast(mod)) <= HistorySize
         /\ history = <<>> => Votes!Cast(mod) = <<mod>>
<1>1. history \in Seq(Classes) /\ Len(history) \in Nat /\ Len(history) <= HistorySize /\ HistorySize \in Nat /\ HistorySize >= 1
  BY DEF VotesInv, Decisive
<1>2. CASE Len(history) < HistorySize
  <2>1. Votes!Cast(mod) = Append(history, mod)
    BY <1>2 DEF Votes!Cast
  <2>2. Append(history, mod) \in Seq(Classes) /\ Len(Append(history, mod)) = Len(history) + 1
    BY <1>1, AppendProperties
  <2>3. history = <<>> => Append(history, mod) = <<mod>>
    OBVIOUS
  <2> QED
    BY <1>1, <1>2, <2>1, <2>2, <2>3
<1>3. CASE ~(Len(history) < HistorySize)
  <2>1. Votes!Cast(mod) = Append(Tail(history), mod)
    BY <1>3 DEF Votes!Cast
  <2>2. history # <<>> /\ Len(history) = HistorySize
    BY <1>1, <1>3
  <2>3. Tail(history) \in Seq(Classes) /\ Len(Tail(history)) = Len(history) - 1
    BY <1>1, <2>2, HeadTailProperties
  <2>4. Append(Tail(history), mod) \in Seq(Classes) /\ Len(Append(Tail(history), mod)) = Len(Tail(history)) + 1
    BY <2>3, AppendProperties
  <2> QED
    BY <1>1, <2>1, <2>2, <2>3, <2>4
<1> QED
  BY <1>2, <1>3

(* The threshold is the share, rounded up.                                    *)
LEMMA ThresholdIs ==
  ASSUME Decisive, NEW votes \in Seq(Classes), NEW n \in Nat
  PROVE  n >= Votes!Threshold(votes) <=> 100 * n >= SwitchRatio * Len(votes)
<1>1. Len(votes) * SwitchRatio \in Nat /\ SwitchRatio * Len(votes) = Len(votes) * SwitchRatio
  BY DEF Decisive
<1>2. PICK p \in Nat : p = Len(votes) * SwitchRatio
  BY <1>1
<1>3. Votes!Threshold(votes) = (p + 99) \div 100
  BY <1>2 DEF Votes!Threshold
<1>4. n >= (p + 99) \div 100 <=> 100 * n >= p
  OBVIOUS
<1> QED
  BY <1>1, <1>2, <1>3, <1>4

(* Who has the share of the votes has more than anybody else.                  *)
LEMMA ShareLeads ==
  ASSUME Decisive, NEW votes \in Seq(Classes), Len(votes) >= 1,
         NEW c \in Classes \ {Unknown}, 100 * Votes!Count(votes, c) >= SwitchRatio * Len(votes)
  PROVE  Votes!Majorities(votes) = {c}
<1> DEFINE n == Votes!Count(votes, c)
           l == Len(votes)
<1>1. n \in Nat /\ l \in Nat /\ l >= 1 /\ 2 * n > l
  <2>1. n \in Nat
    <3>1. c # TRUE \/ c # FALSE
      OBVIOUS
    <3> QED
      BY <3>1, CountsAdd
  <2>2. l \in Nat /\ l >= 1 /\ SwitchRatio \in Nat /\ SwitchRatio >= 51
    BY DEF Decisive
  <2>3. 100 * n >= SwitchRatio * l
    OBVIOUS
  <2> HIDE DEF n, l
  <2>4. SwitchRatio * l >= 51 * l
    BY <2>2
  <2>5. 100 * n >= 51 * l
    BY <2>1, <2>2, <2>3, <2>4
  <2> QED
    BY <2>1, <2>2, <2>5
<1>2. ASSUME NEW d, d # c PROVE Votes!Count(votes, d) \in Nat /\ Votes!Count(votes, d) < n
  <2>1. Votes!Count(votes, d) \in Nat /\ n + Votes!Count(votes, d) <= l
    BY <1>2, CountsAdd
  <2> HIDE DEF n, l
  <2> QED
    BY <1>1, <2>1
<1> HIDE DEF n
<1>3. c \in Votes!Majorities(votes)
  <2>1. \A d \in Classes \ {Unknown} : Votes!Count(votes, d) <= Votes!Count(votes, c)
    BY <1>1, <1>2 DEF n
  <2> QED
    BY <1>1, <2>1 DEF Votes!Majorities, n
<1>4. ASSUME NEW d \in Votes!Majorities(votes) PROVE d = c
  <2> SUFFICES ASSUME d # c PROVE FALSE
    OBVIOUS
  <2>1. Votes!Count(votes, c) <= Votes!Count(votes, d)
    BY <1>4 DEF Votes!Majorities
  <2>2. Votes!Count(votes, d) \in Nat /\ Votes!Count(votes, d) < n /\ n = Votes!Count(votes, c)
    BY <1>2 DEF n
  <2> QED
    BY <1>1, <2>1, <2>2
<1> QED
  BY <1>3, <1>4

(* What a vote does to a class that there is.                                 *)
LEMMA SwitchIs ==
  ASSUME Decisive, VotesInv, NEW mod \in Classes, NEW pll \in Votes!PLLs, Votes!UpdateClass(mod, pll), class # <<>>
  PROVE  /\ \A c \in Classes \ {Unknown} :
              100 * Votes!Count(history', c) >= SwitchRatio * Len(history') => class'[1].mod = c
         /\ class'[1].mod # class[1].mod =>
              100 * Votes!Count(history', class'[1].mod) >= SwitchRatio * Len(history')
         /\ class[1].pll \in Names =>
              \/ class'[1].pll \in Names
              \/ class'[1].mod # class[1].mod /\ class'[1].pll = Votes!NoPLL
<1> DEFINE votes == Votes!Cast(mod)
           switches(m) == Votes!Count(votes, m) >= Votes!Threshold(votes) /\ m \notin {class[1].mod, Unknown}
<1>1. votes \in Seq(Classes) /\ Len(votes) >= 1 /\ history' = votes
  BY CastIs DEF Votes!UpdateClass
<1>2. PICK majority \in Votes!Majorities(votes) \cup {Unknown} :
        /\ majority = Unknown => Votes!Majorities(votes) = {}
        /\ class' = <<[mod |-> IF switches(majority) THEN majority ELSE class[1].mod,
                       pll |-> Votes!HeldPLL(class[1].pll, switches(majority), pll)]>>
  BY DEF Votes!UpdateClass
<1>3. /\ class'[1].mod = IF switches(majority) THEN majority ELSE class[1].mod
      /\ class'[1].pll = Votes!HeldPLL(class[1].pll, switches(majority), pll)
  BY <1>2
<1>4. \A m : Votes!Count(votes, m) \in Nat
  <2> TAKE m
  <2>1. m # TRUE \/ m # FALSE
    OBVIOUS
  <2> QED
    BY <1>1, <2>1, CountsAdd
<1> HIDE DEF votes
<1>5. \A m : Votes!Count(votes, m) >= Votes!Threshold(votes) <=> 100 * Votes!Count(votes, m) >= SwitchRatio * Len(votes)
  BY <1>1, <1>4, ThresholdIs
<1>6. ASSUME NEW c \in Classes \ {Unknown}, 100 * Votes!Count(votes, c) >= SwitchRatio * Len(votes)
      PROVE  class'[1].mod = c
  <2>1. Votes!Majorities(votes) = {c}
    BY <1>1, <1>6, ShareLeads
  <2>2. majority = c
    BY <1>2, <2>1
  <2>3. CASE c = class[1].mod
    BY <1>3, <2>2, <2>3
  <2>4. CASE c # class[1].mod
    BY <1>3, <1>5, <1>6, <2>2, <2>4
  <2> QED
    BY <2>3, <2>4
<1>7. class'[1].mod # class[1].mod => switches(majority) /\ class'[1].mod = majority
  BY <1>3
<1>8. switches(majority) => class'[1].mod # class[1].mod
  BY <1>3
<1>9. ASSUME class[1].pll \in Names
      PROVE  \/ class'[1].pll \in Names
             \/ class'[1].mod # class[1].mod /\ class'[1].pll = Votes!NoPLL
  <2>1. CASE pll = Votes!NoPLL
    <3>1. class'[1].pll = IF switches(majority) THEN Votes!NoPLL ELSE class[1].pll
      BY <1>3, <2>1 DEF Votes!HeldPLL
    <3> QED
      BY <1>8, <1>9, <3>1
  <2>2. CASE pll # Votes!NoPLL /\ pll = Votes!NoName
    <3>1. class'[1].pll = class[1].pll
      BY <1>3, <1>9, <2>2 DEF Votes!HeldPLL
    <3> QED
      BY <1>9, <3>1
  <2>3. CASE pll # Votes!NoPLL /\ pll # Votes!NoName
    <3>1. class'[1].pll = pll
      BY <1>3, <2>3 DEF Votes!HeldPLL
    <3> QED
      BY <2>3, <3>1 DEF Votes!PLLs
  <2> QED
    BY <2>1, <2>2, <2>3
<1> QED
  BY <1>1, <1>5, <1>6, <1>7, <1>9

(* The first vote decides.                                                   *)
LEMMA FirstIs ==
  ASSUME Decisive, VotesInv, NEW mod \in Classes, NEW pll \in Votes!PLLs, Votes!UpdateClass(mod, pll), class = <<>>
  PROVE  \A c \in Classes \ {Unknown} :
           100 * Votes!Count(history', c) >= SwitchRatio * Len(history') => class'[1].mod = c
<1>1. history' = <<mod>> /\ class'[1].mod = mod
  BY CastIs DEF VotesInv, Votes!UpdateClass
<1>2. <<mod>> \in Seq(Classes) /\ Len(<<mod>>) = 1 /\ SwitchRatio \in Nat /\ SwitchRatio > 50
  BY DEF Decisive
<1>3. ASSUME NEW c, c # mod PROVE Votes!Count(<<mod>>, c) = 0
  <2>1. DOMAIN <<mod>> = {1} /\ <<mod>>[1] = mod
    OBVIOUS
  <2>2. {i \in DOMAIN <<mod>> : <<mod>>[i] = c} = {}
    BY <1>3, <2>1
  <2> QED
    BY <2>2, FS_EmptySet, SameCardinality DEF Votes!Count
<1> QED
  BY <1>1, <1>2, <1>3

(* The class and the station's name of an event are not flapped by its votes     *)
(* (updateClass): a class with its share of the votes is the event's, one that *)
(* replaces another has its share, and a name once heard is replaced by a name,  *)
(* or is dropped together with the class it belonged to.                       *)
THEOREM VotesCount ==
  ASSUME Decisive
  PROVE  Votes!Spec => Votes!VotesDecide
<1>1. Votes!Init => VotesInv
  BY DEF Votes!Init, VotesInv, Decisive
<1>2. ASSUME VotesInv, NEW mod \in Classes, NEW pll \in Votes!PLLs, Votes!UpdateClass(mod, pll)
      PROVE  VotesInv' /\ class' # <<>>
  <2>1. history' = Votes!Cast(mod) /\ class' # <<>>
    BY <1>2 DEF Votes!UpdateClass
  <2> QED
    BY <1>2, <2>1, CastIs DEF VotesInv
<1>3. VotesInv /\ [Votes!Next]_Votes!vars => VotesInv'
  BY <1>2 DEF Votes!Next, Votes!vars, VotesInv
<1>4. ASSUME VotesInv, Votes!Next
      PROVE  class' # <<>> =>
        /\ \A c \in Classes \ {Unknown} :
             100 * Votes!Count(history', c) >= SwitchRatio * Len(history') => class'[1].mod = c
        /\ (class # <<>> /\ class'[1].mod # class[1].mod) =>
             100 * Votes!Count(history', class'[1].mod) >= SwitchRatio * Len(history')
        /\ (class # <<>> /\ class[1].pll \in Names) =>
             \/ class'[1].pll \in Names
             \/ class'[1].mod # class[1].mod /\ class'[1].pll = Votes!NoPLL
  <2>1. PICK mod \in Classes, pll \in Votes!PLLs : Votes!UpdateClass(mod, pll)
    BY <1>4 DEF Votes!Next
  <2> QED
    BY <1>4, <2>1, FirstIs, SwitchIs
<1> QED
  BY <1>1, <1>3, <1>4, PTL DEF Votes!Spec, Votes!VotesDecide
-----------------------------------------------------------------------------
(* Arithmetic that the extractor and the rate changers share.                  *)

(* What a division says.                                                     *)
LEMMA Divides ==
  ASSUME NEW a \in Nat, NEW d \in Nat \ {0}
  PROVE  \E q \in Nat, r \in 0 .. d - 1 : q = a \div d /\ r = a % d /\ a = d * q + r
<1>1. /\ a \div d \in Nat /\ a % d \in 0 .. d - 1
      /\ a = d * (a \div d) + (a % d)
  OBVIOUS
<1> QED
  BY <1>1

(* Products of numbers.                                                       *)
LEMMA Times ==
  ASSUME NEW x \in Nat, NEW b \in Nat, NEW c \in Nat
  PROVE  x * (b + c) = x * b + x * c /\ x * b \in Nat /\ x * c \in Nat /\ x * b = b * x /\ x * 1 = x
OBVIOUS

(* What is greater by one at least, is by as much times the factor.             *)
LEMMA TimesMore ==
  ASSUME NEW d \in Nat, NEW p \in Nat, NEW q \in Nat, p < q
  PROVE  d * p + d <= d * q /\ d * p \in Nat /\ d * q \in Nat
<1>1. PICK k \in Nat : k = q - p - 1
  OBVIOUS
<1>2. q = (p + 1) + k
  BY <1>1
<1>3. PICK p1 \in Nat : p1 = p + 1
  OBVIOUS
<1>4. d * q = d * p1 + d * k /\ d * k \in Nat /\ d * p1 \in Nat
  BY <1>2, <1>3, Times
<1>5. d * p1 = d * p + d * 1 /\ d * p \in Nat
  BY <1>3, Times
<1>6. d * 1 = d
  OBVIOUS
<1>7. PICK dp \in Nat, dq \in Int, dk \in Nat, dr \in Nat : dp = d * p /\ dq = d * q /\ dk = d * k /\ dr = d * p1
  BY <1>4, <1>5
<1>8. dq = dr + dk /\ dr = dp + d
  BY <1>4, <1>5, <1>6, <1>7
<1> QED
  BY <1>7, <1>8

(* And what says it of a division.                                            *)
LEMMA DividesSo ==
  ASSUME NEW a \in Nat, NEW d \in Nat \ {0}, NEW q \in Nat, NEW r \in 0 .. d - 1, a = d * q + r
  PROVE  a \div d = q /\ a % d = r
<1>1. PICK p \in Nat, s \in 0 .. d - 1 : p = a \div d /\ s = a % d /\ a = d * p + s
  BY Divides
<1>2. ~(p < q)
  <2> SUFFICES ASSUME p < q PROVE FALSE
    OBVIOUS
  <2>1. d * p + d <= d * q /\ d * p \in Nat /\ d * q \in Nat
    BY TimesMore
  <2> QED
    BY <1>1, <2>1
<1>3. ~(q < p)
  <2> SUFFICES ASSUME q < p PROVE FALSE
    OBVIOUS
  <2>1. d * q + d <= d * p /\ d * p \in Nat /\ d * q \in Nat
    BY TimesMore
  <2> QED
    BY <1>1, <2>1
<1> QED
  BY <1>1, <1>2, <1>3


(* One sequence after another.                                                *)
Joined(c, a, b) ==
  /\ Len(c) = Len(a) + Len(b) /\ DOMAIN c = 1 .. Len(a) + Len(b)
  /\ \A i \in 1 .. Len(a) : c[i] = a[i]
  /\ \A i \in Len(a) + 1 .. Len(a) + Len(b) : c[i] = b[i - Len(a)]

(* That is what \o does.                                                       *)
LEMMA Appended ==
  ASSUME NEW S, NEW a \in Seq(S), NEW b \in Seq(S)
  PROVE  a \o b \in Seq(S) /\ Joined(a \o b, a, b)
BY DEF Joined
-----------------------------------------------------------------------------
(* The extractor is an instance of its module.                                *)
CONSTANTS Jobs, Blocks, MaxInput

VARIABLES fed, host, dev, out, holes

Gpu == INSTANCE Extraction

(* A filter has taps and an output a distance.                               *)
Geo(geo) == geo.decim \in Nat \ {0} /\ geo.taps \in Nat \ {0}

(* A tap is in some phase, some samples back.                                 *)
TapAt(tap, d, len) == \E p \in 0 .. d - 1, k \in 0 .. len - 1 : tap = p + k * d

(* The layout has every tap at one place, and padding elsewhere.              *)
LEMMA LayoutIs ==
  ASSUME NEW geo, NEW d \in Nat \ {0}, NEW taps \in Nat \ {0}, d = geo.decim, taps = geo.taps,
         NEW len, len = Gpu!PhaseLen(geo)
  PROVE  /\ len \in Nat \ {0}
         /\ \A p \in 0 .. d - 1, k \in 0 .. len - 1 :
              Gpu!Layout(geo)[p * len + k] = IF p + k * d < taps THEN p + k * d ELSE -1
         /\ \A tap \in 0 .. taps - 1 : TapAt(tap, d, len)
<1>2. PICK a \in Nat : a = taps + d - 1 /\ a >= d
  OBVIOUS
<1>3. PICK q \in Nat, r \in 0 .. d - 1 : q = a \div d /\ r = a % d /\ a = d * q + r
  BY <1>2, Divides
<1>4. len \in Nat /\ len = q
  BY <1>2, <1>3 DEF Gpu!PhaseLen
<1>5. a = d * len + r
  BY <1>3, <1>4
<1>6. len # 0
  <2> SUFFICES ASSUME len = 0 PROVE FALSE
    OBVIOUS
  <2>1. d * len = 0
    BY <1>4
  <2> QED
    BY <1>2, <1>5, <2>1
<1>7. ASSUME NEW p \in 0 .. d - 1, NEW k \in 0 .. len - 1
      PROVE  Gpu!Layout(geo)[p * len + k] = IF p + k * d < taps THEN p + k * d ELSE -1
  <2>1. len * p \in Nat /\ len * p = p * len
    BY <1>4, Times
  <2>2. PICK x \in Nat : x = len * p + k /\ x = p * len + k
    BY <2>1
  <2>3. x \div len = p /\ x % len = k
    <3>1. p \in Nat /\ len \in Nat \ {0}
      BY <1>4, <1>6
    <3> QED
      BY <2>2, <3>1, DividesSo
  <2>4. x \in 0 .. d * len - 1
    <3>1. len * p + len <= len * d /\ len * d \in Nat /\ len * d = d * len
      <4>1. p \in Nat /\ p < d
        OBVIOUS
      <4> QED
        BY <1>4, <4>1, Times, TimesMore
    <3> QED
      BY <1>4, <2>1, <2>2, <3>1
  <2>5. Gpu!Layout(geo) = [y \in 0 .. d * len - 1 |->
          LET tap == y \div len + (y % len) * d IN IF tap < taps THEN tap ELSE -1]
    BY DEF Gpu!Layout
  <2> QED
    BY <2>2, <2>3, <2>4, <2>5
<1>8. ASSUME NEW tap \in 0 .. taps - 1 PROVE TapAt(tap, d, len)
  <2>1. PICK k \in Nat, p \in 0 .. d - 1 : k = tap \div d /\ p = tap % d /\ tap = d * k + p
    <3>1. tap \in Nat
      OBVIOUS
    <3> QED
      BY <3>1, Divides
  <2>2. k < len
    <3> SUFFICES ASSUME len <= k PROVE FALSE
      BY <1>4
    <3>1. PICK dl \in Nat, dk \in Nat : dl = d * len /\ dk = d * k
      BY <1>4, Times
    <3>2. dl <= dk
      <4>1. CASE len < k
        BY <1>4, <3>1, <4>1, TimesMore
      <4>2. CASE len = k
        BY <3>1, <4>2
      <4> QED
        BY <1>4, <4>1, <4>2
    <3>3. a = dl + r /\ tap = dk + p
      BY <1>5, <2>1, <3>1
    <3>4. a < dl + d /\ dk <= tap /\ tap < taps /\ a = taps + d - 1
      BY <1>2, <3>1, <3>3
    <3> QED
      BY <3>1, <3>2, <3>4
  <2>3. k \in 0 .. len - 1
    BY <1>4, <2>2
  <2>4. d * k = k * d /\ d * k \in Nat
    BY Times
  <2>5. tap = p + k * d
    BY <2>1, <2>4
  <2> QED
    BY <2>3, <2>5 DEF TapAt
<1> QED
  BY <1>4, <1>6, <1>7, <1>8

(* Every tap of a filter with the sample so far back, without the padding.      *)
WholeFilter(windows, geo, line, newest) ==
  {w \in windows : w[1] >= 0}
    = {<<tap, IF newest > tap THEN line[newest - tap] ELSE 0>> : tap \in 0 .. geo.taps - 1}

(* One output is the whole filter.                                            *)
LEMMA TapsAre ==
  ASSUME NEW geo, Geo(geo), NEW line, NEW newest \in Nat
  PROVE  WholeFilter(Gpu!Taps(geo, line, newest), geo, line, newest)
<1>0. PICK d \in Nat \ {0}, taps \in Nat \ {0} : d = geo.decim /\ taps = geo.taps
  BY DEF Geo
<1>1. PICK len : len = Gpu!PhaseLen(geo)
  OBVIOUS
<1> DEFINE Val(tap) == IF newest > tap THEN line[newest - tap] ELSE 0
<1>2. ASSUME NEW p \in 0 .. d - 1, NEW k \in 0 .. len - 1
      PROVE  Gpu!Layout(geo)[p * len + k] = IF p + k * d < taps THEN p + k * d ELSE -1
  <2> HIDE DEF Val
  <2> QED
    BY <1>0, <1>1, LayoutIs
<1>3. ASSUME NEW tap \in 0 .. taps - 1 PROVE TapAt(tap, d, len)
  <2> HIDE DEF Val
  <2> QED
    BY <1>0, <1>1, LayoutIs
<1>4. Gpu!Taps(geo, line, newest)
        = {<<Gpu!Layout(geo)[p * len + k],
             IF newest > p + k * d THEN line[newest - p - k * d] ELSE 0>> : p \in 0 .. d - 1, k \in 0 .. len - 1}
  BY <1>1, <1>0 DEF Gpu!Taps
<1>5. ASSUME NEW w \in Gpu!Taps(geo, line, newest), w[1] >= 0
      PROVE  \E tap \in 0 .. taps - 1 : w = <<tap, Val(tap)>>
  <2>1. PICK p \in 0 .. d - 1, k \in 0 .. len - 1 :
          w = <<Gpu!Layout(geo)[p * len + k], IF newest > p + k * d THEN line[newest - p - k * d] ELSE 0>>
    BY <1>4
  <2>2. PICK kd \in Nat : kd = k * d
    OBVIOUS
  <2>3. PICK tap \in Nat : tap = p + kd
    BY <2>2
  <2>4. w[1] = IF tap < taps THEN tap ELSE -1
    BY <1>2, <2>1, <2>2, <2>3
  <2>5. tap < taps /\ w[1] = tap
    BY <1>5, <2>4
  <2>6. newest - p - kd = newest - tap
    BY <2>2, <2>3
  <2>7. w = <<w[1], IF newest > tap THEN line[newest - tap] ELSE 0>>
    BY <2>1, <2>2, <2>3, <2>6
  <2> QED
    BY <2>3, <2>5, <2>7
<1>6. ASSUME NEW tap \in 0 .. taps - 1
      PROVE  \E w \in Gpu!Taps(geo, line, newest) : w = <<tap, Val(tap)>>
  <2>1. PICK p \in 0 .. d - 1, k \in 0 .. len - 1 : tap = p + k * d
    BY <1>3 DEF TapAt
  <2>2. PICK kd \in Nat : kd = k * d
    OBVIOUS
  <2>3. Gpu!Layout(geo)[p * len + k] = tap
    BY <1>2, <2>1
  <2>4. newest - p - kd = newest - tap
    BY <2>1, <2>2
  <2>5. <<tap, Val(tap)>> = <<Gpu!Layout(geo)[p * len + k], IF newest > p + k * d THEN line[newest - p - k * d] ELSE 0>>
    BY <2>1, <2>2, <2>3, <2>4
  <2> HIDE DEF Val
  <2>6. <<tap, Val(tap)>> \in Gpu!Taps(geo, line, newest)
    BY <1>4, <2>5
  <2> QED
    BY <2>6
<1>7. \A tap \in 0 .. taps - 1 : <<tap, Val(tap)>>[1] >= 0
  OBVIOUS
<1> HIDE DEF Val
<1>8. {w \in Gpu!Taps(geo, line, newest) : w[1] >= 0} = {<<tap, Val(tap)>> : tap \in 0 .. taps - 1}
  BY <1>5, <1>6, <1>7
<1> QED
  BY <1>0, <1>8 DEF Val, WholeFilter

(* The lesser of two.                                                         *)
Lesser(a, b) == IF a < b THEN a ELSE b

(* The end of a sequence.                                                     *)
EndOf(e, s, h) ==
  e \in Seq(Nat) /\ Len(e) = h /\ \A i \in 1 .. h : e[i] = s[Len(s) - h + i]

(* That is what the newest of its elements are.                                *)
LEMMA NewestIs ==
  ASSUME NEW s \in Seq(Nat), NEW n \in Nat
  PROVE  EndOf(Gpu!Newest(s, n), s, Lesser(n, Len(s)))
<1> DEFINE h == Lesser(n, Len(s))
<1> SUFFICES /\ Gpu!Newest(s, n) \in Seq(Nat) /\ Len(Gpu!Newest(s, n)) = h
             /\ \A i \in 1 .. h : Gpu!Newest(s, n)[i] = s[Len(s) - h + i]
  BY DEF EndOf
<1>0. h = IF n < Len(s) THEN n ELSE Len(s)
  BY DEF Lesser
<1> HIDE DEF h
<1>1. PICK len \in Nat : len = Len(s)
  OBVIOUS
<1>2. CASE n < len
  <2>1. h = n
    BY <1>0, <1>1, <1>2
  <2>2. PICK a \in 1 .. len + 1 : a = len - n + 1
    BY <1>2
  <2>3. PICK e : e = SubSeq(s, a, len)
    OBVIOUS
  <2>4. Gpu!Newest(s, n) = e
    BY <1>1, <1>2, <2>2, <2>3 DEF Gpu!Newest
  <2>5. e \in Seq(Nat) /\ Len(e) = len - a + 1 /\ \A i \in 1 .. len - a + 1 : e[i] = s[a + i - 1]
    <3>1. \A i \in a .. len : s[i] \in Nat
      BY <1>1
    <3>2. /\ SubSeq(s, a, len) \in Seq(Nat) /\ Len(SubSeq(s, a, len)) = (IF a <= len THEN len - a + 1 ELSE 0)
          /\ \A i \in 1 .. len - a + 1 : SubSeq(s, a, len)[i] = s[a + i - 1]
      BY <3>1, SubSeqProperties
    <3> QED
      BY <2>3, <3>2
  <2>6. len - a + 1 = n /\ \A i \in 1 .. n : a + i - 1 = len - n + i
    BY <2>2
  <2>7. e \in Seq(Nat) /\ Len(e) = n /\ \A i \in 1 .. n : e[i] = s[len - n + i]
    BY <2>5, <2>6
  <2> QED
    BY <1>1, <2>1, <2>4, <2>7
<1>3. CASE ~(n < len)
  <2>1. h = len /\ Gpu!Newest(s, n) = SubSeq(s, 1, len)
    BY <1>0, <1>1, <1>3 DEF Gpu!Newest
  <2>2. SubSeq(s, 1, len) = s
    BY <1>1
  <2>3. \A i \in 1 .. len : len - len + i = i
    OBVIOUS
  <2> QED
    BY <1>1, <2>1, <2>2, <2>3
<1> QED
  BY <1>2, <1>3

(* What a signal's state is: where it is in its decimation, and the samples that *)
(* its filter still needs.                                                    *)
StateIs(s) ==
  /\ Geo(s.geo) /\ s.all \in Seq(Nat)
  /\ s.count = Len(s.all) % s.geo.decim
  /\ s.hist = Gpu!Newest(s.all, s.geo.taps - 1)

(* The samples that went through it are the last ones.                         *)
UpTo(s, n) == \A j \in DOMAIN s.all : s.all[j] = n - Len(s.all) + j

(* Where the output that ends with the jth sample is.                          *)
LEMMA PlaceIs ==
  ASSUME NEW d \in Nat \ {0}, NEW len \in Nat, NEW q \in Nat, NEW c \in 0 .. d - 1, len = d * q + c,
         NEW n \in Nat, NEW p \in Nat, NEW r \in 0 .. d - 1, c + n = d * p + r,
         NEW j \in len + 1 .. len + n, NEW x \in Nat, j = d * x
  PROVE  x - q \in 1 .. p /\ d - c + ((x - q) - 1) * d = j - len
<1>1. PICK dq \in Nat, dp \in Nat, dx \in Nat : dq = d * q /\ dp = d * p /\ dx = d * x
  BY Times
<1>2. ~(x <= q)
  <2> SUFFICES ASSUME x <= q PROVE FALSE
    OBVIOUS
  <2>1. dx <= dq
    <3>1. CASE x < q
      BY <1>1, <3>1, TimesMore
    <3>2. CASE x = q
      BY <1>1, <3>2
    <3> QED
      BY <3>1, <3>2
  <2> QED
    BY <1>1, <2>1
<1>3. x <= q + p
  <2> SUFFICES ASSUME q + p < x PROVE FALSE
    OBVIOUS
  <2>1. PICK qp \in Nat : qp = q + p
    OBVIOUS
  <2>2. d * qp + d <= dx
    BY <1>1, <2>1, TimesMore
  <2>3. d * qp = dq + dp
    BY <1>1, <2>1, Times
  <2>4. len + n = dq + dp + r
    BY <1>1
  <2> QED
    BY <1>1, <2>2, <2>3, <2>4
<1>4. PICK k \in Nat : k = x - q - 1
  BY <1>2
<1>5. PICK q1 \in Nat : q1 = q + 1
  OBVIOUS
<1>6. dx = d * q1 + d * k /\ d * q1 = dq + d /\ k * d = d * k /\ d * k \in Nat
  <2>1. x = q1 + k
    BY <1>4, <1>5
  <2> QED
    BY <1>1, <1>5, <2>1, Times
<1>7. d - c + k * d = j - len
  BY <1>1, <1>6
<1>8. (x - q) - 1 = k
  BY <1>4
<1> QED
  BY <1>2, <1>3, <1>7, <1>8

(* A frame's samples go through a state: it is what it was, with them.          *)
LEMMA LaunchIs ==
  ASSUME fed \in Nat, NEW s, NEW n \in Nat, StateIs(s),
         NEW t, t = Gpu!Launch(s, n).state, NEW w, w = Gpu!Launch(s, n).windows
  PROVE  /\ StateIs(t) /\ t.geo = s.geo /\ t.taps = s.taps
         /\ UpTo(s, fed) => UpTo(t, fed + n)
         /\ Gpu!Shown(w, t, n)
<1>1. PICK d \in Nat \ {0}, taps \in Nat \ {0} : d = s.geo.decim /\ taps = s.geo.taps
  BY DEF StateIs, Geo
<1>2. PICK keep \in Nat : keep = taps - 1
  OBVIOUS
<1>3. PICK all \in Seq(Nat) : all = s.all
  BY DEF StateIs
<1>4. PICK len \in Nat : len = Len(all) /\ DOMAIN all = 1 .. len
  OBVIOUS
<1>5. PICK q \in Nat, c \in 0 .. d - 1 : q = len \div d /\ c = len % d /\ len = d * q + c
  BY <1>4, Divides
<1>6. PICK cn \in Nat : cn = c + n
  OBVIOUS
<1>7. PICK p \in Nat, r \in 0 .. d - 1 : p = cn \div d /\ r = cn % d /\ cn = d * p + r
  BY Divides
<1>8. PICK h \in Nat : h = (IF keep < len THEN keep ELSE len) /\ h <= len
  OBVIOUS
<1>9. PICK hist : hist = s.hist
  OBVIOUS
<1>10. hist \in Seq(Nat) /\ Len(hist) = h /\ \A i \in 1 .. h : hist[i] = all[len - h + i]
  <2>1. hist = Gpu!Newest(all, keep)
    BY <1>1, <1>2, <1>3, <1>9 DEF StateIs
  <2>2. h = Lesser(keep, Len(all))
    BY <1>4, <1>8 DEF Lesser
  <2>3. EndOf(Gpu!Newest(all, keep), all, Lesser(keep, Len(all)))
    BY NewestIs
  <2>4. EndOf(hist, all, h)
    BY <2>1, <2>2, <2>3
  <2> QED
    BY <1>4, <2>4 DEF EndOf
<1>11. PICK new : new = [i \in 1 .. n |-> fed + i]
  OBVIOUS
<1>12. new \in Seq(Nat) /\ Len(new) = n /\ \A i \in 1 .. n : new[i] = fed + i
  BY <1>11
<1>13. PICK line : line = hist \o new
  OBVIOUS
<1>14. PICK now : now = all \o new
  OBVIOUS
<1>15. /\ now \in Seq(Nat) /\ Len(now) = len + n /\ DOMAIN now = 1 .. len + n
       /\ (\A i \in 1 .. len : now[i] = all[i]) /\ (\A i \in len + 1 .. len + n : now[i] = fed + (i - len))
  <2>1. /\ now \in Seq(Nat) /\ Len(now) = len + n /\ DOMAIN now = 1 .. len + n
        /\ \A i \in 1 .. len : now[i] = all[i]
        /\ \A i \in len + 1 .. len + n : now[i] = new[i - len]
    <3>1. now \in Seq(Nat) /\ Joined(now, all, new)
      BY <1>12, <1>14, Appended
    <3> QED
      BY <1>4, <1>12, <3>1 DEF Joined
  <2>2. \A i \in len + 1 .. len + n : i - len \in 1 .. n
    OBVIOUS
  <2>3. \A i \in len + 1 .. len + n : new[i - len] = fed + (i - len)
    BY <1>12, <2>2
  <2> QED
    BY <1>14, <2>1, <2>3
<1>16. /\ line \in Seq(Nat) /\ Len(line) = h + n
       /\ \A x \in 1 .. h + n : line[x] = now[len - h + x]
  <2>1. /\ line \in Seq(Nat) /\ Len(line) = h + n
        /\ \A x \in 1 .. h : line[x] = hist[x]
        /\ \A x \in h + 1 .. h + n : line[x] = new[x - h]
    <3>1. line \in Seq(Nat) /\ Joined(line, hist, new)
      BY <1>10, <1>12, <1>13, Appended
    <3> QED
      BY <1>10, <1>12, <3>1 DEF Joined
  <2>2. ASSUME NEW x \in 1 .. h PROVE line[x] = now[len - h + x]
    <3>1. len - h + x \in 1 .. len
      BY <1>8
    <3> QED
      BY <1>10, <1>15, <2>1, <3>1
  <2>3. ASSUME NEW x \in h + 1 .. h + n PROVE line[x] = now[len - h + x]
    <3>1. len - h + x \in len + 1 .. len + n /\ (len - h + x) - len = x - h /\ x - h \in 1 .. n
      BY <1>8
    <3> QED
      BY <1>12, <1>15, <2>1, <3>1
  <2>4. ASSUME NEW x \in 1 .. h + n PROVE x \in 1 .. h \/ x \in h + 1 .. h + n
    OBVIOUS
  <2>5. \A x \in 1 .. h + n : line[x] = now[len - h + x]
    BY <2>2, <2>3, <2>4
  <2> QED
    BY <2>1, <2>5
<1>17. /\ t = [geo |-> s.geo, taps |-> s.taps, count |-> cn % d, hist |-> Gpu!Newest(line, keep), all |-> now]
       /\ w = [k \in 1 .. p |-> Gpu!Taps(s.geo, line, h + (d - c) + (k - 1) * d)]
  <2>1. s.count = c
    BY <1>1, <1>3, <1>4, <1>5 DEF StateIs
  <2>2. Gpu!Start(s) = d - c
    BY <1>1, <2>1 DEF Gpu!Start
  <2> QED
    BY <1>1, <1>2, <1>3, <1>6, <1>7, <1>9, <1>10, <1>11, <1>13, <1>14, <2>1, <2>2 DEF Gpu!Launch
<1>18. t.geo = s.geo /\ t.taps = s.taps /\ t.count = cn % d /\ t.hist = Gpu!Newest(line, keep) /\ t.all = now
  BY <1>17
<1>19. (len + n) \div d = q + p /\ (len + n) % d = r
  <2>1. PICK qp \in Nat : qp = q + p
    OBVIOUS
  <2>2. PICK dq \in Nat, dp \in Nat : dq = d * q /\ dp = d * p
    BY Times
  <2>3. d * qp = dq + dp
    BY <2>1, <2>2, Times
  <2>4. PICK a \in Nat : a = len + n
    OBVIOUS
  <2>5. a = d * qp + r
    <3>1. len = dq + c
      BY <1>5, <2>2
    <3>2. c + n = dp + r
      BY <1>6, <1>7, <2>2
    <3> QED
      BY <2>2, <2>3, <2>4, <3>1, <3>2
  <2>6. a \div d = qp /\ a % d = r
    BY <2>5, DividesSo
  <2> QED
    BY <2>1, <2>4, <2>6
<1>20. Gpu!Newest(line, keep) = Gpu!Newest(now, keep)
  <2>1. PICK g \in Nat : g = (IF keep < h + n THEN keep ELSE h + n)
    OBVIOUS
  <2>2. g = (IF keep < len + n THEN keep ELSE len + n) /\ g <= h + n
    BY <1>8, <2>1
  <2>3. PICK a : a = Gpu!Newest(line, keep)
    OBVIOUS
  <2>4. PICK b : b = Gpu!Newest(now, keep)
    OBVIOUS
  <2>5. a \in Seq(Nat) /\ Len(a) = g /\ \A i \in 1 .. g : a[i] = line[(h + n) - g + i]
    <3>1. line \in Seq(Nat) /\ Len(line) = h + n
      BY <1>16
    <3>2. g = Lesser(keep, Len(line))
      BY <2>1, <3>1 DEF Lesser
    <3>3. EndOf(a, line, Lesser(keep, Len(line)))
      BY <2>3, <3>1, NewestIs
    <3>4. EndOf(a, line, g)
      BY <3>2, <3>3
    <3> QED
      BY <3>1, <3>4 DEF EndOf
  <2>6. b \in Seq(Nat) /\ Len(b) = g /\ \A i \in 1 .. g : b[i] = now[(len + n) - g + i]
    <3>1. now \in Seq(Nat) /\ Len(now) = len + n
      BY <1>15
    <3>2. g = Lesser(keep, Len(now))
      BY <2>2, <3>1 DEF Lesser
    <3>3. EndOf(b, now, Lesser(keep, Len(now)))
      BY <2>4, <3>1, NewestIs
    <3>4. EndOf(b, now, g)
      BY <3>2, <3>3
    <3> QED
      BY <3>1, <3>4 DEF EndOf
  <2>7. ASSUME NEW i \in 1 .. g PROVE a[i] = b[i]
    <3>1. (h + n) - g + i \in 1 .. h + n /\ len - h + ((h + n) - g + i) = (len + n) - g + i
      BY <1>8, <2>2
    <3> QED
      BY <1>16, <2>5, <2>6, <3>1
  <2> QED
    BY <2>3, <2>4, <2>5, <2>6, <2>7, SeqEqual
<1>21. StateIs(t)
  BY <1>1, <1>2, <1>7, <1>15, <1>18, <1>19, <1>20 DEF StateIs
<1>22. ASSUME UpTo(s, fed) PROVE UpTo(t, fed + n)
  <2>1. \A j \in 1 .. len : all[j] = fed - len + j
    BY <1>3, <1>4, <1>22 DEF UpTo
  <2>2. ASSUME NEW j \in 1 .. len + n PROVE now[j] = (fed + n) - (len + n) + j
    <3>1. CASE j \in 1 .. len
      BY <1>15, <2>1, <3>1
    <3>2. CASE j \in len + 1 .. len + n
      BY <1>15, <3>2
    <3> QED
      BY <3>1, <3>2
  <2> QED
    BY <1>15, <1>18, <2>2 DEF UpTo
<1>23. ASSUME NEW j \in len + 1 .. len + n, j % d = 0
       PROVE  {v \in w[j \div d - q] : v[1] >= 0} = Gpu!Whole(t, j)
  <2>1. PICK x \in Nat, z \in 0 .. d - 1 : x = j \div d /\ z = j % d /\ j = d * x + z
    <3>1. j \in Nat
      OBVIOUS
    <3> QED
      BY <3>1, Divides
  <2>2. j = d * x
    <3>1. PICK dx \in Nat : dx = d * x
      BY Times
    <3> QED
      BY <1>23, <2>1, <3>1
  <2>3. x - q \in 1 .. p /\ d - c + ((x - q) - 1) * d = j - len
    <3>1. len = d * q + c
      BY <1>5
    <3>2. c + n = d * p + r
      BY <1>6, <1>7
    <3> QED
      BY <2>2, <3>1, <3>2, PlaceIs
  <2>4. PICK k \in 1 .. p : k = x - q
    BY <2>3
  <2>5. PICK newest \in Nat : newest = h + (j - len)
    OBVIOUS
  <2>6. h + (d - c) + (k - 1) * d = newest
    <3>1. PICK m \in Nat : m = (k - 1) * d
      <4>1. PICK k1 \in Nat : k1 = k - 1
        OBVIOUS
      <4> QED
        BY <4>1, Times
    <3> QED
      BY <2>3, <2>4, <2>5, <3>1
  <2>7. w[k] = Gpu!Taps(s.geo, line, newest)
    BY <1>17, <2>6
  <2>8. {v \in w[k] : v[1] >= 0}
          = {<<tap, IF newest > tap THEN line[newest - tap] ELSE 0>> : tap \in 0 .. taps - 1}
    <3>1. Geo(s.geo)
      BY DEF StateIs
    <3>2. WholeFilter(Gpu!Taps(s.geo, line, newest), s.geo, line, newest)
      BY <3>1, TapsAre
    <3> QED
      BY <1>1, <2>7, <3>2 DEF WholeFilter
  <2>9. ASSUME NEW tap \in 0 .. taps - 1
        PROVE  (IF newest > tap THEN line[newest - tap] ELSE 0) = (IF j > tap THEN now[j - tap] ELSE 0)
    <3>1. CASE newest > tap
      <4>1. newest - tap \in 1 .. h + n /\ len - h + (newest - tap) = j - tap /\ j > tap
        BY <1>8, <2>5, <3>1
      <4> QED
        BY <1>16, <3>1, <4>1
    <3>2. CASE ~(newest > tap)
      <4>1. h = len /\ newest = j
        BY <1>2, <1>8, <2>5, <3>2
      <4> QED
        BY <3>2, <4>1
    <3> QED
      BY <3>1, <3>2
  <2>10. Gpu!Whole(t, j) = {<<tap, IF j > tap THEN now[j - tap] ELSE 0>> : tap \in 0 .. taps - 1}
    BY <1>1, <1>18 DEF Gpu!Whole
  <2> QED
    BY <2>1, <2>4, <2>8, <2>9, <2>10
<1>24. Gpu!Shown(w, t, n)
  <2>1. PICK total \in Nat : total = len + n /\ Len(t.all) = total /\ t.geo.decim = d
    BY <1>1, <1>15, <1>18
  <2>2. total - n = len
    BY <2>1
  <2>3. Gpu!Shown(w, t, n) = /\ Len(w) = total \div d - q
                             /\ \A j \in len + 1 .. total : j % d = 0 =>
                                  {v \in w[j \div d - q] : v[1] >= 0} = Gpu!Whole(t, j)
    BY <1>5, <2>1, <2>2 DEF Gpu!Shown
  <2>4. Len(w) = p
    BY <1>17
  <2>5. total \div d - q = p
    BY <1>19, <2>1
  <2> QED
    BY <1>23, <2>1, <2>3, <2>4, <2>5
<1> QED
  BY <1>18, <1>21, <1>22, <1>24

(* A state is right; and the samples of it are the last of so many, if none is   *)
(* missing.                                                                  *)
Right(s, n, gaps) == StateIs(s) /\ (~gaps => UpTo(s, n))

(* Jobs have filters, and frames lengths.                                      *)
JobsSized == Blocks \subseteq Nat /\ \A jobs \in Jobs : \A id \in DOMAIN jobs : Geo(jobs[id].geo)

(* The invariant: the states on both sides are right, and the outputs.          *)
CutsInv ==
  /\ fed \in Nat
  /\ \A id \in DOMAIN host : Right(host[id], fed, holes)
  /\ \A id \in DOMAIN dev : Right(dev[id], fed, holes)
  /\ Gpu!CutsDoNotShow

(* A state begins right.                                                      *)
LEMMA FreshIs ==
  ASSUME NEW geo, Geo(geo), NEW n, NEW gaps
  PROVE  Right(Gpu!Fresh(geo), n, gaps)
<1>1. PICK s : s = Gpu!Fresh(geo)
  OBVIOUS
<1>2. s.geo = geo /\ s.count = 0 /\ s.hist = <<>> /\ s.all = <<>>
  BY <1>1 DEF Gpu!Fresh
<1>3. PICK d \in Nat \ {0}, keep \in Nat : d = geo.decim /\ keep = geo.taps - 1
  BY DEF Geo
<1>4. 0 % d = 0
  <2>1. d * 0 = 0
    OBVIOUS
  <2>2. 0 = d * 0 + 0
    BY <2>1
  <2> QED
    BY <2>2, DividesSo
<1>5. Gpu!Newest(<<>>, keep) = <<>>
  <2>1. <<>> \in Seq(Nat) /\ Len(<<>>) = 0
    OBVIOUS
  <2>2. EndOf(Gpu!Newest(<<>>, keep), <<>>, Lesser(keep, Len(<<>>)))
    BY <2>1, NewestIs
  <2>3. Lesser(keep, Len(<<>>)) = 0
    BY <2>1 DEF Lesser
  <2> QED
    BY <2>2, <2>3 DEF EndOf
<1>6. StateIs(s)
  BY <1>2, <1>3, <1>4, <1>5 DEF StateIs
<1>7. UpTo(s, n)
  BY <1>2 DEF UpTo
<1> QED
  BY <1>1, <1>6, <1>7 DEF Right

(* And stays so with another filter of the same shape.                         *)
LEMMA WithTapsIs ==
  ASSUME NEW s, NEW band, NEW n, NEW gaps, Right(s, n, gaps)
  PROVE  Right(Gpu!WithTaps(s, band), n, gaps)
<1>1. PICK t : t = Gpu!WithTaps(s, band)
  OBVIOUS
<1>2. t.geo = s.geo /\ t.count = s.count /\ t.hist = s.hist /\ t.all = s.all
  BY <1>1 DEF Gpu!WithTaps
<1>3. StateIs(t)
  BY <1>2 DEF Right, StateIs
<1>4. ASSUME UpTo(s, n) PROVE UpTo(t, n)
  BY <1>2, <1>4 DEF UpTo
<1> QED
  BY <1>1, <1>3, <1>4 DEF Right

(* The states a frame begins with are right.                                   *)
LEMMA PreparedIs ==
  ASSUME CutsInv, NEW id, NEW job, Geo(job.geo)
  PROVE  Right(Gpu!HostState(id, job), fed, holes) /\ Right(Gpu!DeviceState(id, job), fed, holes)
<1>1. Right(Gpu!Fresh(job.geo), fed, holes)
  BY FreshIs
<1>2. Right(Gpu!HostState(id, job), fed, holes)
  <2>1. PICK s : s = IF id \in DOMAIN host /\ host[id].geo = job.geo THEN host[id] ELSE Gpu!Fresh(job.geo)
    OBVIOUS
  <2>2. Right(s, fed, holes)
    BY <1>1, <2>1 DEF CutsInv
  <2>3. Right(Gpu!WithTaps(s, job.band), fed, holes)
    BY <2>2, WithTapsIs
  <2> QED
    BY <2>1, <2>3 DEF Gpu!HostState
<1> QED
  BY <1>2 DEF CutsInv, Gpu!DeviceState

(* And what it ends with.                                                     *)
LEMMA GoesOn ==
  ASSUME fed \in Nat, NEW s, NEW n \in Nat, Right(s, fed, holes)
  PROVE  /\ Right(Gpu!Launch(s, n).state, fed + n, holes)
         /\ Gpu!Shown(Gpu!Launch(s, n).windows, Gpu!Launch(s, n).state, n)
<1>1. PICK t : t = Gpu!Launch(s, n).state
  OBVIOUS
<1>2. PICK w : w = Gpu!Launch(s, n).windows
  OBVIOUS
<1>3. StateIs(s)
  BY DEF Right
<1>4. /\ StateIs(t) /\ t.geo = s.geo /\ t.taps = s.taps
      /\ UpTo(s, fed) => UpTo(t, fed + n)
      /\ Gpu!Shown(w, t, n)
  BY <1>1, <1>2, <1>3, LaunchIs
<1> QED
  BY <1>1, <1>2, <1>4 DEF Right

(* It begins so.                                                              *)
LEMMA CutsStart == Gpu!Init => CutsInv
BY DEF Gpu!Init, CutsInv, Gpu!CutsDoNotShow

(* A frame that goes through.                                                  *)
LEMMA ExtractShows ==
  ASSUME JobsSized, CutsInv, NEW jobs \in Jobs, NEW n \in Blocks, Gpu!Extract(jobs, n)
  PROVE  CutsInv'
<1>1. n \in Nat /\ fed \in Nat /\ \A id \in DOMAIN jobs : Geo(jobs[id].geo)
  BY DEF JobsSized, CutsInv
<1>2. PICK run : run = [id \in DOMAIN jobs |-> Gpu!Launch(Gpu!DeviceState(id, jobs[id]), n)]
  OBVIOUS
<1>3. /\ fed' = fed + n /\ holes' = holes
      /\ dev' = [id \in DOMAIN jobs |-> run[id].state]
      /\ host' = [id \in DOMAIN jobs |-> Gpu!WithTaps(run[id].state, jobs[id].band)]
      /\ out' = [id \in DOMAIN jobs |-> [band |-> jobs[id].band, taps |-> run[id].state.taps, n |-> n,
                                         windows |-> run[id].windows]]
  BY <1>2 DEF Gpu!Extract
<1>4. ASSUME NEW id \in DOMAIN jobs
      PROVE  /\ Right(run[id].state, fed + n, holes)
             /\ Right(Gpu!WithTaps(run[id].state, jobs[id].band), fed + n, holes)
             /\ Gpu!Shown(run[id].windows, run[id].state, n)
  <2>1. PICK s : s = Gpu!DeviceState(id, jobs[id])
    OBVIOUS
  <2>2. Right(s, fed, holes)
    BY <1>1, <2>1, PreparedIs
  <2>3. run[id] = Gpu!Launch(s, n)
    BY <1>2, <2>1
  <2>4. /\ Right(Gpu!Launch(s, n).state, fed + n, holes)
        /\ Gpu!Shown(Gpu!Launch(s, n).windows, Gpu!Launch(s, n).state, n)
    BY <1>1, <2>2, GoesOn
  <2>5. Right(run[id].state, fed + n, holes) /\ Gpu!Shown(run[id].windows, run[id].state, n)
    BY <2>3, <2>4
  <2>6. Right(Gpu!WithTaps(run[id].state, jobs[id].band), fed + n, holes)
    BY <2>5, WithTapsIs
  <2> QED
    BY <2>5, <2>6
<1>5. fed' \in Nat
  BY <1>1, <1>3
<1>6. \A id \in DOMAIN host' : Right(host'[id], fed', holes')
  BY <1>3, <1>4
<1>7. \A id \in DOMAIN dev' : Right(dev'[id], fed', holes')
  BY <1>3, <1>4
<1>8. ASSUME NEW id \in DOMAIN out'
      PROVE  /\ Gpu!Shown(out'[id].windows, dev'[id], out'[id].n)
             /\ ~holes' => \A j \in DOMAIN dev'[id].all : dev'[id].all[j] = fed' - Len(dev'[id].all) + j
  <2>1. id \in DOMAIN jobs
    BY <1>3
  <2>2. dev'[id] = run[id].state /\ out'[id].windows = run[id].windows /\ out'[id].n = n
    BY <1>3, <2>1
  <2>3. Gpu!Shown(out'[id].windows, dev'[id], out'[id].n)
    BY <1>4, <2>1, <2>2
  <2>4. ~holes' => UpTo(dev'[id], fed')
    BY <1>3, <1>7, <2>1 DEF Right
  <2> QED
    BY <2>3, <2>4 DEF UpTo
<1>9. Gpu!CutsDoNotShow'
  BY <1>8 DEF Gpu!CutsDoNotShow
<1> QED
  BY <1>5, <1>6, <1>7, <1>9 DEF CutsInv

(* One that fails.                                                            *)
LEMMA FailureShows ==
  ASSUME JobsSized, CutsInv, NEW jobs \in Jobs, NEW n \in Blocks, NEW done, NEW bad, NEW lost \in BOOLEAN,
         Gpu!ExtractFails(jobs, n, done, bad, lost)
  PROVE  CutsInv'
<1>1. n \in Nat /\ fed \in Nat /\ \A id \in DOMAIN jobs : Geo(jobs[id].geo)
  BY DEF JobsSized, CutsInv
<1>2. bad \in DOMAIN jobs /\ done \subseteq DOMAIN jobs \ {bad} /\ fed' = fed + n /\ out' = <<>> /\ holes' = TRUE
  BY DEF Gpu!ExtractFails
<1>3. host' = [id \in DOMAIN jobs |-> Gpu!HostState(id, jobs[id])]
  BY DEF Gpu!ExtractFails
<1>4. PICK ids : ids = done \cup (DOMAIN dev \cap (DOMAIN jobs \ {bad})) \cup (IF lost THEN {} ELSE {bad})
  OBVIOUS
<1>5. dev' = [id \in ids |-> CASE id \in done -> Gpu!Launch(Gpu!DeviceState(id, jobs[id]), n).state
                               [] id = bad    -> Gpu!DeviceState(id, jobs[id])
                               [] OTHER       -> dev[id]]
  BY <1>4 DEF Gpu!ExtractFails
<1>6. ASSUME NEW id \in DOMAIN jobs
      PROVE  /\ StateIs(Gpu!HostState(id, jobs[id])) /\ StateIs(Gpu!DeviceState(id, jobs[id]))
             /\ StateIs(Gpu!Launch(Gpu!DeviceState(id, jobs[id]), n).state)
  <2>1. Right(Gpu!HostState(id, jobs[id]), fed, holes) /\ Right(Gpu!DeviceState(id, jobs[id]), fed, holes)
    BY <1>1, PreparedIs
  <2>2. Right(Gpu!Launch(Gpu!DeviceState(id, jobs[id]), n).state, fed + n, holes)
    BY <1>1, <2>1, GoesOn
  <2> QED
    BY <2>1, <2>2 DEF Right
<1>7. fed' \in Nat
  BY <1>1, <1>2
<1>8. \A id \in DOMAIN host' : Right(host'[id], fed', holes')
  BY <1>2, <1>3, <1>6 DEF Right
<1>9. ASSUME NEW id \in DOMAIN dev' PROVE StateIs(dev'[id])
  <2>1. id \in ids
    BY <1>5
  <2>2. CASE id \in done
    BY <1>2, <1>5, <1>6, <2>1, <2>2
  <2>3. CASE id = bad
    BY <1>2, <1>5, <1>6, <2>1, <2>3
  <2>4. CASE id \notin done /\ id # bad
    <3>1. dev'[id] = dev[id]
      BY <1>5, <2>1, <2>4
    <3>2. id \in DOMAIN dev
      BY <1>4, <2>1, <2>4
    <3> QED
      BY <3>1, <3>2 DEF CutsInv, Right
  <2> QED
    BY <2>2, <2>3, <2>4
<1>10. \A id \in DOMAIN dev' : Right(dev'[id], fed', holes')
  BY <1>2, <1>9 DEF Right
<1>11. Gpu!CutsDoNotShow'
  BY <1>2 DEF Gpu!CutsDoNotShow
<1> QED
  BY <1>7, <1>8, <1>10, <1>11 DEF CutsInv

(* A backlog that is thrown away.                                              *)
LEMMA DropShows ==
  ASSUME JobsSized, CutsInv, NEW n \in Blocks, Gpu!DropIQ(n)
  PROVE  CutsInv'
<1>1. fed' = fed + n /\ holes' = TRUE /\ out' = <<>> /\ host' = host /\ dev' = dev /\ n \in Nat /\ fed \in Nat
  BY DEF Gpu!DropIQ, JobsSized, CutsInv
<1>2. \A id \in DOMAIN host' : Right(host'[id], fed', holes')
  BY <1>1 DEF CutsInv, Right
<1>3. \A id \in DOMAIN dev' : Right(dev'[id], fed', holes')
  BY <1>1 DEF CutsInv, Right
<1>4. Gpu!CutsDoNotShow'
  BY <1>1 DEF Gpu!CutsDoNotShow
<1>5. fed' \in Nat
  BY <1>1
<1> QED
  BY <1>2, <1>3, <1>4, <1>5 DEF CutsInv

(* How the samples are cut into frames never shows in what a signal gets,       *)
(* whichever signals come and go, change their filter or fail.                 *)
THEOREM CutsNeverShow == JobsSized /\ Gpu!Spec => []Gpu!CutsDoNotShow
<1> SUFFICES ASSUME JobsSized PROVE Gpu!Spec => []Gpu!CutsDoNotShow
  OBVIOUS
<1>1. Gpu!Init => CutsInv
  BY CutsStart
<1>2. CutsInv /\ [Gpu!Next]_Gpu!vars => CutsInv'
  <2> SUFFICES ASSUME CutsInv, [Gpu!Next]_Gpu!vars PROVE CutsInv'
    OBVIOUS
  <2>1. CASE Gpu!Next
    <3>1. PICK n \in Blocks :
            \/ \E jobs \in Jobs : Gpu!Extract(jobs, n)
            \/ \E jobs \in Jobs, lost \in BOOLEAN : \E bad \in DOMAIN jobs, done \in SUBSET (DOMAIN jobs) :
                 Gpu!ExtractFails(jobs, n, done, bad, lost)
            \/ Gpu!DropIQ(n)
      BY <2>1 DEF Gpu!Next
    <3>2. CASE \E jobs \in Jobs : Gpu!Extract(jobs, n)
      BY <3>2, ExtractShows
    <3>3. CASE \E jobs \in Jobs, lost \in BOOLEAN : \E bad \in DOMAIN jobs, done \in SUBSET (DOMAIN jobs) :
                 Gpu!ExtractFails(jobs, n, done, bad, lost)
      BY <3>3, FailureShows
    <3>4. CASE Gpu!DropIQ(n)
      BY <3>4, DropShows
    <3> QED
      BY <3>1, <3>2, <3>3, <3>4
  <2>2. CASE UNCHANGED Gpu!vars
    BY <2>2 DEF Gpu!vars, CutsInv, Gpu!CutsDoNotShow
  <2> QED
    BY <2>1, <2>2
<1>3. CutsInv => Gpu!CutsDoNotShow
  BY DEF CutsInv
<1> QED
  BY <1>1, <1>2, <1>3, PTL DEF Gpu!Spec
-----------------------------------------------------------------------------
(* The rate changers are an instance of theirs, with names of its own for what  *)
(* both have.                                                                *)
CONSTANTS Ratios, Factors, Cuts, MaxGiven

VARIABLES up, down, factor, given, calls, aligned, outTime, made, phase, kept

Rate == INSTANCE Resampling
          WITH l <- up, m <- down, fed <- given, out <- made, Blocks <- Cuts, MaxInput <- MaxGiven

(* What the loop does from a place and time on, given what it does from the next. *)
NextOf(s) == <<s[1] + s[2] \div up, s[2] - (s[2] \div up) * up + down>>

Loop(g, s, n) ==
  IF s[1] = n THEN [t |-> s[2], at |-> <<>>]
  ELSE IF s[1] + s[2] \div up > n THEN [t |-> Rate!Short(s[2], n - s[1]), at |-> <<>>]
  ELSE [t |-> g[NextOf(s)].t,
        at |-> <<[arm |-> s[2] - (s[2] \div up) * up, newest |-> given + s[1] + s[2] \div up]>> \o g[NextOf(s)].at]

(* Its places and times, and those of them that are at most k from the last.    *)
Places(n) == (0 .. n) \X (0 .. up + down)
Late(n, k) == {s \in Places(n) : s[1] * up + s[2] + k > n * up + up + down}

(* Where it goes on is later.                                                  *)
LEMMA LaterNext ==
  ASSUME up \in Nat \ {0}, down \in Nat \ {0}, NEW n \in Nat, NEW k \in Nat, NEW s \in Late(n, k + 1),
         ~(s[1] + s[2] \div up > n)
  PROVE  NextOf(s) \in Late(n, k)
<1>1. PICK pos \in 0 .. n, t \in 0 .. up + down : pos = s[1] /\ t = s[2]
  BY DEF Late, Places
<1>2. PICK due \in Nat, arm \in 0 .. up - 1 : due = t \div up /\ arm = t % up /\ t = up * due + arm
  <2>1. t \in Nat
    OBVIOUS
  <2> QED
    BY <2>1, Divides
<1>3. PICK ud \in Nat, up1 \in Nat : ud = up * due /\ ud = due * up /\ up1 = pos * up /\ up1 = up * pos
  BY Times
<1>4. t = ud + arm
  BY <1>2, <1>3
<1>5. PICK there \in 0 .. n : there = pos + due
  <2>1. due = s[2] \div up /\ pos = s[1]
    BY <1>1, <1>2
  <2>2. ~(pos + due > n)
    BY <2>1
  <2> QED
    BY <2>2
<1>6. PICK then \in 0 .. up + down : then = t - ud + down
  BY <1>4
<1>7. NextOf(s) = <<there, then>>
  BY <1>1, <1>2, <1>3, <1>5, <1>6 DEF NextOf
<1>8. there * up = up1 + ud
  <2>1. up * there = up * pos + up * due /\ up * there = there * up
    BY <1>5, Times
  <2> QED
    BY <1>3, <2>1
<1>9. PICK nu \in Nat : nu = n * up
  BY Times
<1>10. up1 + t + (k + 1) > nu + up + down
  BY <1>1, <1>3, <1>9 DEF Late
<1>11. there * up + then + k > nu + up + down
  BY <1>6, <1>8, <1>10
<1> QED
  BY <1>7, <1>9, <1>11 DEF Late, Places

(* So there is a function that does what the loop does.                        *)
LEMMA LoopExists ==
  ASSUME up \in Nat \ {0}, down \in Nat \ {0}, NEW n \in Nat
  PROVE  \E g : g = [s \in Places(n) |-> Loop(g, s, n)]
<1> DEFINE Is(g, k) == g = [s \in Late(n, k) |-> Loop(g, s, n)]
           good == {k \in Nat : \E g : Is(g, k)}
<1>1. PICK top \in Nat : top = n * up + up + down
  <2>1. n * up \in Nat
    BY Times
  <2> QED
    BY <2>1
<1>2. ASSUME NEW s \in Places(n) PROVE s[1] * up + s[2] \in 0 .. top
  <2>1. PICK pos \in 0 .. n, t \in 0 .. up + down : pos = s[1] /\ t = s[2]
    BY DEF Places
  <2>2. PICK pu \in Nat, nu \in Nat : pu = up * pos /\ pu = pos * up /\ nu = up * n /\ nu = n * up
    BY Times
  <2>3. pu <= nu
    <3>1. CASE pos < n
      BY <2>2, <3>1, TimesMore
    <3>2. CASE pos = n
      BY <2>2, <3>2
    <3> QED
      BY <3>1, <3>2
  <2>4. top = nu + up + down
    BY <1>1, <2>2
  <2>5. pu + t \in 0 .. top
    BY <2>3, <2>4
  <2> QED
    BY <2>1, <2>2, <2>5
<1>3. 0 \in good
  <2>1. Late(n, 0) = {}
    BY <1>1, <1>2 DEF Late
  <2> DEFINE none == [s \in {} |-> 0]
  <2>2. none = [s \in Late(n, 0) |-> Loop(none, s, n)]
    BY <2>1
  <2> HIDE DEF none
  <2> QED
    BY <2>2
<1>4. ASSUME NEW k \in Nat, k \in good PROVE k + 1 \in good
  <2>1. PICK g : Is(g, k)
    BY <1>4
  <2>2. PICK more : more = [s \in Late(n, k + 1) |-> Loop(g, s, n)]
    OBVIOUS
  <2>3. Late(n, k) \subseteq Late(n, k + 1)
    <3>1. ASSUME NEW s \in Places(n), s[1] * up + s[2] + k > top PROVE s[1] * up + s[2] + (k + 1) > top
      BY <1>2, <3>1
    <3> QED
      BY <1>1, <3>1 DEF Late
  <2>4. \A s \in Late(n, k) : more[s] = g[s]
    BY <2>1, <2>2, <2>3
  <2>5. ASSUME NEW s \in Late(n, k + 1) PROVE Loop(g, s, n) = Loop(more, s, n)
    <3>1. CASE s[1] + s[2] \div up > n
      BY <3>1 DEF Loop
    <3>2. CASE ~(s[1] + s[2] \div up > n)
      <4>1. NextOf(s) \in Late(n, k)
        BY <3>2, LaterNext
      <4>2. more[NextOf(s)] = g[NextOf(s)]
        BY <2>4, <4>1
      <4> QED
        BY <4>2 DEF Loop
    <3> QED
      BY <3>1, <3>2
  <2>6. more = [s \in Late(n, k + 1) |-> Loop(more, s, n)]
    BY <2>2, <2>5
  <2> QED
    BY <2>6
<1>5. top + 1 \in good
  <2> HIDE DEF good
  <2>1. PICK end \in Nat : end = top + 1
    OBVIOUS
  <2>2. \A k \in 0 .. end : k \in good
    BY <1>3, <1>4, Induction
  <2> QED
    BY <2>1, <2>2
<1>6. Late(n, top + 1) = Places(n)
  <2>1. ASSUME NEW s \in Places(n) PROVE s[1] * up + s[2] + (top + 1) > top
    BY <1>2
  <2> QED
    BY <1>1, <2>1 DEF Late
<1> QED
  BY <1>5, <1>6

(* The time of a place.                                                       *)
Time(s) == s[1] * up + s[2]

(* An output of the time T: its arm, and the sample of the block it ends with.  *)
Emitted(x, T, n) ==
  \E q \in 0 .. n, a \in 0 .. up - 1 : T = up * q + a /\ x = [arm |-> a, newest |-> given + q]

(* What comes of a block from time T on: an output every down, and a rest, which  *)
(* is a sample too low if the block came to an end between two.                 *)
Gives(r, T, n) ==
  /\ r.t \in 0 .. up + down
  /\ r.at \in Seq([arm : Nat, newest : Nat])
  /\ \A i \in 1 .. Len(r.at) : Emitted(r.at[i], T + (i - 1) * down, n)
  /\ \E e \in {0, 1} : r.t + n * up + e * up = T + Len(r.at) * down

(* Block and time are multiples of down, and the last output was in the block.   *)
Even(s, n) ==
  /\ \E a, b \in Nat : Time(s) = down * a /\ n * up = down * b
  /\ s[1] < n => Time(s) < n * up + down
  /\ s[1] = n => s[2] = down

(* Then none is too low.                                                      *)
GivesEvenly(s, r, n) ==
  Even(s, n) => r.t = down /\ r.t + n * up = Time(s) + Len(r.at) * down

(* Multiples are apart by what they are multiples of.                           *)
LEMMA Multiples ==
  ASSUME NEW d \in Nat \ {0}, NEW a \in Nat, NEW b \in Nat, d * a < d * b + d
  PROVE  d * a <= d * b
<1>1. CASE a <= b
  <2>1. CASE a = b
    BY <2>1
  <2>2. CASE a < b
    BY <2>2, TimesMore
  <2> QED
    BY <1>1, <2>1, <2>2
<1>2. CASE b < a
  <2>1. d * b + d <= d * a /\ d * a \in Nat /\ d * b \in Nat
    BY <1>2, TimesMore
  <2> QED
    BY <2>1
<1> QED
  BY <1>1, <1>2

(* The loop ends with the block.                                               *)
LEMMA EndGives ==
  ASSUME up \in Nat \ {0}, down \in Nat \ {0}, NEW n \in Nat, NEW g, NEW s \in Places(n), s[1] = n
  PROVE  Gives(Loop(g, s, n), Time(s), n) /\ GivesEvenly(s, Loop(g, s, n), n)
<1>1. PICK t \in 0 .. up + down : t = s[2]
  BY DEF Places
<1>2. PICK r : r = Loop(g, s, n)
  OBVIOUS
<1>3. r.t = t /\ r.at = <<>>
  BY <1>1, <1>2 DEF Loop
<1>4. PICK nu \in Nat : nu = n * up
  BY Times
<1>5. PICK T \in Nat : T = nu + t /\ T = Time(s)
  BY <1>1, <1>4 DEF Time
<1>6. Len(r.at) = 0 /\ r.at \in Seq([arm : Nat, newest : Nat]) /\ 0 * down = 0 /\ 0 * up = 0
  BY <1>3
<1>7. r.t + n * up + 0 * up = T + Len(r.at) * down
  BY <1>3, <1>4, <1>5, <1>6
<1>8. Gives(r, T, n)
  BY <1>3, <1>6, <1>7 DEF Gives
<1>9. GivesEvenly(s, r, n)
  BY <1>1, <1>3, <1>4, <1>5, <1>6 DEF GivesEvenly, Even
<1> QED
  BY <1>2, <1>5, <1>8, <1>9

(* It ends between two samples.                                                *)
LEMMA ShortGives ==
  ASSUME up \in Nat \ {0}, down \in Nat \ {0}, NEW n \in Nat, NEW g, NEW s \in Places(n), s[1] # n,
         s[1] + s[2] \div up > n
  PROVE  Gives(Loop(g, s, n), Time(s), n) /\ GivesEvenly(s, Loop(g, s, n), n)
<1>1. PICK pos \in 0 .. n, t \in 0 .. up + down : pos = s[1] /\ t = s[2]
  BY DEF Places
<1>2. PICK due \in Nat, arm \in 0 .. up - 1 : due = t \div up /\ arm = t % up /\ t = up * due + arm
  <2>1. t \in Nat
    OBVIOUS
  <2> QED
    BY <2>1, Divides
<1>3. PICK x \in Nat : x = n - pos /\ n = pos + x
  OBVIOUS
<1>4. PICK y \in Nat : y = x + 1
  OBVIOUS
<1>5. PICK pu \in Nat, xu \in Nat, ud \in Nat, nu \in Nat, yu \in Nat :
        /\ pu = up * pos /\ pu = pos * up /\ xu = up * x /\ xu = x * up /\ ud = up * due
        /\ nu = up * n /\ nu = n * up /\ yu = up * y /\ yu = y * up
  BY Times
<1>6. nu = pu + xu
  BY <1>3, <1>5, Times
<1>7. yu = xu + up
  <2>1. up * (x + 1) = up * x + up * 1 /\ up * 1 = up
    BY Times
  <2> QED
    BY <1>4, <1>5, <2>1
<1>8. yu <= ud
  <2>1. due = s[2] \div up /\ pos = s[1]
    BY <1>1, <1>2
  <2>2. pos + due > n
    BY <2>1
  <2>3. y <= due
    BY <1>3, <1>4, <2>2
  <2>4. CASE y < due
    BY <1>4, <1>5, <2>4, TimesMore
  <2>5. CASE y = due
    BY <1>5, <2>5
  <2> QED
    BY <1>4, <2>3, <2>4, <2>5
<1>9. t = ud + arm
  BY <1>2, <1>5
<1>10. PICK r : r = Loop(g, s, n)
  OBVIOUS
<1>11. r.t = t - yu /\ r.at = <<>>
  <2>1. r = [t |-> Rate!Short(s[2], n - s[1]), at |-> <<>>]
    BY <1>10 DEF Loop
  <2>2. Rate!Short(t, x) = t - (x + 1) * up
    BY DEF Rate!Short
  <2>3. (x + 1) * up = yu
    BY <1>4, <1>5
  <2>4. Rate!Short(t, x) = t - yu
    BY <2>2, <2>3
  <2>5. n - s[1] = x /\ s[2] = t
    BY <1>1, <1>3
  <2> QED
    BY <2>1, <2>4, <2>5
<1>12. r.t \in 0 .. up + down
  BY <1>8, <1>9, <1>11
<1>13. PICK T \in Nat : T = pu + t /\ T = Time(s)
  BY <1>1, <1>5 DEF Time
<1>14. Len(r.at) = 0 /\ r.at \in Seq([arm : Nat, newest : Nat]) /\ 0 * down = 0 /\ 1 * up = up
  BY <1>11
<1>15. r.t + nu + up = T
  BY <1>6, <1>7, <1>11, <1>13
<1>16. r.t + n * up + 1 * up = T + Len(r.at) * down
  BY <1>5, <1>14, <1>15, <1>12
<1>17. Gives(r, T, n)
  BY <1>12, <1>14, <1>16 DEF Gives
<1>18. ~Even(s, n)
  <2> SUFFICES ASSUME Even(s, n) PROVE FALSE
    OBVIOUS
  <2>1. PICK a \in Nat, b \in Nat : T = down * a /\ nu = down * b
    BY <1>5, <1>13 DEF Even
  <2>2. T < nu + down
    BY <1>1, <1>5, <1>13 DEF Even
  <2>3. T <= nu
    <3>1. down * a < down * b + down
      BY <2>1, <2>2
    <3>2. down * a <= down * b
      BY <3>1, Multiples
    <3> QED
      BY <2>1, <3>2
  <2> QED
    BY <1>12, <1>15, <2>3
<1> QED
  BY <1>10, <1>13, <1>17, <1>18 DEF GivesEvenly

(* It goes on after an output.                                                 *)
LEMMA OutputGives ==
  ASSUME up \in Nat \ {0}, down \in Nat \ {0}, given \in Nat, NEW n \in Nat, NEW g, NEW s \in Places(n), s[1] # n,
         ~(s[1] + s[2] \div up > n),
         Gives(g[NextOf(s)], Time(NextOf(s)), n), GivesEvenly(NextOf(s), g[NextOf(s)], n)
  PROVE  Gives(Loop(g, s, n), Time(s), n) /\ GivesEvenly(s, Loop(g, s, n), n)
<1>1. PICK pos \in 0 .. n, t \in 0 .. up + down : pos = s[1] /\ t = s[2]
  BY DEF Places
<1>2. PICK due \in Nat, arm \in 0 .. up - 1 : due = t \div up /\ arm = t % up /\ t = up * due + arm
  <2>1. t \in Nat
    OBVIOUS
  <2> QED
    BY <2>1, Divides
<1>3. PICK there \in 0 .. n : there = pos + due
  <2>1. due = s[2] \div up /\ pos = s[1]
    BY <1>1, <1>2
  <2>2. ~(pos + due > n)
    BY <2>1
  <2> QED
    BY <2>2
<1>4. PICK pu \in Nat, ud \in Nat, nu \in Nat, tu \in Nat :
        /\ pu = up * pos /\ pu = pos * up /\ ud = up * due /\ ud = due * up
        /\ nu = up * n /\ nu = n * up /\ tu = up * there /\ tu = there * up
  BY Times
<1>5. t = ud + arm /\ tu = pu + ud
  BY <1>2, <1>3, <1>4, Times
<1>6. PICK then \in 0 .. up + down : then = arm + down /\ then = t - ud + down
  BY <1>5
<1>7. NextOf(s) = <<there, then>>
  BY <1>1, <1>2, <1>3, <1>4, <1>6 DEF NextOf
<1>8. PICK T \in Nat : T = pu + t /\ T = Time(s) /\ T = tu + arm
  <2>1. PICK y \in Nat : y = pu + t
    OBVIOUS
  <2>2. y = Time(s)
    BY <1>1, <1>4, <2>1 DEF Time
  <2>3. y = tu + arm
    BY ONLY <1>5, <2>1, pu \in Nat, ud \in Nat, t \in Int, arm \in Int
  <2> QED
    BY <2>1, <2>2, <2>3
<1>9. PICK T2 \in Nat : T2 = T + down /\ T2 = Time(NextOf(s)) /\ T2 = tu + then
  BY <1>4, <1>6, <1>7, <1>8 DEF Time
<1>10. PICK rest : rest = g[NextOf(s)]
  OBVIOUS
<1>11. PICK r : r = Loop(g, s, n)
  OBVIOUS
<1>12. PICK x \in [arm : Nat, newest : Nat] : x = [arm |-> arm, newest |-> given + there]
  <2>1. PICK y \in Nat : y = given + there
    OBVIOUS
  <2>2. arm \in Nat
    OBVIOUS
  <2>3. [arm |-> arm, newest |-> y] \in [arm : Nat, newest : Nat]
    BY <2>2
  <2> QED
    BY <2>1, <2>3
<1>13. r.t = rest.t /\ r.at = <<x>> \o rest.at
  <2>1. s[2] - (s[2] \div up) * up = arm
    BY <1>1, <1>2, <1>4, <1>5
  <2>2. given + s[1] + s[2] \div up = given + there
    <3>1. s[1] = pos /\ s[2] \div up = due
      BY <1>1, <1>2
    <3>2. given + pos + due = given + there
      BY <1>3
    <3> QED
      BY <3>1, <3>2
  <2>3. r = [t |-> g[NextOf(s)].t,
             at |-> <<[arm |-> s[2] - (s[2] \div up) * up, newest |-> given + s[1] + s[2] \div up]>> \o g[NextOf(s)].at]
    BY <1>11 DEF Loop
  <2> QED
    BY <1>10, <1>12, <2>1, <2>2, <2>3
<1>14. /\ rest.t \in 0 .. up + down /\ rest.at \in Seq([arm : Nat, newest : Nat])
       /\ \A i \in 1 .. Len(rest.at) : Emitted(rest.at[i], T2 + (i - 1) * down, n)
       /\ \E e \in {0, 1} : rest.t + n * up + e * up = T2 + Len(rest.at) * down
  BY <1>9, <1>10 DEF Gives
<1>15. PICK c \in Nat : c = Len(rest.at)
  BY <1>14
<1>16. /\ r.at \in Seq([arm : Nat, newest : Nat]) /\ Len(r.at) = c + 1 /\ r.at[1] = x
       /\ \A i \in 2 .. c + 1 : r.at[i] = rest.at[i - 1]
  <2>1. <<x>> \in Seq([arm : Nat, newest : Nat]) /\ Len(<<x>>) = 1 /\ <<x>>[1] = x
    OBVIOUS
  <2> QED
    BY <1>13, <1>14, <1>15, <2>1
<1>17. Emitted(x, T, n)
  BY <1>4, <1>8, <1>12 DEF Emitted
<1>18. PICK cd \in Nat, cd1 \in Nat : cd = c * down /\ cd1 = (c + 1) * down /\ cd1 = cd + down
  <2>1. PICK c1 \in Nat : c1 = c + 1
    OBVIOUS
  <2>2. PICK u \in Nat, v \in Nat : u = down * c /\ v = down * c1 /\ u = c * down /\ v = c1 * down
    BY Times
  <2>3. down * (c + 1) = down * c + down * 1 /\ down * 1 = down
    BY Times
  <2> QED
    BY <2>1, <2>2, <2>3
<1>19. ASSUME NEW i \in 1 .. c + 1 PROVE Emitted(r.at[i], T + (i - 1) * down, n)
  <2>1. CASE i = 1
    <3>1. (1 - 1) * down = 0
      OBVIOUS
    <3>2. T + (i - 1) * down = T
      BY <2>1, <3>1
    <3> QED
      BY <1>16, <1>17, <2>1, <3>2
  <2>2. CASE i \in 2 .. c + 1
    <3>1. PICK j \in 1 .. c : j = i - 1
      BY <2>2
    <3>2. PICK j1 \in Nat : j1 = j - 1 /\ j = j1 + 1
      OBVIOUS
    <3>3. PICK u \in Nat, v \in Nat : u = down * j1 /\ v = down * j /\ u = j1 * down /\ v = j * down
      BY Times
    <3>4. v = u + down
      <4>1. down * (j1 + 1) = down * j1 + down * 1 /\ down * 1 = down
        BY Times
      <4> QED
        BY <3>2, <3>3, <4>1
    <3>5. T + (i - 1) * down = T2 + (j - 1) * down
      BY <1>9, <3>1, <3>2, <3>3, <3>4
    <3>6. Emitted(rest.at[j], T2 + (j - 1) * down, n)
      BY <1>14, <1>15
    <3>7. r.at[i] = rest.at[j]
      BY <1>16, <2>2, <3>1
    <3> QED
      BY <3>5, <3>6, <3>7
  <2> QED
    BY <2>1, <2>2
<1>20. PICK e \in {0, 1} : rest.t + n * up + e * up = T2 + Len(rest.at) * down
  BY <1>14
<1>21. r.t + n * up + e * up = T + Len(r.at) * down
  <2>1. PICK eu \in Nat : eu = e * up
    BY Times
  <2>2. rest.t + nu + eu = T2 + cd
    BY <1>4, <1>15, <1>18, <1>20, <2>1
  <2>3. r.t + nu + eu = T + cd1
    BY <1>9, <1>13, <1>14, <1>18, <2>2
  <2> QED
    BY <1>4, <1>16, <1>18, <2>1, <2>3
<1>22. Gives(r, T, n)
  BY <1>13, <1>14, <1>16, <1>19, <1>21 DEF Gives
<1>23. ASSUME Even(s, n) PROVE Even(NextOf(s), n)
  <2>1. PICK a \in Nat, b \in Nat : T = down * a /\ nu = down * b
    BY <1>4, <1>8, <1>23 DEF Even
  <2>2. T < nu + down
    BY <1>1, <1>4, <1>8, <1>23 DEF Even
  <2>3. T <= nu
    <3>1. down * a < down * b + down
      BY <2>1, <2>2
    <3>2. down * a <= down * b
      BY <3>1, Multiples
    <3> QED
      BY <2>1, <3>2
  <2>4. T2 = down * (a + 1)
    <3>1. down * (a + 1) = down * a + down * 1 /\ down * 1 = down
      BY Times
    <3> QED
      BY <1>9, <2>1, <3>1
  <2>5. there < n => T2 < nu + down
    <3> SUFFICES ASSUME there < n PROVE T2 < nu + down
      OBVIOUS
    <3>1. tu + up <= nu
      BY <1>4, TimesMore
    <3> QED
      BY <1>8, <1>9, <3>1
  <2>6. there = n => then = down
    <3> SUFFICES ASSUME there = n PROVE then = down
      OBVIOUS
    <3>1. tu = nu
      BY <1>4
    <3> QED
      BY <1>6, <1>8, <2>3, <3>1
  <2>7. Time(NextOf(s)) = down * (a + 1) /\ n * up = down * b /\ a + 1 \in Nat
    BY <1>4, <1>9, <2>1, <2>4
  <2>8. NextOf(s)[1] = there /\ NextOf(s)[2] = then
    BY <1>7
  <2>9. NextOf(s)[1] < n => Time(NextOf(s)) < n * up + down
    BY <1>4, <1>9, <2>5, <2>8
  <2> QED
    BY <2>6, <2>7, <2>8, <2>9 DEF Even
<1>24. GivesEvenly(s, r, n)
  <2> SUFFICES ASSUME Even(s, n) PROVE r.t = down /\ r.t + n * up = Time(s) + Len(r.at) * down
    BY DEF GivesEvenly
  <2>1. rest.t = down /\ rest.t + n * up = T2 + Len(rest.at) * down
    BY <1>9, <1>10, <1>23 DEF GivesEvenly
  <2>2. rest.t + nu = T2 + cd
    BY <1>4, <1>15, <1>18, <2>1
  <2>3. r.t + nu = T + cd1
    BY <1>9, <1>13, <1>14, <1>18, <2>2
  <2>4. r.t + n * up = Time(s) + Len(r.at) * down
    BY <1>4, <1>8, <1>16, <1>18, <2>3
  <2> QED
    BY <1>13, <2>1, <2>4
<1> QED
  BY <1>8, <1>11, <1>22, <1>24

(* So from every place and time.                                               *)
LEMMA LoopGives ==
  ASSUME up \in Nat \ {0}, down \in Nat \ {0}, given \in Nat, NEW n \in Nat,
         NEW g, g = [s \in Places(n) |-> Loop(g, s, n)], NEW s0 \in Places(n)
  PROVE  Gives(g[s0], Time(s0), n) /\ GivesEvenly(s0, g[s0], n)
<1> DEFINE Fine(s) == Gives(g[s], Time(s), n) /\ GivesEvenly(s, g[s], n)
           good == {k \in Nat : \A s \in Late(n, k) : Fine(s)}
<1>1. PICK top \in Nat : top = n * up + up + down
  <2>1. n * up \in Nat
    BY Times
  <2> QED
    BY <2>1
<1>2. ASSUME NEW s \in Places(n) PROVE Time(s) \in 0 .. top
  <2>1. PICK pos \in 0 .. n, t \in 0 .. up + down : pos = s[1] /\ t = s[2]
    BY DEF Places
  <2>2. PICK pu \in Nat, nu \in Nat : pu = up * pos /\ pu = pos * up /\ nu = up * n /\ nu = n * up
    BY Times
  <2>3. pu <= nu
    <3>1. CASE pos < n
      BY <2>2, <3>1, TimesMore
    <3>2. CASE pos = n
      BY <2>2, <3>2
    <3> QED
      BY <3>1, <3>2
  <2>4. top = nu + up + down
    BY <1>1, <2>2
  <2>5. pu + t \in 0 .. top
    BY <2>3, <2>4
  <2> QED
    BY <2>1, <2>2, <2>5 DEF Time
<1>3. 0 \in good
  <2>1. Late(n, 0) = {}
    BY <1>1, <1>2 DEF Late, Time
  <2> HIDE DEF Fine
  <2> QED
    BY <2>1
<1>4. ASSUME NEW k \in Nat, k \in good PROVE k + 1 \in good
  <2>1. ASSUME NEW s \in Late(n, k + 1) PROVE Fine(s)
    <3>1. s \in Places(n)
      BY DEF Late
    <3>2. g[s] = Loop(g, s, n)
      BY <3>1
    <3>3. CASE s[1] = n
      BY <3>1, <3>2, <3>3, EndGives
    <3>4. CASE s[1] # n /\ s[1] + s[2] \div up > n
      BY <3>1, <3>2, <3>4, ShortGives
    <3>5. CASE s[1] # n /\ ~(s[1] + s[2] \div up > n)
      <4>1. NextOf(s) \in Late(n, k)
        BY <3>5, LaterNext
      <4>2. Gives(g[NextOf(s)], Time(NextOf(s)), n) /\ GivesEvenly(NextOf(s), g[NextOf(s)], n)
        BY <1>4, <4>1
      <4> QED
        BY <3>1, <3>2, <3>5, <4>2, OutputGives
    <3> QED
      BY <3>3, <3>4, <3>5
  <2> HIDE DEF Fine
  <2> QED
    BY <2>1
<1>5. top + 1 \in good
  <2> HIDE DEF good
  <2>1. PICK end \in Nat : end = top + 1
    OBVIOUS
  <2>2. \A k \in 0 .. end : k \in good
    BY <1>3, <1>4, Induction
  <2> QED
    BY <2>1, <2>2
<1>6. s0 \in Late(n, top + 1)
  <2>1. Time(s0) + (top + 1) > top
    BY <1>1, <1>2
  <2> QED
    BY <1>1, <2>1 DEF Late, Time
<1> QED
  BY <1>5, <1>6

(* What a block makes.                                                        *)
LEMMA OutputsAre ==
  ASSUME up \in Nat \ {0}, down \in Nat \ {0}, given \in Nat, NEW n \in Nat, outTime \in 0 .. up + down
  PROVE  Gives(Rate!Outputs(n), outTime, n) /\ GivesEvenly(<<0, outTime>>, Rate!Outputs(n), n)
<1> DEFINE Is(g) == g = [s \in Places(n) |-> Loop(g, s, n)]
<1>1. \E g : Is(g)
  BY LoopExists
<1>2. PICK g : g = CHOOSE f : Is(f)
  OBVIOUS
<1>3. Is(g)
  <2> HIDE DEF Is
  <2> QED
    BY <1>1, <1>2
<1>4. Rate!Outputs(n) = g[<<0, outTime>>]
  BY <1>2 DEF Rate!Outputs, Loop, NextOf, Places
<1>5. <<0, outTime>> \in Places(n)
  BY DEF Places
<1>6. Time(<<0, outTime>>) = outTime
  <2>1. 0 * up = 0
    OBVIOUS
  <2> QED
    BY <2>1 DEF Time
<1>7. Gives(g[<<0, outTime>>], Time(<<0, outTime>>), n) /\ GivesEvenly(<<0, outTime>>, g[<<0, outTime>>], n)
  <2> HIDE DEF Is
  <2>1. g = [s \in Places(n) |-> Loop(g, s, n)]
    BY <1>3 DEF Is
  <2> QED
    BY <1>5, <2>1, LoopGives
<1> QED
  BY <1>4, <1>6, <1>7

(* A block without samples makes nothing.                                      *)
LEMMA OutputsOfNone ==
  ASSUME up \in Nat \ {0}, down \in Nat \ {0}, given \in Nat, NEW n, n = 0, outTime \in 0 .. up + down
  PROVE  Rate!Outputs(n) = [t |-> outTime, at |-> <<>>]
<1> DEFINE Is(g) == g = [s \in Places(n) |-> Loop(g, s, n)]
<1>1. \E g : Is(g)
  <2>1. n \in Nat
    OBVIOUS
  <2> QED
    BY <2>1, LoopExists
<1>2. PICK g : g = CHOOSE f : Is(f)
  OBVIOUS
<1>3. Is(g)
  <2> HIDE DEF Is
  <2> QED
    BY <1>1, <1>2
<1>4. Rate!Outputs(n) = g[<<0, outTime>>]
  BY <1>2 DEF Rate!Outputs, Loop, NextOf, Places
<1>5. <<0, outTime>> \in Places(n)
  BY DEF Places
<1>6. g[<<0, outTime>>] = Loop(g, <<0, outTime>>, n)
  BY <1>3, <1>5
<1> QED
  BY <1>4, <1>6 DEF Loop

(* The ratios of rate changers, and the lengths of blocks.                      *)
RatesSized ==
  /\ \A r \in Ratios : r[1] \in Nat \ {0} /\ r[2] \in Nat \ {0}
  /\ Factors \subseteq Nat \ {0} /\ Cuts \subseteq Nat

(* How early outputs may be that are yet to come, and those that there are.      *)
Early  == IF aligned THEN 0 ELSE calls
Sooner == IF aligned THEN 0 ELSE calls - 1

(* The kth output, from 1: its arm is exact, its sample as early as it may be.   *)
NearlyExact(x, k) ==
  \E q \in Nat, a \in 0 .. up - 1, e \in 0 .. Sooner :
    (k - 1) * down = up * (q + e) + a /\ x = [arm |-> a, newest |-> q]

(* The invariant of the resampler.  The time of the next output is that of its    *)
(* number but for whole samples, one for every block that ended between two.     *)
RateTypes ==
  /\ up \in Nat \ {0} /\ down \in Nat \ {0} /\ given \in Nat /\ calls \in Nat /\ aligned \in BOOLEAN
  /\ outTime \in 0 .. up + down

MadeRight ==
  /\ made \in Seq([arm : Nat, newest : Nat])
  /\ \E e \in 0 .. Early : Len(made) * down = up * given + outTime + e * up
  /\ \A k \in 1 .. Len(made) : NearlyExact(made[k], k)
  /\ Len(made) > 0 => made[Len(made)].newest <= given
  /\ aligned => outTime = down \/ (outTime = 0 /\ given = 0)
  /\ calls = 0 => Len(made) = 0

(* And of the filter: it is so far from a multiple of the factor.                *)
KeptRight ==
  /\ factor \in Nat \ {0} /\ phase \in 0 .. factor - 1
  /\ \E q \in Nat : given + phase = factor * q /\ kept = [k \in 1 .. q |-> 1 + (k - 1) * factor]

RateInv == RateTypes /\ KeptRight /\ (up # down => MadeRight)

(* It begins so.                                                              *)
LEMMA RateStart == RatesSized /\ Rate!Init => RateInv
<1> SUFFICES ASSUME RatesSized, Rate!Init PROVE RateInv
  OBVIOUS
<1>1. /\ up \in Nat \ {0} /\ down \in Nat \ {0} /\ factor \in Nat \ {0}
      /\ given = 0 /\ calls = 0 /\ aligned = TRUE /\ outTime = 0 /\ made = <<>> /\ phase = 0 /\ kept = <<>>
  BY DEF RatesSized, Rate!Init
<1>2. RateTypes
  BY <1>1 DEF RateTypes
<1>3. KeptRight
  <2>1. factor * 0 = 0
    BY <1>1
  <2>2. given + phase = factor * 0 /\ kept = [k \in 1 .. 0 |-> 1 + (k - 1) * factor]
    BY <1>1, <2>1
  <2> QED
    BY <1>1, <2>2 DEF KeptRight
<1>4. MadeRight
  <2>1. Len(made) = 0 /\ made \in Seq([arm : Nat, newest : Nat])
    BY <1>1
  <2>2. 0 * down = 0 /\ up * 0 = 0 /\ 0 * up = 0
    BY <1>1
  <2>3. 0 \in 0 .. Early /\ Len(made) * down = up * given + outTime + 0 * up
    BY <1>1, <2>1, <2>2 DEF Early
  <2> QED
    BY <1>1, <2>1, <2>3 DEF MadeRight
<1> QED
  BY <1>2, <1>3, <1>4 DEF RateInv

(* A block through the filter.                                                 *)
LEMMA DecimateKeeps ==
  ASSUME KeptRight, given \in Nat, NEW n \in Nat, given' = given + n, factor' = factor, Rate!Decimate(n)
  PROVE  KeptRight'
<1>0. PICK d \in Nat \ {0} : d = factor
  BY DEF KeptRight
<1>1. PICK f \in 0 .. d - 1, q \in Nat :
        d = factor /\ f = phase /\ given + f = d * q /\ kept = [k \in 1 .. q |-> 1 + (k - 1) * d]
  BY <1>0 DEF KeptRight
<1>2. PICK x \in Nat : x = n - f + d - 1
  OBVIOUS
<1>3. PICK a \in Nat, r \in 0 .. d - 1 : a = x \div d /\ r = x % d /\ x = d * a + r
  BY Divides
<1>4. PICK dq \in Nat, da \in Nat : dq = d * q /\ da = d * a
  BY Times
<1>5. PICK p \in 0 .. d - 1 : p = d - 1 - r
  OBVIOUS
<1>6. f - n = p - da
  BY <1>2, <1>3, <1>4, <1>5
<1>7. (f - n) % d = p
  <2>1. (p - da) % d = p
    <3>1. (p - d * a) % d = p
      OBVIOUS
    <3> QED
      BY <1>4, <3>1
  <2> QED
    BY <1>6, <2>1
<1>8. PICK q2 \in Nat : q2 = q + a
  OBVIOUS
<1>9. given' + p = d * q2
  <2>1. d * q2 = dq + da
    BY <1>4, <1>8, Times
  <2>2. given + f = dq
    BY <1>1, <1>4
  <2> QED
    BY <1>6, <2>1, <2>2
<1>10. phase' = p /\ kept' = kept \o [k \in 1 .. a |-> given + f + 1 + (k - 1) * d]
  BY <1>1, <1>2, <1>3, <1>7 DEF Rate!Decimate
<1>11. kept' = [k \in 1 .. q2 |-> 1 + (k - 1) * d]
  <2>1. PICK new : new = [k \in 1 .. a |-> given + f + 1 + (k - 1) * d]
    OBVIOUS
  <2>2. new \in Seq(Int) /\ Len(new) = a /\ kept \in Seq(Int) /\ Len(kept) = q
    BY <1>1, <2>1
  <2>3. /\ DOMAIN (kept \o new) = 1 .. q + a /\ kept \o new \in Seq(Int)
        /\ \A k \in 1 .. q + a : (kept \o new)[k] = IF k <= q THEN kept[k] ELSE new[k - q]
    <3>1. kept \o new \in Seq(Int) /\ Joined(kept \o new, kept, new)
      BY <2>2, Appended
    <3> QED
      BY <2>2, <3>1 DEF Joined
  <2>4. ASSUME NEW k \in 1 .. q2 PROVE (IF k <= q THEN kept[k] ELSE new[k - q]) = 1 + (k - 1) * d
    <3>1. CASE k <= q
      BY <1>1, <3>1
    <3>2. CASE ~(k <= q)
      <4>1. PICK j \in 1 .. a : j = k - q
        BY <1>8, <3>2
      <4>2. PICK j1 \in Nat : j1 = j - 1
        OBVIOUS
      <4>3. PICK k1 \in Nat : k1 = k - 1 /\ k1 = q + j1
        BY <4>1, <4>2
      <4>4. PICK dj \in Nat, dk \in Nat : dj = d * j1 /\ dj = j1 * d /\ dk = d * k1 /\ dk = k1 * d
        BY Times
      <4>5. dk = dq + dj
        BY <1>4, <4>3, <4>4, Times
      <4>6. new[j] = given + f + 1 + dj
        BY <2>1, <4>2, <4>4
      <4>7. given + f = dq
        BY <1>1, <1>4
      <4>8. new[k - q] = 1 + dk
        BY <4>1, <4>5, <4>6, <4>7
      <4> QED
        BY <3>2, <4>3, <4>4, <4>8
    <3> QED
      BY <3>1, <3>2
  <2>5. PICK all : all = [k \in 1 .. q2 |-> 1 + (k - 1) * d]
    OBVIOUS
  <2>6. \A k \in 1 .. q2 : 1 + (k - 1) * d \in Int
    <3> SUFFICES ASSUME NEW k \in 1 .. q2 PROVE 1 + (k - 1) * d \in Int
      OBVIOUS
    <3>1. PICK k1 \in Nat : k1 = k - 1
      OBVIOUS
    <3>2. k1 * d \in Nat
      BY Times
    <3> QED
      BY <3>1, <3>2
  <2>7. all \in Seq(Int) /\ Len(all) = q2 /\ \A k \in 1 .. q2 : all[k] = 1 + (k - 1) * d
    BY <2>5, <2>6
  <2>8. kept' \in Seq(Int) /\ Len(kept') = q2 /\ \A k \in 1 .. q2 : kept'[k] = 1 + (k - 1) * d
    <3>1. PICK both : both = kept \o new
      OBVIOUS
    <3>2. both \in Seq(Int) /\ DOMAIN both = 1 .. q2
      BY <1>8, <2>3, <3>1
    <3>3. Len(both) = q2
      BY <3>2
    <3>4. \A k \in 1 .. q2 : both[k] = 1 + (k - 1) * d
      BY <1>8, <2>3, <2>4, <3>1
    <3> QED
      BY <1>10, <2>1, <3>1, <3>2, <3>3, <3>4
  <2>9. kept' = all
    BY <2>7, <2>8, SeqEqual
  <2> QED
    BY <2>5, <2>9
<1> QED
  BY <1>1, <1>9, <1>10, <1>11 DEF KeptRight

(* A block through the resampler.                                              *)
LEMMA ResampleKeeps ==
  ASSUME RateTypes, MadeRight, up # down, NEW n \in Nat, given' = given + n, calls' = calls + 1,
         aligned' = (aligned /\ n % down = 0), up' = up, down' = down, Rate!Resample(n)
  PROVE  outTime' \in 0 .. up + down /\ MadeRight'
<1>1. up \in Nat \ {0} /\ down \in Nat \ {0} /\ given \in Nat /\ calls \in Nat /\ aligned \in BOOLEAN /\ outTime \in 0 .. up + down
  BY DEF RateTypes
<1>2. PICK r : r = Rate!Outputs(n)
  OBVIOUS
<1>3. made' = made \o r.at /\ outTime' = r.t
  BY <1>2 DEF Rate!Resample
<1>4. Gives(r, outTime, n) /\ GivesEvenly(<<0, outTime>>, r, n)
  BY <1>1, <1>2, OutputsAre
<1>5. /\ r.t \in 0 .. up + down /\ r.at \in Seq([arm : Nat, newest : Nat])
      /\ \A i \in 1 .. Len(r.at) : Emitted(r.at[i], outTime + (i - 1) * down, n)
      /\ \E e \in {0, 1} : r.t + n * up + e * up = outTime + Len(r.at) * down
  BY <1>4 DEF Gives
<1>6. PICK c \in Nat : c = Len(r.at)
  BY <1>5
<1>7. made \in Seq([arm : Nat, newest : Nat]) /\ (calls = 0 => Len(made) = 0)
  BY DEF MadeRight
<1>8. PICK z \in Nat : z = Len(made)
  BY <1>7
<1>9. PICK e \in 0 .. Early : Len(made) * down = up * given + outTime + e * up
  BY DEF MadeRight
<1>10. e \in Nat /\ e <= calls /\ (aligned => e = 0)
  BY <1>1, <1>9 DEF Early
<1>11. PICK zd \in Nat, cd \in Nat, ug \in Nat, eu \in Nat, nu \in Nat, ug2 \in Nat :
         /\ zd = down * z /\ zd = z * down /\ cd = down * c /\ cd = c * down /\ ug = up * given /\ eu = e * up /\ eu = up * e
         /\ nu = n * up /\ nu = up * n /\ ug2 = up * (given + n)
  BY <1>1, <1>10, Times
<1>12. zd = ug + outTime + eu /\ ug2 = ug + nu
  <2>1. up * (given + n) = up * given + up * n
    BY <1>1, Times
  <2> QED
    BY <1>8, <1>9, <1>11, <2>1
<1>13. /\ made' \in Seq([arm : Nat, newest : Nat]) /\ Len(made') = z + c
       /\ \A k \in 1 .. z : made'[k] = made[k]
       /\ \A k \in z + 1 .. z + c : made'[k] = r.at[k - z]
  <2>1. made \o r.at \in Seq([arm : Nat, newest : Nat]) /\ Joined(made \o r.at, made, r.at)
    BY <1>5, <1>7, Appended
  <2> QED
    BY <1>3, <1>6, <1>8, <2>1 DEF Joined
<1>14. ASSUME NEW k \in 1 .. z PROVE NearlyExact(made[k], k)'
  <2>1. NearlyExact(made[k], k)
    BY <1>8 DEF MadeRight
  <2>2. PICK q \in Nat, a \in 0 .. up - 1, x \in 0 .. Sooner :
          (k - 1) * down = up * (q + x) + a /\ made[k] = [arm |-> a, newest |-> q]
    BY <2>1 DEF NearlyExact
  <2>3. calls # 0
    BY <1>7, <1>8
  <2>4. x \in 0 .. Sooner'
    BY <1>1, <2>2, <2>3 DEF Sooner
  <2>5. made'[k] = [arm |-> a, newest |-> q]
    BY <1>13, <2>2
  <2> QED
    BY <2>2, <2>4, <2>5 DEF NearlyExact
<1>15. ASSUME NEW i \in 1 .. c PROVE NearlyExact(r.at[i], z + i)' /\ r.at[i].newest <= given'
  <2>1. PICK q \in 0 .. n, a \in 0 .. up - 1 :
          outTime + (i - 1) * down = up * q + a /\ r.at[i] = [arm |-> a, newest |-> given + q]
    BY <1>5, <1>6 DEF Emitted
  <2>2. PICK j \in Nat : j = i - 1
    OBVIOUS
  <2>3. PICK jd \in Nat, uq \in Nat : jd = down * j /\ jd = j * down /\ uq = up * q
    BY <1>1, Times
  <2>4. PICK k \in Nat : k = z + j /\ (z + i) - 1 = k
    BY <2>2
  <2>5. k * down = zd + jd
    <3>1. down * k = zd + jd /\ down * k = k * down
      BY <1>1, <1>11, <2>3, <2>4, Times
    <3> QED
      BY <3>1
  <2>6. outTime + jd = uq + a
    BY <2>1, <2>2, <2>3
  <2>7. PICK y \in Nat : y = given + q
    BY <1>1
  <2>8. up * (y + e) = ug + uq + eu
    <3>1. up * (y + e) = up * y + up * e /\ up * (given + q) = up * given + up * q
      BY <1>1, <1>10, <2>7, Times
    <3> QED
      BY <1>11, <2>3, <2>7, <3>1
  <2>9. ((z + i) - 1) * down = up * (y + e) + a
    BY <1>1, <1>12, <2>4, <2>5, <2>6, <2>8
  <2>10. e \in 0 .. Sooner'
    BY <1>1, <1>10 DEF Sooner
  <2>11. r.at[i] = [arm |-> a, newest |-> y]
    BY <2>1, <2>7
  <2>12. NearlyExact(r.at[i], z + i)'
    BY <2>7, <2>9, <2>10, <2>11 DEF NearlyExact
  <2>13. r.at[i].newest <= given'
    BY <1>1, <2>1, <2>7, <2>11
  <2> QED
    BY <2>12, <2>13
<1>16. (\A k \in 1 .. Len(made) : NearlyExact(made[k], k))'
  <2>1. ASSUME NEW k \in 1 .. z + c PROVE NearlyExact(made[k], k)'
    <3>1. CASE k \in 1 .. z
      BY <1>14, <3>1
    <3>2. CASE k \in z + 1 .. z + c
      <4>1. PICK i \in 1 .. c : i = k - z /\ z + i = k
        BY <3>2
      <4>2. made'[k] = r.at[i]
        BY <1>13, <3>2, <4>1
      <4>3. NearlyExact(r.at[i], z + i)'
        BY <1>15
      <4> QED
        BY <4>1, <4>2, <4>3 DEF NearlyExact
    <3> QED
      BY <3>1, <3>2
  <2> QED
    BY <1>13, <2>1
<1>17. Len(made') > 0 => made'[Len(made')].newest <= given'
  <2>1. CASE c = 0
    <3>1. Len(made') = z
      BY <1>13, <2>1
    <3>2. z > 0 => made'[z] = made[z] /\ made[z].newest <= given
      <4>1. z > 0 => z \in 1 .. z
        OBVIOUS
      <4>2. z > 0 => made[z].newest <= given
        BY <1>8 DEF MadeRight
      <4> QED
        BY <1>13, <4>1, <4>2
    <3>3. z > 0 => made[z].newest \in Nat
      <4>1. z > 0 => z \in 1 .. Len(made)
        BY <1>8
      <4>2. PICK S : S = [arm : Nat, newest : Nat]
        OBVIOUS
      <4>3. made \in Seq(S)
        BY <1>7, <4>2
      <4>4. z > 0 => made[z] \in S
        BY <4>1, <4>3
      <4> QED
        BY <4>2, <4>4
    <3> QED
      BY <1>1, <3>1, <3>2, <3>3
  <2>2. CASE c > 0
    <3>1. made'[z + c] = r.at[c]
      <4>1. z + c \in z + 1 .. z + c /\ (z + c) - z = c
        BY <2>2
      <4> QED
        BY <1>13, <4>1
    <3>2. r.at[c].newest <= given'
      BY <1>15, <2>2
    <3> QED
      BY <1>13, <3>1, <3>2
  <2> QED
    BY <2>1, <2>2
<1>18. PICK x \in {0, 1} : r.t + n * up + x * up = outTime + Len(r.at) * down /\ (aligned' => x = 0 /\ (r.t = down \/ (r.t = 0 /\ given' = 0)))
  <2>1. CASE ~aligned'
    BY <1>5, <2>1
  <2>2. CASE aligned' /\ n = 0
    <3>1. aligned /\ (outTime = down \/ (outTime = 0 /\ given = 0))
      BY <2>2 DEF MadeRight
    <3>2. CASE outTime = down
      <4>1. Even(<<0, outTime>>, n)
        <5>1. Time(<<0, outTime>>) = down * 1 /\ n * up = down * 0
          <6>1. 0 * up = 0 /\ down * 1 = down /\ down * 0 = 0
            BY <1>1
          <6> QED
            BY <1>1, <2>2, <3>2, <6>1 DEF Time
        <5> QED
          BY <1>1, <2>2, <3>2, <5>1 DEF Even
      <4>2. r.t = down /\ r.t + n * up = Time(<<0, outTime>>) + Len(r.at) * down
        BY <1>4, <4>1 DEF GivesEvenly
      <4>3. 0 * up = 0 /\ Time(<<0, outTime>>) = outTime
        BY <1>1 DEF Time
      <4>4. r.t + nu + 0 = outTime + cd
        BY <1>1, <1>5, <1>6, <1>11, <4>2, <4>3
      <4> QED
        BY <1>6, <1>11, <4>2, <4>3, <4>4
    <3>3. CASE outTime = 0 /\ given = 0
      <4>1. PICK w \in {0, 1} : r.t + n * up + w * up = outTime + Len(r.at) * down
        BY <1>5
      <4>2. r = [t |-> outTime, at |-> <<>>]
        BY <1>1, <1>2, <2>2, OutputsOfNone
      <4>3. r.t = 0 /\ Len(r.at) = 0 /\ 0 * up = 0 /\ 0 * down = 0
        BY <1>1, <3>3, <4>2
      <4>4. r.t + n * up + 0 * up = outTime + Len(r.at) * down
        BY <2>2, <3>3, <4>3
      <4> QED
        BY <1>1, <2>2, <3>3, <4>3, <4>4
    <3> QED
      BY <3>1, <3>2, <3>3
  <2>3. CASE aligned' /\ n # 0
    <3>1. aligned /\ (outTime = down \/ (outTime = 0 /\ given = 0)) /\ n % down = 0
      BY <2>3 DEF MadeRight
    <3>2. PICK b \in Nat : n = down * b /\ b # 0
      <4>1. PICK b \in Nat, w \in 0 .. down - 1 : b = n \div down /\ w = n % down /\ n = down * b + w
        BY <1>1, Divides
      <4>2. PICK db \in Nat : db = down * b
        BY <1>1, Times
      <4>3. n = db
        <5>1. w = 0
          BY <3>1, <4>1
        <5>2. n = db + w
          BY <4>1, <4>2
        <5> QED
          BY <5>1, <5>2
      <4>4. b # 0
        <5>1. b = 0 => db = 0
          BY <1>1, <4>2
        <5> QED
          BY <2>3, <4>3, <5>1
      <4> QED
        BY <4>2, <4>3, <4>4
    <3>3. nu = down * (b * up) /\ b * up \in Nat
      <4>1. b * up \in Nat
        BY <1>1, Times
      <4>2. (down * b) * up = down * (b * up)
        BY <1>1
      <4> QED
        BY <1>11, <3>2, <4>1, <4>2
    <3>4. Time(<<0, outTime>>) = outTime
      <4>1. 0 * up = 0
        BY <1>1
      <4> QED
        BY <1>1, <4>1 DEF Time
    <3>5. \E a \in Nat : outTime = down * a
      <4>1. down * 1 = down /\ down * 0 = 0
        BY <1>1
      <4> QED
        BY <3>1, <4>1
    <3>6. nu > 0
      <4>1. up * 0 = 0
        BY <1>1
      <4>2. up * 0 + up <= up * n
        BY <1>1, <2>3, TimesMore
      <4> QED
        BY <1>1, <1>11, <4>1, <4>2
    <3>7. outTime < nu + down
      BY <1>1, <3>1, <3>6
    <3>8. Even(<<0, outTime>>, n)
      BY <1>11, <2>3, <3>3, <3>4, <3>5, <3>7 DEF Even
    <3>9. r.t = down /\ r.t + n * up = outTime + Len(r.at) * down
      BY <1>4, <3>4, <3>8 DEF GivesEvenly
    <3>10. 0 * up = 0
      BY <1>1
    <3>11. r.t + n * up + 0 * up = outTime + Len(r.at) * down
      BY <1>1, <1>6, <1>11, <3>9, <3>10
    <3> QED
      BY <3>9, <3>11
  <2> QED
    BY <2>1, <2>2, <2>3
<1>19. \E w \in 0 .. Early' : Len(made') * down = up * given' + outTime' + w * up
  <2>1. PICK w \in Nat : w = e + x
    BY <1>10
  <2>2. w \in 0 .. Early'
    BY <1>1, <1>10, <1>18, <2>1 DEF Early
  <2>3. PICK xu \in Nat : xu = up * x /\ xu = x * up
    BY <1>1, Times
  <2>4. w * up = eu + xu
    <3>1. up * w = up * e + up * x /\ up * w = w * up
      BY <1>1, <1>10, <2>1, Times
    <3> QED
      BY <1>11, <2>3, <3>1
  <2>5. r.t + nu + xu = outTime + cd
    BY <1>6, <1>11, <1>18, <2>3
  <2>6. (z + c) * down = zd + cd
    <3>1. down * (z + c) = down * z + down * c /\ down * (z + c) = (z + c) * down
      BY <1>1, Times
    <3> QED
      BY <1>11, <3>1
  <2>7. zd + cd = ug2 + r.t + (eu + xu)
    <3>0. r.t \in Nat /\ outTime \in Nat
      BY <1>1, <1>5
    <3>1. PICK rt \in Nat, ot \in Nat : rt = r.t /\ ot = outTime
      BY ONLY <3>0, Zenon
    <3>2. rt + nu + xu = ot + cd /\ zd = ug + ot + eu /\ ug2 = ug + nu
      BY <1>12, <2>5, <3>1
    <3>3. zd + cd = ug2 + rt + (eu + xu)
      BY <3>2
    <3> QED
      BY <3>1, <3>3
  <2> QED
    BY <1>3, <1>11, <1>13, <2>2, <2>4, <2>6, <2>7
<1>20. aligned' => outTime' = down' \/ (outTime' = 0 /\ given' = 0)
  BY <1>3, <1>18
<1>21. outTime' \in 0 .. up + down
  BY <1>3, <1>5
<1>22. calls' # 0
  BY <1>1
<1> QED
  BY <1>13, <1>16, <1>17, <1>19, <1>20, <1>21, <1>22 DEF MadeRight

(* A block.                                                                   *)
LEMMA ProcessKeeps ==
  ASSUME RatesSized, RateInv, NEW n \in Cuts, Rate!Process(n)
  PROVE  RateInv'
<1>1. /\ n \in Nat /\ given' = given + n /\ calls' = calls + 1 /\ aligned' = (aligned /\ n % down = 0)
      /\ up' = up /\ down' = down /\ factor' = factor /\ Rate!Resample(n) /\ Rate!Decimate(n)
  BY DEF RatesSized, Rate!Process
<1>2. given \in Nat /\ calls \in Nat /\ aligned \in BOOLEAN /\ up \in Nat \ {0} /\ down \in Nat \ {0} /\ outTime \in 0 .. up + down
  BY DEF RateInv, RateTypes
<1>3. KeptRight'
  BY <1>1, <1>2, DecimateKeeps DEF RateInv
<1>4. CASE up = down
  <2>1. outTime' = outTime
    BY <1>1, <1>4 DEF Rate!Resample
  <2>2. given' \in Nat /\ calls' \in Nat /\ aligned' \in BOOLEAN
    BY <1>1, <1>2
  <2>3. RateTypes'
    BY <1>1, <1>2, <2>1, <2>2 DEF RateTypes
  <2> QED
    BY <1>1, <1>3, <1>4, <2>3 DEF RateInv
<1>5. CASE up # down
  <2>1. RateTypes /\ MadeRight
    BY <1>5 DEF RateInv
  <2>2. outTime' \in 0 .. up + down /\ MadeRight'
    BY <1>1, <1>5, <2>1, ResampleKeeps
  <2>3. given' \in Nat /\ calls' \in Nat /\ aligned' \in BOOLEAN
    BY <1>1, <1>2
  <2>4. RateTypes'
    BY <1>1, <1>2, <2>2, <2>3 DEF RateTypes
  <2> QED
    BY <1>3, <2>2, <2>4 DEF RateInv
<1> QED
  BY <1>4, <1>5

(* What the invariant says.                                                    *)
LEMMA RateSays == RateInv => Rate!CutsHardlyShow
<1> SUFFICES ASSUME RateInv PROVE Rate!CutsHardlyShow
  OBVIOUS
<1>1. up \in Nat \ {0} /\ down \in Nat \ {0} /\ given \in Nat /\ calls \in Nat /\ aligned \in BOOLEAN /\ outTime \in 0 .. up + down
  BY DEF RateInv, RateTypes
<1>2. kept = [k \in 1 .. (given + factor - 1) \div factor |-> 1 + (k - 1) * factor]
  <2>1. PICK d \in Nat \ {0} : d = factor
    BY DEF RateInv, KeptRight
  <2>2. PICK f \in 0 .. d - 1, q \in Nat : given + f = d * q /\ kept = [k \in 1 .. q |-> 1 + (k - 1) * d]
    BY <2>1 DEF RateInv, KeptRight
  <2>3. PICK x \in Nat : x = given + d - 1
    BY <1>1
  <2>4. PICK r \in 0 .. d - 1 : r = d - 1 - f
    OBVIOUS
  <2>5. x = d * q + r
    <3>1. PICK dq \in Nat : dq = d * q
      BY Times
    <3> QED
      BY <1>1, <2>2, <2>3, <2>4, <3>1
  <2>6. x \div d = q
    BY <2>5, DividesSo
  <2> QED
    BY <2>1, <2>2, <2>3, <2>6
<1>3. ASSUME up # down
      PROVE  /\ \A k \in 0 .. Len(made) - 1 :
                  /\ made[k + 1].arm = Rate!Exact(k).arm
                  /\ Rate!Exact(k).newest - made[k + 1].newest \in 0 .. (IF aligned THEN 0 ELSE calls - 1)
             /\ Rate!Exact(Len(made)).newest >= given
             /\ Len(made) > 0 => made[Len(made)].newest <= given
  <2>1. MadeRight
    BY <1>3 DEF RateInv
  <2>2. PICK z \in Nat : z = Len(made)
    BY <2>1 DEF MadeRight
  <2>3. ASSUME NEW k \in 0 .. z - 1
        PROVE  /\ made[k + 1].arm = Rate!Exact(k).arm
               /\ Rate!Exact(k).newest - made[k + 1].newest \in 0 .. (IF aligned THEN 0 ELSE calls - 1)
    <3>1. PICK i \in 1 .. z : i = k + 1 /\ i - 1 = k
      OBVIOUS
    <3>2. NearlyExact(made[i], i)
      BY <2>1, <2>2 DEF MadeRight
    <3>3. PICK q \in Nat, a \in 0 .. up - 1, e \in 0 .. Sooner :
            (i - 1) * down = up * (q + e) + a /\ made[i] = [arm |-> a, newest |-> q]
      BY <3>2 DEF NearlyExact
    <3>4. PICK kd \in Nat : kd = k * down
      BY <1>1, Times
    <3>5. e \in Nat
      BY <1>1, <3>3 DEF Sooner
    <3>6. PICK p \in Nat : p = q + e
      BY <3>5
    <3>7. kd = up * p + a
      BY <3>1, <3>3, <3>4, <3>6
    <3>8. kd \div up = p /\ kd % up = a
      BY <1>1, <3>7, DividesSo
    <3>9. Rate!Exact(k) = [arm |-> a, newest |-> p]
      BY <3>4, <3>8 DEF Rate!Exact
    <3>10. p - q = e
      BY <3>5, <3>6
    <3> QED
      BY <3>1, <3>3, <3>9, <3>10 DEF Sooner
  <2>4. Rate!Exact(z).newest >= given
    <3>1. PICK e \in 0 .. Early : z * down = up * given + outTime + e * up
      BY <2>1, <2>2 DEF MadeRight
    <3>2. e \in Nat
      BY <1>1, <3>1 DEF Early
    <3>3. PICK zd \in Nat, ug \in Nat, eu \in Nat : zd = z * down /\ ug = up * given /\ eu = up * e /\ eu = e * up
      BY <1>1, <3>2, Times
    <3>4. PICK p \in Nat, a \in 0 .. up - 1 : p = zd \div up /\ a = zd % up /\ zd = up * p + a
      BY <1>1, Divides
    <3>5. ~(p < given)
      <4> SUFFICES ASSUME p < given PROVE FALSE
        OBVIOUS
      <4>1. PICK u \in Nat : u = up * p
        BY <1>1, Times
      <4>2. u + up <= ug
        BY <1>1, <3>3, <4>1, TimesMore
      <4>3. zd = u + a /\ zd = ug + outTime + eu
        BY <3>1, <3>3, <3>4, <4>1
      <4> QED
        BY <1>1, <4>2, <4>3
    <3>6. Rate!Exact(z).newest = p
      BY <3>3, <3>4 DEF Rate!Exact
    <3> QED
      BY <1>1, <3>5, <3>6
  <2>5. Len(made) > 0 => made[Len(made)].newest <= given
    BY <2>1 DEF MadeRight
  <2> QED
    BY <2>2, <2>3, <2>4, <2>5
<1> QED
  BY <1>2, <1>3 DEF Rate!CutsHardlyShow

(* How a stream is cut into blocks hardly shows, whatever the ratio and the      *)
(* blocks: the decimated stream not at all, in the resampled one no output is    *)
(* lost or held back, and each is at most one sample early for every block       *)
(* before it, none at all if the blocks are multiples of M.                     *)
THEOREM BlocksHardlyShow == RatesSized /\ Rate!Spec => []Rate!CutsHardlyShow
<1> SUFFICES ASSUME RatesSized PROVE Rate!Spec => []Rate!CutsHardlyShow
  OBVIOUS
<1>1. Rate!Init => RateInv
  BY RateStart
<1>2. RateInv /\ [Rate!Next]_Rate!vars => RateInv'
  <2> SUFFICES ASSUME RateInv, [Rate!Next]_Rate!vars PROVE RateInv'
    OBVIOUS
  <2>1. CASE Rate!Next
    BY <2>1, ProcessKeeps DEF Rate!Next
  <2>2. CASE UNCHANGED Rate!vars
    <3>1. /\ up' = up /\ down' = down /\ factor' = factor /\ given' = given /\ calls' = calls /\ aligned' = aligned
          /\ outTime' = outTime /\ made' = made /\ phase' = phase /\ kept' = kept
      BY <2>2 DEF Rate!vars
    <3>2. RateTypes' /\ KeptRight'
      BY <3>1 DEF RateInv, RateTypes, KeptRight
    <3>3. ASSUME MadeRight PROVE MadeRight'
      BY <3>1, <3>3 DEF MadeRight, NearlyExact, Sooner, Early
    <3> QED
      BY <3>1, <3>2, <3>3 DEF RateInv
  <2> QED
    BY <2>1, <2>2
<1> QED
  BY <1>1, <1>2, RateSays, PTL DEF Rate!Spec
-----------------------------------------------------------------------------
(* The primary detector's bands have its level, those of the derived detectors  *)
(* levels of their own; a width and a bin are not negative.                     *)
Found == [level : {"primary"}, at : Int, bw : Nat, snr : Int]
Seen  == [level : DOMAIN BinOf \ {"primary"}, at : Int, bw : Nat, snr : Int]

Observing ==
  /\ Primaries \subseteq Seq(Found) /\ Seconds \subseteq Seq(Seen)
  /\ BinOf \in [DOMAIN BinOf -> Nat] /\ "primary" \in DOMAIN BinOf

(* Gating goes through the bands.                                             *)
LEMMA GateSteps ==
  ASSUME NEW s, NEW n \in Nat, DOMAIN s = 1 .. n
  PROVE  \E f : GoesThrough("gate", <<>>, <<>>, s, n, f) /\ Fused!FoldLeft(Fused!Gate, <<>>, s) = f[n]
<1> DEFINE iter == CHOOSE g : Iterates("gate", <<>>, <<>>, s, g)
<1>1. Fused!FoldLeft(Fused!Gate, <<>>, s) = iter[DOMAIN s]
  BY DEF Fused!FoldLeft, Fused!MapThenFoldSet, Fused!Max, Max, Iterates, Step
<1>2. Iterates("gate", <<>>, <<>>, s, iter)
  <2>1. \E g : Iterates("gate", <<>>, <<>>, s, g)
    BY IterExists, Zenon
  <2> QED
    BY <2>1, Zenon
<1> HIDE DEF iter
<1>3. PICK f : GoesThrough("gate", <<>>, <<>>, s, n, f) /\ iter[DOMAIN s] = f[n]
  <2>1. Passes("gate", <<>>, <<>>, s, n, iter[DOMAIN s])
    BY <1>2, FoldSteps, Zenon
  <2> QED
    BY <2>1, Zenon DEF Passes
<1> QED
  BY <1>1, <1>3

(* What passes the gate was detected.                                         *)
LEMMA GatedWereFound ==
  ASSUME NEW S, NEW s \in Seq(S)
  PROVE  Fused!GateSignalsToBands(s) \in Seq(S)
<1>1. CASE bands = {}
  BY <1>1 DEF Fused!GateSignalsToBands
<1>2. CASE bands # {}
  <2>1. PICK n \in Nat : n = Len(s) /\ DOMAIN s = 1 .. n
    OBVIOUS
  <2>2. PICK f : GoesThrough("gate", <<>>, <<>>, s, n, f) /\ Fused!FoldLeft(Fused!Gate, <<>>, s) = f[n]
    BY <2>1, GateSteps
  <2> DEFINE good == {k \in 0 .. n : f[k] \in Seq(S)}
  <2>3. 0 \in good
    <3>1. f[0] = <<>> /\ <<>> \in Seq(S) /\ 0 \in 0 .. n
      BY <2>2 DEF GoesThrough
    <3> QED
      BY <3>1
  <2>4. ASSUME NEW k \in Nat, k < n, k \in good PROVE k + 1 \in good
    <3>1. k + 1 \in 1 .. n /\ (k + 1) - 1 = k /\ k + 1 \in 0 .. n
      BY <2>4
    <3>2. f[k + 1] = Fused!Gate(f[k], s[k + 1])
      BY <2>2, <3>1 DEF GoesThrough, Step
    <3>3. s[k + 1] \in S
      BY <2>1, <3>1
    <3>4. f[k] \in Seq(S)
      BY <2>4
    <3>5. Append(f[k], s[k + 1]) \in Seq(S)
      BY <3>3, <3>4, AppendProperties
    <3>6. f[k + 1] \in Seq(S)
      BY <3>2, <3>4, <3>5 DEF Fused!Gate
    <3> QED
      BY <3>1, <3>6
  <2>5. n \in good
    <3> HIDE DEF good
    <3>1. \A k \in 0 .. n : k \in good
      BY <2>3, <2>4, Induction
    <3> QED
      BY <3>1
  <2> QED
    BY <1>2, <2>2, <2>5 DEF Fused!GateSignalsToBands
<1> QED
  BY <1>1, <1>2

(* Two primaries do not claim one observation: the first that overlaps it does. *)
Claims(ps, ds, i) ==
  {j \in DOMAIN ds : Fused!Overlap(ps[i], ds[j]) /\ \A h \in 1 .. i - 1 : ~Fused!Overlap(ps[h], ds[j])}

(* What the first primaries have claimed.                                      *)
Claimed(ps, ds, k) == {j \in DOMAIN ds : \E h \in 1 .. k : Fused!Overlap(ps[h], ds[j])}

(* A primary with the evidence it claims.                                      *)
Confirmed(ps, ds, i) ==
  [ps[i] EXCEPT !.evidence = @ \cup UNION {ds[j].evidence : j \in Claims(ps, ds, i)}]

(* Taking goes through the primaries.                                         *)
LEMMA TakeSteps ==
  ASSUME NEW ps, NEW ds, NEW n \in Nat, DOMAIN ps = 1 .. n
  PROVE  \E f : /\ GoesThrough("take", <<ps, ds>>, [used |-> {}, out |-> <<>>], [i \in 1 .. n |-> i], n, f)
                /\ Fused!Taken(ps, ds) = f[n]
<1> DEFINE base == [used |-> {}, out |-> <<>>]
           order == [i \in 1 .. n |-> i]
           iter == CHOOSE g : Iterates("take", <<ps, ds>>, base, order, g)
<1>1. Fused!Taken(ps, ds) = iter[DOMAIN order]
  BY DEF Fused!Taken, Fused!FoldLeft, Fused!MapThenFoldSet, Fused!Max, Max, Iterates, Step
<1>2. DOMAIN order = 1 .. n
  OBVIOUS
<1> HIDE DEF order
<1>3. Iterates("take", <<ps, ds>>, base, order, iter)
  <2>1. \E g : Iterates("take", <<ps, ds>>, base, order, g)
    BY <1>2, IterExists, Zenon
  <2> QED
    BY <2>1, Zenon
<1> HIDE DEF iter, base
<1>4. PICK f : GoesThrough("take", <<ps, ds>>, base, order, n, f) /\ iter[DOMAIN order] = f[n]
  <2>1. Passes("take", <<ps, ds>>, base, order, n, iter[DOMAIN order])
    BY <1>2, <1>3, FoldSteps, Zenon
  <2> QED
    BY <2>1, Zenon DEF Passes
<1> QED
  BY <1>1, <1>4 DEF order, base

(* What the primaries have taken in the end: what they claim.                  *)
LEMMA TakenIs ==
  ASSUME NEW ps, NEW ds, NEW n \in Nat, DOMAIN ps = 1 .. n
  PROVE  /\ Fused!Taken(ps, ds).used = Claimed(ps, ds, n)
         /\ Fused!Taken(ps, ds).out = [i \in 1 .. n |-> Confirmed(ps, ds, i)]
<1> DEFINE Conf(i) == Confirmed(ps, ds, i)
           Fine(k, st) == st.used = Claimed(ps, ds, k) /\ st.out = [i \in 1 .. k |-> Conf(i)]
<1>1. PICK f : /\ GoesThrough("take", <<ps, ds>>, [used |-> {}, out |-> <<>>], [i \in 1 .. n |-> i], n, f)
               /\ Fused!Taken(ps, ds) = f[n]
  BY TakeSteps
<1> DEFINE good == {k \in 0 .. n : Fine(k, f[k])}
<1>2. 0 \in good
  <2>1. f[0] = [used |-> {}, out |-> <<>>]
    BY <1>1 DEF GoesThrough
  <2>2. Claimed(ps, ds, 0) = {}
    BY DEF Claimed
  <2>3. [i \in 1 .. 0 |-> Conf(i)] = <<>>
    BY 1 .. 0 = {}
  <2> HIDE DEF Conf
  <2>4. f[0].used = {} /\ f[0].out = <<>> /\ 0 \in 0 .. n
    BY <2>1
  <2>5. Fine(0, f[0])
    BY <2>2, <2>3, <2>4
  <2> HIDE DEF Fine
  <2> QED
    BY <2>4, <2>5
<1>3. ASSUME NEW k \in Nat, k < n, k \in good PROVE k + 1 \in good
  <2> DEFINE mine == {j \in DOMAIN ds : j \notin f[k].used /\ Fused!Overlap(ps[k + 1], ds[j])}
  <2>1. k + 1 \in 1 .. n /\ (k + 1) - 1 = k /\ k + 1 \in 0 .. n
    BY <1>3
  <2>2. f[k + 1] = Fused!Take(ps, ds, f[k], k + 1)
    <3>1. f[k + 1] = Step("take", <<ps, ds>>, f[(k + 1) - 1], [i \in 1 .. n |-> i][k + 1])
      BY <1>1, <2>1 DEF GoesThrough
    <3> QED
      BY <2>1, <3>1 DEF Step
  <2>3. f[k].used = Claimed(ps, ds, k) /\ f[k].out = [i \in 1 .. k |-> Conf(i)]
    BY <1>3
  <2>4. mine = Claims(ps, ds, k + 1)
    BY <2>1, <2>3 DEF Claims, Claimed
  <2>5. f[k + 1].used = f[k].used \cup mine /\ f[k + 1].out = Append(f[k].out, Conf(k + 1))
    <3>1. f[k + 1] = [used |-> f[k].used \cup mine,
                      out  |-> Append(f[k].out, [ps[k + 1] EXCEPT !.evidence = @ \cup UNION {ds[j].evidence : j \in mine}])]
      BY <2>2 DEF Fused!Take
    <3> HIDE DEF mine
    <3>2. [ps[k + 1] EXCEPT !.evidence = @ \cup UNION {ds[j].evidence : j \in mine}] = Conf(k + 1)
      BY <2>4 DEF Confirmed
    <3> QED
      BY <3>1, <3>2
  <2>6. f[k].used \cup mine = Claimed(ps, ds, k + 1)
    <3>1. \A h : h \in 1 .. k + 1 <=> h \in 1 .. k \/ h = k + 1
      BY <1>3
    <3> QED
      BY <2>3, <3>1 DEF Claimed
  <2>7. Append([i \in 1 .. k |-> Conf(i)], Conf(k + 1)) = [i \in 1 .. k + 1 |-> Conf(i)]
    <3> HIDE DEF Conf
    <3> DEFINE S == {Conf(i) : i \in 1 .. k + 1}
               before == [i \in 1 .. k |-> Conf(i)]
               after == [i \in 1 .. k + 1 |-> Conf(i)]
    <3>1. before \in Seq(S) /\ Len(before) = k /\ after \in Seq(S) /\ Len(after) = k + 1 /\ Conf(k + 1) \in S
      <4>1. \A i \in 1 .. k + 1 : Conf(i) \in S
        OBVIOUS
      <4> HIDE DEF S
      <4>2. before \in [1 .. k -> S] /\ after \in [1 .. k + 1 -> S] /\ k \in Nat /\ k + 1 \in Nat
        BY <4>1
      <4> QED
        BY <4>1, <4>2, SeqDef, LenProperties
    <3>2. \A i \in 1 .. k : before[i] = after[i]
      OBVIOUS
    <3>3. after[k + 1] = Conf(k + 1)
      OBVIOUS
    <3> HIDE DEF S, before, after
    <3>4. /\ Append(before, Conf(k + 1)) \in Seq(S)
          /\ Len(Append(before, Conf(k + 1))) = k + 1
          /\ \A i \in 1 .. k : Append(before, Conf(k + 1))[i] = before[i]
          /\ Append(before, Conf(k + 1))[k + 1] = Conf(k + 1)
      BY <3>1, AppendProperties
    <3>5. \A i \in 1 .. k + 1 : Append(before, Conf(k + 1))[i] = after[i]
      BY <3>2, <3>3, <3>4
    <3>6. Append(before, Conf(k + 1)) = after
      BY <3>1, <3>4, <3>5, SeqEqual
    <3> QED
      BY <3>6 DEF before, after
  <2>8. Fine(k + 1, f[k + 1])
    <3> HIDE DEF mine, Conf
    <3> QED
      BY <2>3, <2>5, <2>6, <2>7
  <2> HIDE DEF Fine
  <2> QED
    BY <2>1, <2>8
<1>4. n \in good
  <2> HIDE DEF good
  <2>1. \A k \in 0 .. n : k \in good
    BY <1>2, <1>3, Induction
  <2> QED
    BY <2>1
<1> QED
  BY <1>1, <1>4
(* The list once every observation was looked at.                             *)
LeaveAll(ds, used, base) ==
  Fused!FoldLeft(LAMBDA s, j : Fused!Leave(ds, used, s, j), base, [j \in DOMAIN ds |-> j])

(* Its steps: f[k] is the list after the first k observations.                *)
LeavesBy(ds, used, base, n, f) ==
  /\ GoesThrough("leave", <<ds, used>>, base, [j \in 1 .. n |-> j], n, f)
  /\ LeaveAll(ds, used, base) = f[n]

(* Following goes through the observations.                                    *)
LEMMA LeaveSteps ==
  ASSUME NEW ds, NEW used, NEW base, NEW n \in Nat, DOMAIN ds = 1 .. n
  PROVE  \E f : LeavesBy(ds, used, base, n, f)
<1> DEFINE order == [j \in 1 .. n |-> j]
           iter == CHOOSE g : Iterates("leave", <<ds, used>>, base, order, g)
<1>1. LeaveAll(ds, used, base) = iter[DOMAIN order]
  BY DEF LeaveAll, Fused!FoldLeft, Fused!MapThenFoldSet, Fused!Max, Max, Iterates, Step
<1>2. DOMAIN order = 1 .. n
  OBVIOUS
<1> HIDE DEF order
<1>3. Iterates("leave", <<ds, used>>, base, order, iter)
  <2>1. \E g : Iterates("leave", <<ds, used>>, base, order, g)
    BY <1>2, IterExists, Zenon
  <2> QED
    BY <2>1, Zenon
<1> HIDE DEF iter
<1>4. PICK f : GoesThrough("leave", <<ds, used>>, base, order, n, f) /\ iter[DOMAIN order] = f[n]
  <2>1. Passes("leave", <<ds, used>>, base, order, n, iter[DOMAIN order])
    BY <1>2, <1>3, FoldSteps, Zenon
  <2> QED
    BY <2>1, Zenon DEF Passes
<1>5. LeavesBy(ds, used, base, n, f)
  BY <1>1, <1>4, Zenon DEF order, LeavesBy
<1> QED
  BY <1>5, Zenon

(* A sequence goes on with those of the first k observations that no primary    *)
(* used, each of them once: the i-th of them is observation g[i].               *)
Followed(all, base, ds, used, k, m, g) ==
  /\ Len(all) = Len(base) + m
  /\ \A i \in 1 .. Len(base) : all[i] = base[i]
  /\ g \in [1 .. m -> (1 .. k) \ used]
  /\ \A i \in 1 .. m : all[Len(base) + i] = ds[g[i]]
  /\ \A i, j \in 1 .. m : g[i] = g[j] => i = j
  /\ \A j \in (1 .. k) \ used : \E i \in 1 .. m : g[i] = j

(* One observation more.                                                      *)
LEMMA OneMore ==
  ASSUME NEW S, NEW all \in Seq(S), NEW base \in Seq(S), NEW ds \in Seq(S), NEW used,
         NEW k \in Nat, k < Len(ds), NEW m \in Nat, NEW g, Followed(all, base, ds, used, k, m, g)
  PROVE  LET next == Fused!Leave(ds, used, all, k + 1)
         IN  next \in Seq(S) /\ \E n \in Nat : \E h : Followed(next, base, ds, used, k + 1, n, h)
<1> DEFINE next == Fused!Leave(ds, used, all, k + 1)
<1>0. \A j : j \in 1 .. k + 1 <=> j \in 1 .. k \/ j = k + 1
  OBVIOUS
<1>1. CASE k + 1 \in used
  <2>1. next = all
    BY <1>1 DEF Fused!Leave
  <2>2. (1 .. k + 1) \ used = (1 .. k) \ used
    BY <1>0, <1>1
  <2>3. Followed(all, base, ds, used, k + 1, m, g)
    BY <2>2 DEF Followed
  <2> QED
    BY <2>1, <2>3
<1>2. CASE k + 1 \notin used
  <2> DEFINE b == Len(base)
             h == [i \in 1 .. m + 1 |-> IF i = m + 1 THEN k + 1 ELSE g[i]]
  <2>1. next = Append(all, ds[k + 1])
    BY <1>2 DEF Fused!Leave
  <2>2. b \in Nat /\ Len(all) = b + m /\ ds[k + 1] \in S
    BY DEF Followed
  <2>3. /\ next \in Seq(S) /\ Len(next) = b + (m + 1)
        /\ \A i \in 1 .. b + m : next[i] = all[i]
        /\ next[b + (m + 1)] = ds[k + 1]
    <3> DEFINE x == ds[k + 1]
               more == Append(all, x)
    <3>1. Len(all) + 1 = b + (m + 1)
      BY <2>2
    <3>2. x \in S
      BY <2>2
    <3> HIDE DEF x, b, next
    <3>3. /\ more \in Seq(S) /\ Len(more) = Len(all) + 1
          /\ \A i \in 1 .. Len(all) : more[i] = all[i]
          /\ more[Len(all) + 1] = x
      BY <3>2, AppendProperties
    <3> HIDE DEF more
    <3> QED
      BY <2>1, <2>2, <3>1, <3>3 DEF x, more
  <2>4. /\ g \in [1 .. m -> (1 .. k) \ used]
        /\ \A i \in 1 .. b : all[i] = base[i]
        /\ \A i \in 1 .. m : all[b + i] = ds[g[i]]
        /\ \A i, j \in 1 .. m : g[i] = g[j] => i = j
        /\ \A j \in (1 .. k) \ used : \E i \in 1 .. m : g[i] = j
    BY DEF Followed
  <2>5. \A i \in 1 .. m : h[i] = g[i] /\ h[i] \in (1 .. k) \ used /\ h[i] # k + 1
    <3>1. \A i \in 1 .. m : i \in 1 .. m + 1 /\ i # m + 1 /\ g[i] \in (1 .. k) \ used
      BY <2>4
    <3>2. \A j \in (1 .. k) \ used : j # k + 1
      OBVIOUS
    <3> QED
      BY <3>1, <3>2
  <2>6. h[m + 1] = k + 1
    OBVIOUS
  <2>7. \A i : i \in 1 .. m + 1 <=> i \in 1 .. m \/ i = m + 1
    OBVIOUS
  <2>8. h \in [1 .. m + 1 -> (1 .. k + 1) \ used]
    <3>1. \A i \in 1 .. m + 1 : h[i] \in (1 .. k + 1) \ used
      BY <1>0, <1>2, <2>5, <2>6, <2>7
    <3>2. h = [i \in 1 .. m + 1 |-> h[i]]
      OBVIOUS
    <3> HIDE DEF h
    <3> QED
      BY <3>1, <3>2
  <2> HIDE DEF h
  <2>9. \A i \in 1 .. m + 1 : next[b + i] = ds[h[i]]
    <3>1. \A i \in 1 .. m : b + i \in 1 .. b + m
      BY <2>2
    <3> HIDE DEF b, next
    <3>2. \A i \in 1 .. m : next[b + i] = ds[h[i]]
      BY <2>3, <2>4, <2>5, <3>1
    <3>3. next[b + (m + 1)] = ds[h[m + 1]]
      BY <2>3, <2>6
    <3> QED
      BY <2>7, <3>2, <3>3
  <2>10. \A i, j \in 1 .. m + 1 : h[i] = h[j] => i = j
    <3> SUFFICES ASSUME NEW i \in 1 .. m + 1, NEW j \in 1 .. m + 1, h[i] = h[j] PROVE i = j
      OBVIOUS
    <3>1. CASE i \in 1 .. m /\ j \in 1 .. m
      <4>1. h[i] = g[i] /\ h[j] = g[j]
        BY <2>5, <3>1, Zenon
      <4>2. g[i] = g[j]
        BY <4>1, h[i] = h[j], Zenon
      <4>3. \A a, c \in 1 .. m : g[a] = g[c] => a = c
        BY <2>4, Zenon
      <4> QED
        BY <3>1, <4>2, <4>3, Zenon
    <3>2. CASE i = m + 1 \/ j = m + 1
      <4>1. i = m + 1 /\ j = m + 1
        BY <2>5, <2>6, <2>7, <3>2
      <4> QED
        BY <4>1
    <3> QED
      BY <2>7, <3>1, <3>2
  <2>11. \A j \in (1 .. k + 1) \ used : \E i \in 1 .. m + 1 : h[i] = j
    BY <1>0, <2>4, <2>5, <2>6, <2>7
  <2>12. \A i \in 1 .. b : next[i] = base[i]
    <3>1. \A i \in 1 .. b : i \in 1 .. b + m
      BY <2>2
    <3> HIDE DEF b, next
    <3> QED
      BY <2>3, <2>4, <3>1
  <2>13. Followed(next, base, ds, used, k + 1, m + 1, h)
    <3> HIDE DEF next
    <3> QED
      BY <2>3, <2>8, <2>9, <2>10, <2>11, <2>12 DEF Followed
  <2>14. m + 1 \in Nat
    OBVIOUS
  <2> HIDE DEF b, next
  <2>15. \E n \in Nat : \E i : Followed(next, base, ds, used, k + 1, n, i)
    BY <2>13, <2>14
  <2> QED
    BY <2>3, <2>15 DEF next
<1> QED
  BY <1>1, <1>2

(* What is left follows.                                                      *)
LEMMA LeftIs ==
  ASSUME NEW S, NEW base \in Seq(S), NEW ds \in Seq(S), NEW used, NEW n \in Nat, Len(ds) = n
  PROVE  LET all == LeaveAll(ds, used, base)
         IN  all \in Seq(S) /\ \E m \in Nat : \E g : Followed(all, base, ds, used, n, m, g)
<1> DEFINE Fine(k, all) == all \in Seq(S) /\ \E m \in Nat : \E g : Followed(all, base, ds, used, k, m, g)
<1>0. DOMAIN ds = 1 .. n
  OBVIOUS
<1>1. PICK f : /\ GoesThrough("leave", <<ds, used>>, base, [j \in 1 .. n |-> j], n, f)
               /\ LeaveAll(ds, used, base) = f[n]
  <2>1. PICK f : LeavesBy(ds, used, base, n, f)
    BY ONLY <1>0, n \in Nat, LeaveSteps
  <2> QED
    BY ONLY <2>1, Zenon DEF LeavesBy
<1> DEFINE good == {k \in 0 .. n : Fine(k, f[k])}
<1>2. 0 \in good
  <2> DEFINE g == [i \in 1 .. 0 |-> i]
  <2>1. f[0] = base /\ 0 \in 0 .. n
    BY <1>1 DEF GoesThrough
  <2>2. 1 .. 0 = {}
    OBVIOUS
  <2>3. g \in [1 .. 0 -> (1 .. 0) \ used]
    BY <2>2
  <2>4. Len(base) = Len(base) + 0
    OBVIOUS
  <2> HIDE DEF g
  <2>5. Followed(base, base, ds, used, 0, 0, g)
    BY <2>2, <2>3, <2>4 DEF Followed
  <2>6. Fine(0, f[0])
    BY <2>1, <2>5
  <2> HIDE DEF Fine
  <2> QED
    BY <2>1, <2>6
<1>3. ASSUME NEW k \in Nat, k < n, k \in good PROVE k + 1 \in good
  <2>1. k + 1 \in 1 .. n /\ (k + 1) - 1 = k /\ k + 1 \in 0 .. n
    BY <1>3
  <2>2. f[k + 1] = Fused!Leave(ds, used, f[k], k + 1)
    <3>1. f[k + 1] = Step("leave", <<ds, used>>, f[(k + 1) - 1], [j \in 1 .. n |-> j][k + 1])
      BY <1>1, <2>1 DEF GoesThrough
    <3> QED
      BY <2>1, <3>1 DEF Step
  <2>3. Fine(k, f[k])
    BY <1>3
  <2>4. PICK m \in Nat : \E g : Followed(f[k], base, ds, used, k, m, g)
    BY <2>3
  <2>5. PICK g : Followed(f[k], base, ds, used, k, m, g)
    BY <2>4
  <2>6. Fine(k + 1, f[k + 1])
    <3> DEFINE all == f[k]
    <3>1. all \in Seq(S) /\ Followed(all, base, ds, used, k, m, g) /\ k < Len(ds)
      BY <1>3, <2>3, <2>5
    <3> HIDE DEF all
    <3>2. LET next == Fused!Leave(ds, used, all, k + 1)
          IN  next \in Seq(S) /\ \E l \in Nat : \E h : Followed(next, base, ds, used, k + 1, l, h)
      BY <3>1, OneMore
    <3> QED
      BY <2>2, <3>2 DEF all
  <2> HIDE DEF Fine
  <2> QED
    BY <2>1, <2>6
<1>4. n \in good
  <2> HIDE DEF good
  <2>1. \A k \in 0 .. n : k \in good
    BY <1>2, <1>3, Induction
  <2> QED
    BY <2>1
<1> QED
  BY <1>1, <1>4
-----------------------------------------------------------------------------
(* A candidate, with the levels at which it was observed.                      *)
Candidate ==
  [level : DOMAIN BinOf, at : Int, bw : Nat, snr : Int,
   id : (DOMAIN BinOf) \X Nat, evidence : SUBSET DOMAIN BinOf]

(* What candidates are before they are fused: each has the evidence of its own  *)
(* level, which is the primary's for some and another for the others.           *)
Lone(cs) ==
  /\ cs \in Seq(Candidate)
  /\ \A i \in DOMAIN cs : cs[i].evidence = {cs[i].level} /\ cs[i].id[1] = cs[i].level

Primary(cs) == Lone(cs) /\ \A i \in DOMAIN cs : cs[i].level = "primary"
Derived(cs) == Lone(cs) /\ \A i \in DOMAIN cs : cs[i].level # "primary"

(* Bands become such candidates, in their order.                               *)
LEMMA CandidatesAre ==
  ASSUME Observing, NEW S, S \subseteq [level : DOMAIN BinOf, at : Int, bw : Nat, snr : Int],
         NEW s \in Seq(S), NEW cs, cs = Fused!CandidatesFromSignals(s)
  PROVE  Lone(cs) /\ DOMAIN cs = DOMAIN s /\ \A i \in DOMAIN cs : cs[i].level = s[i].level
<1> DEFINE c(i) == [level |-> s[i].level, at |-> s[i].at, bw |-> s[i].bw, snr |-> s[i].snr,
                    id |-> <<s[i].level, i>>, evidence |-> {s[i].level}]
<1>1. PICK n \in Nat : n = Len(s) /\ DOMAIN s = 1 .. n
  OBVIOUS
<1>2. cs = [i \in 1 .. n |-> c(i)]
  BY <1>1 DEF Fused!CandidatesFromSignals
<1>3. ASSUME NEW i \in 1 .. n PROVE c(i) \in Candidate
  <2>1. s[i] \in [level : DOMAIN BinOf, at : Int, bw : Nat, snr : Int] /\ i \in Nat
    BY <1>1
  <2>2. s[i].level \in DOMAIN BinOf /\ s[i].at \in Int /\ s[i].bw \in Nat /\ s[i].snr \in Int
    BY <2>1
  <2>3. <<s[i].level, i>> \in (DOMAIN BinOf) \X Nat /\ {s[i].level} \in SUBSET DOMAIN BinOf
    BY <2>1, <2>2
  <2> QED
    BY <2>2, <2>3 DEF Candidate
<1>4. \A i \in 1 .. n : c(i).level = s[i].level /\ c(i).evidence = {c(i).level} /\ c(i).id[1] = c(i).level
  OBVIOUS
<1> HIDE DEF c
<1>5. cs \in [1 .. n -> Candidate]
  BY <1>2, <1>3
<1>6. cs \in Seq(Candidate)
  BY <1>5, SeqDef
<1>7. DOMAIN cs = 1 .. n /\ \A i \in 1 .. n : cs[i] = c(i)
  BY <1>2
<1> QED
  BY <1>1, <1>4, <1>6, <1>7 DEF Lone

(* A primary keeps its place and id, whatever it claims.                       *)
LEMMA ConfirmedIs ==
  ASSUME NEW ps, Lone(ps), NEW ds, Lone(ds), NEW i \in DOMAIN ps, NEW c, c = Confirmed(ps, ds, i)
  PROVE  /\ c \in Candidate
         /\ c.level = ps[i].level /\ c.at = ps[i].at /\ c.bw = ps[i].bw /\ c.id = ps[i].id
         /\ c.evidence = {ps[i].level} \cup {ds[j].level : j \in Claims(ps, ds, i)}
<1> DEFINE more == UNION {ds[j].evidence : j \in Claims(ps, ds, i)}
<1>1. ps[i] \in Candidate /\ ps[i].evidence = {ps[i].level}
  BY DEF Lone
<1>2. \A j \in Claims(ps, ds, i) : ds[j] \in Candidate /\ ds[j].evidence = {ds[j].level}
  BY DEF Lone, Claims
<1>3. more = {ds[j].level : j \in Claims(ps, ds, i)}
  BY <1>2
<1>4. more \in SUBSET DOMAIN BinOf
  BY <1>2 DEF Candidate
<1>5. c = [ps[i] EXCEPT !.evidence = @ \cup more]
  BY DEF Confirmed
<1> HIDE DEF more
<1>6. c.evidence = ps[i].evidence \cup more /\ c.level = ps[i].level /\ c.at = ps[i].at /\ c.bw = ps[i].bw /\ c.id = ps[i].id
  BY <1>1, <1>5 DEF Candidate
<1>7. c \in Candidate
  BY <1>1, <1>4, <1>5 DEF Candidate
<1> QED
  BY <1>1, <1>3, <1>6, <1>7

(* Whether two overlap depends on where they are.                              *)
LEMMA SamePlace ==
  ASSUME NEW a, NEW b, a.level = b.level, a.at = b.at, a.bw = b.bw, NEW d
  PROVE  Fused!Overlap(a, d) <=> Fused!Overlap(b, d)
  BY DEF Fused!Overlap, Fused!Left, Fused!Right

(* A candidate overlaps itself.                                               *)
LEMMA OverlapsItself ==
  ASSUME Observing, NEW c \in Candidate
  PROVE  Fused!Overlap(c, c)
<1> DEFINE bin == BinOf[c.level]
           guard == Fused!Max({bin, bin}) \div 2
<1>1. c.level \in DOMAIN BinOf /\ c.at \in Int /\ c.bw \in Nat
  BY DEF Candidate
<1>2. bin \in Nat
  BY <1>1 DEF Observing
<1> HIDE DEF bin
<1>3. Fused!Max({bin, bin}) = bin
  BY <1>2 DEF Fused!Max
<1>4. guard \in Nat
  BY <1>2, <1>3
<1>5. c.bw \div 2 \in Nat
  BY <1>1
<1> HIDE DEF guard
<1>6. Fused!Left(c) - guard <= Fused!Right(c) + guard
  BY <1>1, <1>4, <1>5 DEF Fused!Left, Fused!Right
<1> QED
  BY <1>6 DEF Fused!Overlap, guard, bin

(* What comes of fusing: the primaries with what they claim, then each of those *)
(* that no primary claims.                                                    *)
LEMMA FusedIs ==
  ASSUME NEW ps, Lone(ps), NEW ds, Lone(ds), NEW n \in Nat, n = Len(ps),
         NEW all, all = Fused!FuseCandidates(ps, ds)
  PROVE  /\ all \in Seq(Candidate)
         /\ \E m \in Nat : \E g :
              Followed(all, [i \in 1 .. n |-> Confirmed(ps, ds, i)], ds, Claimed(ps, ds, n), Len(ds), m, g)
<1> DEFINE base == [i \in 1 .. n |-> Confirmed(ps, ds, i)]
           used == Claimed(ps, ds, n)
<1>1. ps \in Seq(Candidate) /\ ds \in Seq(Candidate) /\ DOMAIN ps = 1 .. n
  BY DEF Lone
<1>2. Fused!Taken(ps, ds).used = used /\ Fused!Taken(ps, ds).out = base
  <2>1. DOMAIN ps = 1 .. n /\ n \in Nat
    BY <1>1
  <2>2. Fused!Taken(ps, ds).used = Claimed(ps, ds, n) /\ Fused!Taken(ps, ds).out = [i \in 1 .. n |-> Confirmed(ps, ds, i)]
    BY ONLY <2>1, TakenIs
  <2> QED
    BY ONLY <2>2, Zenon DEF used, base
<1>3. base \in Seq(Candidate)
  <2>1. \A i \in 1 .. n : Confirmed(ps, ds, i) \in Candidate
    BY <1>1, ConfirmedIs
  <2>2. base \in [1 .. n -> Candidate]
    BY <2>1
  <2> QED
    BY <2>2, SeqDef
<1>4. all = LeaveAll(ds, Fused!Taken(ps, ds).used, Fused!Taken(ps, ds).out)
  BY DEF Fused!FuseCandidates, LeaveAll
<1> HIDE DEF base, used
<1>5. all = LeaveAll(ds, used, base)
  BY <1>2, <1>4
<1>6. PICK k \in Nat : k = Len(ds)
  BY <1>1
<1>7. LET those == LeaveAll(ds, used, base)
      IN  those \in Seq(Candidate) /\ \E m \in Nat : \E g : Followed(those, base, ds, used, k, m, g)
  BY <1>1, <1>3, <1>6, LeftIs
<1> QED
  BY <1>5, <1>6, <1>7 DEF base, used

(* The parts of a fused list: the primaries in their places, and behind them    *)
(* what none of them claims.                                                  *)
Parts(ps, ds, all, n, m, g) ==
  /\ DOMAIN all = 1 .. n + m
  /\ \A i \in 1 .. n : all[i] = Confirmed(ps, ds, i)
  /\ g \in [1 .. m -> DOMAIN ds]
  /\ \A i \in 1 .. m : all[n + i] = ds[g[i]] /\ \A h \in 1 .. n : ~Fused!Overlap(ps[h], ds[g[i]])
  /\ \A i, j \in 1 .. m : g[i] = g[j] => i = j
  /\ \A j \in DOMAIN ds : (\E h \in 1 .. n : Fused!Overlap(ps[h], ds[j])) \/ \E i \in 1 .. m : g[i] = j

LEMMA FusedParts ==
  ASSUME NEW ps, Lone(ps), NEW ds, Lone(ds), NEW n \in Nat, n = Len(ps),
         NEW all, all = Fused!FuseCandidates(ps, ds)
  PROVE  DOMAIN ps = 1 .. n /\ \E m \in Nat : \E g : Parts(ps, ds, all, n, m, g)
<1> DEFINE base == [i \in 1 .. n |-> Confirmed(ps, ds, i)]
           used == Claimed(ps, ds, n)
<1>1. ps \in Seq(Candidate) /\ DOMAIN ps = 1 .. n /\ ds \in Seq(Candidate) /\ DOMAIN ds = 1 .. Len(ds)
  BY DEF Lone
<1>2. all \in Seq(Candidate) /\ \E m \in Nat : \E g : Followed(all, base, ds, used, Len(ds), m, g)
  BY FusedIs
<1>3. PICK m \in Nat : \E g : Followed(all, base, ds, used, Len(ds), m, g)
  BY <1>2
<1>4. PICK g : Followed(all, base, ds, used, Len(ds), m, g)
  BY <1>3
<1>5. Len(base) = n /\ \A i \in 1 .. n : base[i] = Confirmed(ps, ds, i)
  OBVIOUS
<1> HIDE DEF base
<1>6. /\ Len(all) = n + m
      /\ \A i \in 1 .. n : all[i] = base[i]
      /\ g \in [1 .. m -> DOMAIN ds \ used]
      /\ \A i \in 1 .. m : all[n + i] = ds[g[i]]
      /\ \A i, j \in 1 .. m : g[i] = g[j] => i = j
      /\ \A j \in DOMAIN ds \ used : \E i \in 1 .. m : g[i] = j
  BY <1>1, <1>4, <1>5 DEF Followed
<1>7. DOMAIN all = 1 .. n + m
  BY <1>2, <1>6
<1>8. \A j \in DOMAIN ds : j \in used <=> \E h \in 1 .. n : Fused!Overlap(ps[h], ds[j])
  BY DEF Claimed
<1> HIDE DEF used
<1>9. Parts(ps, ds, all, n, m, g)
  BY <1>5, <1>6, <1>7, <1>8 DEF Parts
<1> QED
  BY <1>1, <1>9

(* The instance's cardinality is the one the theorems about sets know.         *)
LEMMA CountedAlike ==
  ASSUME NEW S
  PROVE  Fused!Cardinality(S) = Cardinality(S)
  BY Zenon DEF Fused!Cardinality, Cardinality

(* The candidates that a level confirms or made, and its observations.          *)
Backed(all, l) == {i \in DOMAIN all : l \in all[i].evidence}
OfLevel(ds, l) == {j \in DOMAIN ds : ds[j].level = l}

(* No level is among the evidence of more candidates than it has observations:  *)
(* to each candidate belongs one, to no two the same.                          *)
LEMMA NoneTwice ==
  ASSUME NEW ps, Primary(ps), NEW ds, Derived(ds), NEW n \in Nat, DOMAIN ps = 1 .. n,
         NEW all, NEW m \in Nat, NEW g, Parts(ps, ds, all, n, m, g),
         NEW l, l # "primary"
  PROVE  Fused!Cardinality(Backed(all, l)) <= Fused!Cardinality(OfLevel(ds, l))
<1> DEFINE with == {i \in DOMAIN all : l \in all[i].evidence}
           of == {j \in DOMAIN ds : ds[j].level = l}
           by == [i \in with |-> IF i <= n THEN CHOOSE j \in Claims(ps, ds, i) : ds[j].level = l ELSE g[i - n]]
<1>0. Lone(ps) /\ Lone(ds) /\ \A i \in DOMAIN ps : ps[i].level = "primary"
  BY DEF Primary, Derived
<1>1. ASSUME NEW i \in with, i <= n
      PROVE  i \in 1 .. n /\ by[i] \in Claims(ps, ds, i) /\ by[i] \in of
  <2>1. i \in 1 .. n /\ l \in all[i].evidence
    BY <1>1 DEF Parts
  <2>2. all[i] = Confirmed(ps, ds, i)
    BY <2>1 DEF Parts
  <2>3. all[i].evidence = {ps[i].level} \cup {ds[j].level : j \in Claims(ps, ds, i)}
    BY <1>0, <2>1, <2>2, ConfirmedIs
  <2>4. \E j \in Claims(ps, ds, i) : ds[j].level = l
    BY <1>0, <2>1, <2>3
  <2>5. by[i] = CHOOSE j \in Claims(ps, ds, i) : ds[j].level = l
    BY <1>1
  <2> HIDE DEF by
  <2>6. by[i] \in Claims(ps, ds, i) /\ ds[by[i]].level = l
    BY <2>4, <2>5
  <2> QED
    BY <2>1, <2>6 DEF Claims
<1>2. ASSUME NEW i \in with, ~(i <= n)
      PROVE  /\ i - n \in 1 .. m /\ by[i] = g[i - n] /\ by[i] \in of
             /\ \A h \in 1 .. n : ~Fused!Overlap(ps[h], ds[by[i]])
  <2>1. i \in 1 .. n + m /\ l \in all[i].evidence
    BY DEF Parts
  <2>2. i - n \in 1 .. m /\ n + (i - n) = i
    BY <1>2, <2>1
  <2>3. by[i] = g[i - n]
    BY <1>2
  <2> HIDE DEF by
  <2>4. all[n + (i - n)] = ds[g[i - n]] /\ g[i - n] \in DOMAIN ds /\ \A h \in 1 .. n : ~Fused!Overlap(ps[h], ds[g[i - n]])
    BY <2>2 DEF Parts
  <2>5. all[i] = ds[by[i]] /\ by[i] \in DOMAIN ds
    BY <2>2, <2>3, <2>4
  <2>6. ds[by[i]].evidence = {ds[by[i]].level}
    BY <1>0, <2>5 DEF Lone
  <2>7. ds[by[i]].level = l
    BY <2>1, <2>5, <2>6
  <2> QED
    BY <2>2, <2>3, <2>4, <2>5, <2>7
<1>3. \A i \in with : i \in Int
  BY DEF Parts
<1>4. by \in [with -> of]
  <2>1. \A i \in with : by[i] \in of
    BY <1>1, <1>2
  <2>2. by = [i \in with |-> by[i]]
    OBVIOUS
  <2> HIDE DEF by, with, of
  <2> QED
    BY <2>1, <2>2
<1> HIDE DEF by
<1>5. ASSUME NEW i \in with, NEW k \in with, by[i] = by[k] PROVE i = k
  <2>1. CASE i <= n /\ k <= n
    <3>1. /\ i \in 1 .. n /\ by[i] \in Claims(ps, ds, i)
          /\ k \in 1 .. n /\ by[i] \in Claims(ps, ds, k)
      BY <1>1, <1>5, <2>1
    <3>2. Fused!Overlap(ps[i], ds[by[i]]) /\ Fused!Overlap(ps[k], ds[by[i]])
      BY <3>1 DEF Claims
    <3>3. ~(i < k)
      <4>1. i < k => i \in 1 .. k - 1
        BY <3>1
      <4> QED
        BY <3>1, <3>2, <4>1 DEF Claims
    <3>4. ~(k < i)
      <4>1. k < i => k \in 1 .. i - 1
        BY <3>1
      <4> QED
        BY <3>1, <3>2, <4>1 DEF Claims
    <3> QED
      BY <3>1, <3>3, <3>4
  <2>2. CASE i <= n /\ ~(k <= n)
    <3>1. i \in 1 .. n /\ Fused!Overlap(ps[i], ds[by[i]])
      BY <1>1, <2>2 DEF Claims
    <3>2. ~Fused!Overlap(ps[i], ds[by[i]])
      BY <1>2, <1>5, <2>2, <3>1
    <3> QED
      BY <3>1, <3>2
  <2>3. CASE ~(i <= n) /\ k <= n
    <3>1. k \in 1 .. n /\ Fused!Overlap(ps[k], ds[by[k]])
      BY <1>1, <2>3 DEF Claims
    <3>2. ~Fused!Overlap(ps[k], ds[by[k]])
      BY <1>2, <1>5, <2>3, <3>1
    <3> QED
      BY <3>1, <3>2
  <2>4. CASE ~(i <= n) /\ ~(k <= n)
    <3>1. i - n \in 1 .. m /\ k - n \in 1 .. m /\ g[i - n] = g[k - n]
      BY <1>2, <1>5, <2>4
    <3>2. i - n = k - n
      BY <3>1 DEF Parts
    <3> QED
      BY <1>3, <3>2
  <2> QED
    BY <2>1, <2>2, <2>3, <2>4
<1>6. IsFiniteSet(of)
  <2>1. ds \in Seq(Candidate)
    BY <1>0 DEF Lone
  <2>2. PICK k \in Nat : DOMAIN ds = 1 .. k
    BY <2>1
  <2>3. IsFiniteSet(1 .. k)
    <3>1. PICK one \in Int : one = 1
      OBVIOUS
    <3>2. IsFiniteSet(one .. k)
      BY FS_Interval
    <3> QED
      BY <3>1, <3>2
  <2> QED
    BY <2>2, <2>3, FS_Subset
<1> HIDE DEF with, of
<1>7. by \in Injection(with, of)
  BY <1>4, <1>5 DEF Injection, IsInjective
<1>8. Cardinality(with) <= Cardinality(of)
  BY <1>6, <1>7, FS_Injection
<1> QED
  BY <1>8, CountedAlike DEF Backed, OfLevel, with, of

(* No observation is lost.                                                    *)
LEMMA NoneLost ==
  ASSUME Observing, NEW ps, Primary(ps), NEW ds, Derived(ds), NEW n \in Nat, DOMAIN ps = 1 .. n,
         NEW all, NEW m \in Nat, NEW g, Parts(ps, ds, all, n, m, g),
         NEW j \in DOMAIN ds
  PROVE  \E i \in DOMAIN all : ds[j].level \in all[i].evidence /\ Fused!Overlap(all[i], ds[j])
<1>0. Lone(ps) /\ Lone(ds)
  BY DEF Primary, Derived
<1>1. CASE \E h \in 1 .. n : Fused!Overlap(ps[h], ds[j])
  <2> DEFINE over == {h \in 1 .. n : Fused!Overlap(ps[h], ds[j])}
  <2>1. over \in SUBSET Nat /\ over # {}
    BY <1>1
  <2>2. PICK i \in over : \A h \in over : i <= h
    BY <2>1, Least
  <2>3. i \in 1 .. n /\ Fused!Overlap(ps[i], ds[j])
    OBVIOUS
  <2>4. j \in Claims(ps, ds, i)
    <3>1. \A h \in 1 .. i - 1 : h \in 1 .. n /\ ~(i <= h)
      BY <2>3
    <3>2. \A h \in 1 .. i - 1 : h \notin over
      BY <2>2, <3>1
    <3>3. \A h \in 1 .. i - 1 : ~Fused!Overlap(ps[h], ds[j])
      BY <3>1, <3>2
    <3> QED
      BY <2>3, <3>3 DEF Claims
  <2> HIDE DEF over
  <2>5. i \in DOMAIN all /\ all[i] = Confirmed(ps, ds, i)
    BY <2>3 DEF Parts
  <2>6. /\ all[i].level = ps[i].level /\ all[i].at = ps[i].at /\ all[i].bw = ps[i].bw
        /\ all[i].evidence = {ps[i].level} \cup {ds[k].level : k \in Claims(ps, ds, i)}
    BY <1>0, <2>3, <2>5, ConfirmedIs
  <2>7. Fused!Overlap(all[i], ds[j])
    BY <2>3, <2>6, SamePlace
  <2> QED
    BY <2>4, <2>5, <2>6, <2>7
<1>2. CASE ~\E h \in 1 .. n : Fused!Overlap(ps[h], ds[j])
  <2>1. PICK i \in 1 .. m : g[i] = j
    BY <1>2 DEF Parts
  <2>2. n + i \in DOMAIN all /\ all[n + i] = ds[j]
    BY <2>1 DEF Parts
  <2>3. ds[j] \in Candidate /\ ds[j].evidence = {ds[j].level}
    BY <1>0 DEF Lone
  <2>4. Fused!Overlap(ds[j], ds[j])
    BY <2>3, OverlapsItself
  <2> QED
    BY <2>2, <2>3, <2>4
<1> QED
  BY <1>1, <1>2

(* What is confirmed was observed by another detector where it lies.            *)
LEMMA ConfirmedByOthers ==
  ASSUME NEW ps, Primary(ps), NEW ds, Derived(ds), NEW n \in Nat, DOMAIN ps = 1 .. n,
         NEW all, NEW m \in Nat, NEW g, Parts(ps, ds, all, n, m, g),
         NEW i \in DOMAIN all, Fused!EvidenceState(all[i]).confirmed
  PROVE  \E j \in DOMAIN ds : ds[j].id # all[i].id /\ Fused!Overlap(all[i], ds[j])
<1> DEFINE name(l) == IF l = "sharp" THEN "primary" ELSE l
           levels == {name(l) : l \in all[i].evidence}
<1>0. /\ Lone(ps) /\ Lone(ds)
      /\ \A k \in DOMAIN ps : ps[k].level = "primary"
      /\ \A k \in DOMAIN ds : ds[k].level # "primary"
  BY DEF Primary, Derived
<1>1. Fused!Cardinality(levels) >= 2
  BY DEF Fused!EvidenceState
<1>2. ASSUME NEW x, levels = {x} PROVE FALSE
  <2>1. Cardinality({x}) = 1
    BY FS_Singleton
  <2> HIDE DEF levels
  <2> QED
    BY <1>1, <1>2, <2>1, CountedAlike
<1>3. \A x : all[i].evidence # {x}
  <2> SUFFICES ASSUME NEW x, all[i].evidence = {x} PROVE FALSE
    OBVIOUS
  <2>1. levels = {name(x)}
    OBVIOUS
  <2> HIDE DEF levels, name
  <2> QED
    BY <1>2, <2>1
<1> HIDE DEF levels
<1>4. CASE i \in 1 .. n
  <2>1. all[i] = Confirmed(ps, ds, i)
    BY <1>4 DEF Parts
  <2>2. /\ all[i].level = ps[i].level /\ all[i].at = ps[i].at /\ all[i].bw = ps[i].bw /\ all[i].id = ps[i].id
        /\ all[i].evidence = {ps[i].level} \cup {ds[k].level : k \in Claims(ps, ds, i)}
    BY <1>0, <1>4, <2>1, ConfirmedIs
  <2>3. PICK j \in Claims(ps, ds, i) : TRUE
    <3>1. CASE Claims(ps, ds, i) = {}
      <4>1. all[i].evidence = {ps[i].level}
        BY <2>2, <3>1
      <4> QED
        BY <1>3, <4>1
    <3> QED
      BY <3>1
  <2>4. j \in DOMAIN ds /\ Fused!Overlap(ps[i], ds[j])
    BY DEF Claims
  <2>5. Fused!Overlap(all[i], ds[j])
    BY <2>2, <2>4, SamePlace
  <2>6. ds[j].id[1] = ds[j].level /\ ps[i].id[1] = ps[i].level
    BY <1>0, <1>4, <2>4 DEF Lone
  <2>7. ds[j].id # all[i].id
    BY <1>0, <1>4, <2>2, <2>4, <2>6
  <2> QED
    BY <2>4, <2>5, <2>7
<1>5. CASE ~(i \in 1 .. n)
  <2>1. i \in 1 .. n + m
    BY DEF Parts
  <2>2. i - n \in 1 .. m /\ n + (i - n) = i
    BY <1>5, <2>1
  <2>3. all[n + (i - n)] = ds[g[i - n]] /\ g[i - n] \in DOMAIN ds
    BY <2>2 DEF Parts
  <2>4. all[i].evidence = {all[i].level}
    BY <1>0, <2>2, <2>3 DEF Lone
  <2> QED
    BY <1>3, <2>4
<1> QED
  BY <1>4, <1>5
-----------------------------------------------------------------------------
(* Once there are candidates of several levels, they are what fusing bands of   *)
(* the primary detector with the others' gives.                                *)
FusionInv ==
  /\ found \in Primaries /\ other \in Seconds
  /\ how = "levels" /\ candidates # <<>> =>
       \E gated \in Seq(Found) :
         candidates = Fused!FuseCandidates(Fused!CandidatesFromSignals(gated), Fused!CandidatesFromSignals(other))

(* Such candidates count each observation once.                                *)
LEMMA FusionSays == Observing /\ FusionInv => Fused!ObservedOnce
<1> SUFFICES ASSUME Observing, FusionInv, how = "levels", candidates # <<>>
             PROVE  Fused!ObservedOnce
  BY DEF Fused!ObservedOnce
<1>0. PICK gated \in Seq(Found) :
        candidates = Fused!FuseCandidates(Fused!CandidatesFromSignals(gated), Fused!CandidatesFromSignals(other))
  BY DEF FusionInv
<1> DEFINE ps == Fused!CandidatesFromSignals(gated)
           ds == Fused!CandidatesFromSignals(other)
<1>1. Lone(ps) /\ Primary(ps)
  <2>1. Found \subseteq [level : DOMAIN BinOf, at : Int, bw : Nat, snr : Int]
    BY DEF Found, Observing
  <2>2. Lone(ps) /\ DOMAIN ps = DOMAIN gated /\ \A i \in DOMAIN ps : ps[i].level = gated[i].level
    BY <2>1, CandidatesAre
  <2>3. \A i \in DOMAIN gated : gated[i] \in Found
    OBVIOUS
  <2>4. \A c \in Found : c.level = "primary"
    BY DEF Found
  <2> HIDE DEF ps
  <2> QED
    BY <2>2, <2>3, <2>4 DEF Primary
<1>2. Lone(ds) /\ Derived(ds) /\ DOMAIN ds = DOMAIN other /\ \A j \in DOMAIN ds : ds[j].level = other[j].level
  <2>1. other \in Seq(Seen)
    BY DEF FusionInv, Observing
  <2>2. Seen \subseteq [level : DOMAIN BinOf, at : Int, bw : Nat, snr : Int]
    BY DEF Seen
  <2>3. Lone(ds) /\ DOMAIN ds = DOMAIN other /\ \A j \in DOMAIN ds : ds[j].level = other[j].level
    BY <2>1, <2>2, CandidatesAre
  <2>4. \A j \in DOMAIN other : other[j] \in Seen
    BY <2>1
  <2>5. \A c \in Seen : c.level # "primary"
    BY DEF Seen
  <2> HIDE DEF ds
  <2> QED
    BY <2>3, <2>4, <2>5 DEF Derived
<1>3. candidates = Fused!FuseCandidates(ps, ds)
  BY <1>0
<1> HIDE DEF ps
<1>4. PICK n \in Nat : n = Len(ps)
  BY <1>1 DEF Lone
<1>5. DOMAIN ps = 1 .. n /\ \E m \in Nat : \E g : Parts(ps, ds, candidates, n, m, g)
  BY <1>1, <1>2, <1>3, <1>4, FusedParts
<1>6. PICK m \in Nat : \E g : Parts(ps, ds, candidates, n, m, g)
  BY <1>5
<1>7. PICK g : Parts(ps, ds, candidates, n, m, g)
  BY <1>6
<1>8. ASSUME NEW l \in DOMAIN BinOf \ {"primary"}
      PROVE  Fused!Cardinality({i \in DOMAIN candidates : l \in candidates[i].evidence})
               <= Fused!Cardinality({j \in DOMAIN other : other[j].level = l})
  <2>1. OfLevel(ds, l) = {j \in DOMAIN other : other[j].level = l}
    BY <1>2 DEF OfLevel
  <2>2. Backed(candidates, l) = {i \in DOMAIN candidates : l \in candidates[i].evidence}
    BY DEF Backed
  <2>3. Fused!Cardinality(Backed(candidates, l)) <= Fused!Cardinality(OfLevel(ds, l))
    <3> HIDE DEF ds
    <3>1. l # "primary" /\ Primary(ps) /\ Derived(ds) /\ DOMAIN ps = 1 .. n
      BY <1>1, <1>2, <1>5
    <3> QED
      BY <3>1, <1>7, NoneTwice
  <2> QED
    BY <2>1, <2>2, <2>3
<1>9. \A j \in DOMAIN ds : \E i \in DOMAIN candidates :
        ds[j].level \in candidates[i].evidence /\ Fused!Overlap(candidates[i], ds[j])
  BY <1>1, <1>2, <1>5, <1>7, NoneLost
<1>10. \A i \in DOMAIN candidates : Fused!EvidenceState(candidates[i]).confirmed =>
         \E j \in DOMAIN ds : ds[j].id # candidates[i].id /\ Fused!Overlap(candidates[i], ds[j])
  BY <1>1, <1>2, <1>5, <1>7, ConfirmedByOthers
<1> QED
  BY <1>8, <1>9, <1>10, Zenon DEF Fused!ObservedOnce

(* ObservedOnce: what several detectors found in one frame becomes one list in   *)
(* which every observation counts, and counts once: for any bands found, any     *)
(* levels with their bins and any bands of interest (FuseCandidates,             *)
(* candidate_fusion.go:41).                                                   *)
THEOREM ObservedExactlyOnce == Observing /\ Fused!Spec => []Fused!ObservedOnce
<1> SUFFICES ASSUME Observing PROVE Fused!Spec => []Fused!ObservedOnce
  OBVIOUS
<1>1. Fused!Init => FusionInv
  BY DEF Fused!Init, FusionInv
<1>2. FusionInv /\ [Fused!Next]_Fused!vars => FusionInv'
  <2> SUFFICES ASSUME FusionInv, [Fused!Next]_Fused!vars PROVE FusionInv'
    OBVIOUS
  <2>1. CASE Fused!Fuse
    <3> DEFINE gated == Fused!GateSignalsToBands(found)
    <3>1. found' = found /\ other' = other /\ how' = how
      BY <2>1 DEF Fused!Fuse
    <3>2. how = "levels" => candidates' = Fused!FuseCandidates(Fused!CandidatesFromSignals(gated), Fused!CandidatesFromSignals(other))
      BY <2>1, Zenon DEF Fused!Fuse
    <3>3. gated \in Seq(Found)
      BY GatedWereFound DEF FusionInv, Observing
    <3> HIDE DEF gated
    <3>4. Fused!CandidatesFromSignals(other)' = Fused!CandidatesFromSignals(other)
      BY <3>1 DEF Fused!CandidatesFromSignals
    <3> QED
      BY <3>1, <3>2, <3>3, <3>4 DEF FusionInv
  <2>2. CASE UNCHANGED Fused!vars
    BY <2>2 DEF Fused!vars, FusionInv
  <2> QED
    BY <2>1, <2>2 DEF Fused!Next
<1>3. FusionInv => Fused!ObservedOnce
  BY FusionSays
<1> QED
  BY <1>1, <1>2, <1>3, PTL DEF Fused!Spec
-----------------------------------------------------------------------------
(* A spectrum has bins, a window train cells on either side.                   *)
SpectraSized ==
  /\ Cells \in Nat \ {0} /\ Powers \subseteq Int
  /\ Trains \subseteq Nat \ {0} /\ Guards \subseteq Nat /\ Ranks \subseteq Int

(* What is given and stays.                                                   *)
Spectra == spectrum \in [1 .. Cells -> Powers] /\ shape \in Noise!Shapes

(* The level of a bin, counted from 0, also beyond the ends.                   *)
Bin(i) == Noise!At(spectrum, shape, i)

LEMMA BinIs ==
  ASSUME SpectraSized, Spectra, NEW i \in Int
  PROVE  Bin(i) \in Int
<1>1. Cells \in Nat /\ Cells >= 1 /\ Powers \subseteq Int
  BY DEF SpectraSized
<1>2. ASSUME NEW a \in Int PROVE a % Cells \in 0 .. Cells - 1
  BY <1>1
<1>3. ((i % Cells) + Cells) % Cells \in 0 .. Cells - 1
  <2>1. (i % Cells) + Cells \in Int
    BY <1>1, <1>2
  <2> QED
    BY <1>2, <2>1
<1>4. Noise!ClampInt(i, 0, Cells - 1) \in 0 .. Cells - 1
  BY <1>1 DEF Noise!ClampInt
<1>5. \A a \in 0 .. Cells - 1 : spectrum[1 + a] \in Int
  <2>1. \A a \in 0 .. Cells - 1 : 1 + a \in 1 .. Cells
    BY <1>1
  <2> QED
    BY <1>1, <2>1 DEF Spectra
<1>6. CASE shape.wrap
  BY <1>3, <1>5, <1>6 DEF Bin, Noise!At
<1>7. CASE ~shape.wrap
  BY <1>4, <1>5, <1>7 DEF Bin, Noise!At
<1> QED
  BY <1>6, <1>7

(* The parts of a shape.                                                      *)
LEMMA ShapeIs ==
  ASSUME SpectraSized, Spectra
  PROVE  /\ shape.train \in Nat /\ shape.train >= 1 /\ shape.guard \in Nat /\ shape.rank \in Int
         /\ Cells \in Nat /\ Cells >= 1
<1>1. shape.train \in Trains /\ shape.guard \in Guards /\ shape.rank \in Ranks
  BY DEF Spectra, Noise!Shapes
<1>2. \A x \in Trains : x \in Nat /\ x >= 1
  <2>1. \A x \in Trains : x \in Nat \ {0}
    BY DEF SpectraSized
  <2> QED
    BY <2>1
<1>3. (\A x \in Guards : x \in Nat) /\ (\A x \in Ranks : x \in Int) /\ Cells \in Nat /\ Cells >= 1
  BY DEF SpectraSized
<1> QED
  BY <1>1, <1>2, <1>3

(* Adding goes through the numbers.                                           *)
LEMMA SumSteps ==
  ASSUME NEW s, NEW n \in Nat, DOMAIN s = 1 .. n
  PROVE  \E f : GoesThrough("add", <<>>, 0, s, n, f) /\ Noise!SumOf(s) = f[n]
<1> DEFINE iter == CHOOSE g : Iterates("add", <<>>, 0, s, g)
<1>1. Noise!SumOf(s) = iter[DOMAIN s]
  BY DEF Noise!SumOf, Noise!FoldLeft, Noise!MapThenFoldSet, Noise!Max, Max, Iterates, Step
<1>2. Iterates("add", <<>>, 0, s, iter)
  <2>1. \E g : Iterates("add", <<>>, 0, s, g)
    BY IterExists, Zenon
  <2> QED
    BY <2>1, Zenon
<1> HIDE DEF iter
<1>3. PICK f : GoesThrough("add", <<>>, 0, s, n, f) /\ iter[DOMAIN s] = f[n]
  <2>1. Passes("add", <<>>, 0, s, n, iter[DOMAIN s])
    BY <1>2, FoldSteps, Zenon
  <2> QED
    BY <2>1, Zenon DEF Passes
<1> QED
  BY <1>1, <1>3

(* What the steps of a sum are.                                               *)
LEMMA SumStepsAre ==
  ASSUME NEW n \in Nat, NEW s \in [1 .. n -> Int], NEW f, GoesThrough("add", <<>>, 0, s, n, f)
  PROVE  /\ f[0] = 0 /\ \A k \in 0 .. n : f[k] \in Int
         /\ \A k \in 1 .. n : f[k] = f[k - 1] + s[k]
<1>1. f[0] = 0 /\ \A k \in 1 .. n : f[k] = f[k - 1] + s[k]
  BY DEF GoesThrough, Step
<1> DEFINE good == {k \in 0 .. n : f[k] \in Int}
<1>2. 0 \in good
  BY <1>1
<1>3. ASSUME NEW k \in Nat, k < n, k \in good PROVE k + 1 \in good
  <2>1. k + 1 \in 1 .. n /\ (k + 1) - 1 = k /\ k + 1 \in 0 .. n /\ s[k + 1] \in Int
    BY <1>3
  <2>2. f[k + 1] = f[k] + s[k + 1]
    BY <1>1, <2>1
  <2> QED
    BY <1>3, <2>1, <2>2
<1>4. \A k \in 0 .. n : k \in good
  <2> HIDE DEF good
  <2> QED
    BY <1>2, <1>3, Induction
<1> QED
  BY <1>1, <1>4

(* A side that moves on by a place.                                            *)
Moves(n, s, t) ==
  /\ n \in Nat /\ n >= 1 /\ s \in [1 .. n -> Int] /\ t \in [1 .. n -> Int]
  /\ \A k \in 1 .. n - 1 : t[k] = s[k + 1]

(* Its sum is a number, gains what enters and loses what leaves.                *)
LEMMA SumShifts ==
  ASSUME NEW n, NEW s, NEW t, Moves(n, s, t)
  PROVE  /\ Noise!SumOf(s) \in Int /\ Noise!SumOf(t) \in Int
         /\ Noise!SumOf(t) = Noise!SumOf(s) - s[1] + t[n]
<1> DEFINE first == s[1]
           last == t[n]
<1>0. /\ n \in Nat /\ n >= 1 /\ s \in [1 .. n -> Int] /\ t \in [1 .. n -> Int]
      /\ \A k \in 1 .. n - 1 : t[k] = s[k + 1]
      /\ first \in Int /\ last \in Int /\ s[1] = first /\ t[n] = last
  BY DEF Moves
<1> HIDE DEF first, last
<1>1. PICK f : GoesThrough("add", <<>>, 0, s, n, f) /\ Noise!SumOf(s) = f[n]
  BY <1>0, SumSteps
<1>2. PICK g : GoesThrough("add", <<>>, 0, t, n, g) /\ Noise!SumOf(t) = g[n]
  BY <1>0, SumSteps
<1>3. /\ f[0] = 0 /\ \A k \in 0 .. n : f[k] \in Int
      /\ \A k \in 1 .. n : f[k] = f[k - 1] + s[k]
  BY <1>0, <1>1, SumStepsAre
<1>4. /\ g[0] = 0 /\ \A k \in 0 .. n : g[k] \in Int
      /\ \A k \in 1 .. n : g[k] = g[k - 1] + t[k]
  BY <1>0, <1>2, SumStepsAre
<1> DEFINE good == {k \in 0 .. n - 1 : g[k] = f[k + 1] - first}
<1>5. 0 \in good
  <2>1. 1 \in 1 .. n /\ f[1] = f[0] + s[1] /\ 0 \in 0 .. n - 1
    BY <1>0, <1>3
  <2> QED
    BY <1>0, <1>3, <1>4, <2>1
<1>6. ASSUME NEW k \in Nat, k < n - 1, k \in good PROVE k + 1 \in good
  <2>1. /\ k + 1 \in 1 .. n - 1 /\ k + 1 \in 1 .. n /\ k + 2 \in 1 .. n /\ k + 1 \in 0 .. n - 1
        /\ (k + 1) - 1 = k /\ (k + 2) - 1 = k + 1 /\ (k + 1) + 1 = k + 2
    BY <1>0, <1>6
  <2>2. g[k + 1] = g[k] + t[k + 1] /\ f[k + 2] = f[k + 1] + s[k + 2] /\ t[k + 1] = s[k + 2]
    BY <1>0, <1>3, <1>4, <2>1
  <2>3. g[k] = f[k + 1] - first /\ f[k + 1] \in Int /\ f[k + 2] \in Int /\ s[k + 2] \in Int
    BY <1>0, <1>3, <1>6, <2>1
  <2>4. f[k + 2] - first = f[k + 1] - first + s[k + 2]
    <3>1. first \in Int
      BY <1>0
    <3> QED
      BY ONLY <2>2, <2>3, <3>1
  <2>5. g[k + 1] = f[k + 2] - first
    BY <2>2, <2>3, <2>4, Zenon
  <2> QED
    BY <2>1, <2>5
<1>7. n - 1 \in good
  <2> HIDE DEF good
  <2>1. n - 1 \in Nat
    BY <1>0
  <2>2. \A k \in 0 .. n - 1 : k \in good
    BY <1>5, <1>6, <2>1, Induction
  <2> QED
    BY <2>1, <2>2
<1>8. g[n - 1] = f[n] - first /\ g[n] = g[n - 1] + last
  <2>1. (n - 1) + 1 = n /\ n \in 1 .. n
    BY <1>0
  <2> QED
    BY <1>0, <1>4, <1>7, <2>1
<1>9. f[n] \in Int /\ g[n] \in Int /\ g[n - 1] \in Int
  BY <1>0, <1>3, <1>4
<1> QED
  BY <1>0, <1>1, <1>2, <1>8, <1>9

(* The two sides of a bin.                                                    *)
Below(i) == [k \in 1 .. shape.train |-> Bin(i - shape.guard - k)]
Above(i) == [k \in 1 .. shape.train |-> Bin(i + shape.guard + k)]

LEMMA SidesAre ==
  ASSUME SpectraSized, Spectra, NEW i \in Int
  PROVE  /\ Below(i) \in [1 .. shape.train -> Int] /\ Above(i) \in [1 .. shape.train -> Int]
         /\ Noise!Side(i, -1) = Below(i) /\ Noise!Side(i, 1) = Above(i)
<1> DEFINE t == shape.train
           g == shape.guard
<1>1. t \in Nat /\ g \in Nat
  BY ShapeIs
<1>2. ASSUME NEW k \in 1 .. t
      PROVE  /\ i - g - k \in Int /\ i + g + k \in Int
             /\ i + (-1) * (g + k) = i - g - k /\ i + 1 * (g + k) = i + g + k
  <2>1. k \in Int
    BY <1>1
  <2>2. (-1) * (g + k) = -(g + k) /\ 1 * (g + k) = g + k
    BY <1>1, <2>1
  <2> QED
    BY <1>1, <2>1, <2>2
<1>3. \A k \in 1 .. t : Bin(i - g - k) \in Int /\ Bin(i + g + k) \in Int
  BY <1>2, BinIs
<1>4. Noise!Side(i, -1) = [k \in 1 .. t |-> Bin(i + (-1) * (g + k))] /\ Noise!Side(i, 1) = [k \in 1 .. t |-> Bin(i + 1 * (g + k))]
  BY DEF Noise!Side, Bin
<1>5. Noise!Side(i, -1) = [k \in 1 .. t |-> Bin(i - g - k)] /\ Noise!Side(i, 1) = [k \in 1 .. t |-> Bin(i + g + k)]
  BY <1>2, <1>4
<1> QED
  BY <1>3, <1>5 DEF Below, Above

(* The sums of the two sides.                                                  *)
Sums(i) == [left |-> Noise!SumOf(Below(i)), right |-> Noise!SumOf(Above(i))]

(* What leaves a side and what enters it when the bin moves on by one.           *)
LEMMA SidesMove ==
  ASSUME SpectraSized, Spectra, NEW i \in Nat, i >= 1
  PROVE  LET t == shape.train g == shape.guard h == i - 1 IN
         /\ Bin(i - 1 - g - t) \in Int /\ Bin(i - g - 1) \in Int
         /\ Bin(i - 1 + g + 1) \in Int /\ Bin(i + g + t) \in Int
         /\ Below(h)[t] = Bin(i - 1 - g - t) /\ Below(i)[1] = Bin(i - g - 1)
         /\ Above(h)[1] = Bin(i - 1 + g + 1) /\ Above(i)[t] = Bin(i + g + t)
         /\ \A k \in 1 .. t - 1 : Below(h)[k] = Below(i)[k + 1] /\ Above(i)[k] = Above(h)[k + 1]
<1> DEFINE t == shape.train
           g == shape.guard
           h == i - 1
<1>1. t \in Nat /\ t >= 1 /\ g \in Nat /\ h \in Int /\ i \in Int
  BY ShapeIs
<1>2. /\ \A k \in 1 .. t : Below(i)[k] = Bin(i - g - k) /\ Above(i)[k] = Bin(i + g + k)
      /\ \A k \in 1 .. t : Below(h)[k] = Bin(h - g - k) /\ Above(h)[k] = Bin(h + g + k)
  BY DEF Below, Above
<1>3. Bin(i - 1 - g - t) \in Int /\ Bin(i - g - 1) \in Int /\ Bin(i - 1 + g + 1) \in Int /\ Bin(i + g + t) \in Int
  <2>1. i - 1 - g - t \in Int /\ i - g - 1 \in Int /\ i - 1 + g + 1 \in Int /\ i + g + t \in Int
    BY <1>1
  <2> QED
    BY <2>1, BinIs
<1>4. /\ Below(h)[t] = Bin(i - 1 - g - t) /\ Below(i)[1] = Bin(i - g - 1)
      /\ Above(h)[1] = Bin(i - 1 + g + 1) /\ Above(i)[t] = Bin(i + g + t)
  <2>1. 1 \in 1 .. t /\ t \in 1 .. t
    BY <1>1
  <2>2. h - g - t = i - 1 - g - t /\ h + g + 1 = i - 1 + g + 1
    OBVIOUS
  <2> QED
    BY <1>2, <2>1, <2>2
<1>5. \A k \in 1 .. t - 1 : Below(h)[k] = Below(i)[k + 1] /\ Above(i)[k] = Above(h)[k + 1]
  <2> SUFFICES ASSUME NEW k \in 1 .. t - 1 PROVE Below(h)[k] = Below(i)[k + 1] /\ Above(i)[k] = Above(h)[k + 1]
    OBVIOUS
  <2>1. k \in 1 .. t /\ k + 1 \in 1 .. t
    BY <1>1
  <2>2. h - g - k = i - g - (k + 1) /\ i + g + k = h + g + (k + 1)
    BY <1>1, <2>1
  <2> QED
    BY <1>2, <2>1, <2>2
<1> QED
  BY <1>3, <1>4, <1>5

(* Sliding gives the sums of the next bin.                                     *)
LEMMA SlideIs ==
  ASSUME SpectraSized, Spectra, NEW i \in Nat, i >= 1
  PROVE  /\ Noise!Slide(spectrum, shape, Sums(i - 1), i) = Sums(i)
         /\ Sums(i).left \in Int /\ Sums(i).right \in Int
         /\ Sums(i - 1).left \in Int /\ Sums(i - 1).right \in Int
<1> DEFINE t == shape.train
           g == shape.guard
           h == i - 1
           gone == Bin(i - 1 - g - t)
           come == Bin(i - g - 1)
           past == Bin(i - 1 + g + 1)
           next == Bin(i + g + t)
<1>1. t \in Nat /\ t >= 1 /\ h \in Int /\ i \in Int
  BY ShapeIs
<1>2. /\ Below(i) \in [1 .. t -> Int] /\ Above(i) \in [1 .. t -> Int]
      /\ Below(h) \in [1 .. t -> Int] /\ Above(h) \in [1 .. t -> Int]
  BY <1>1, SidesAre
<1>3. /\ gone \in Int /\ come \in Int /\ past \in Int /\ next \in Int
      /\ Below(i)[1] = come /\ Below(h)[t] = gone /\ Above(h)[1] = past /\ Above(i)[t] = next
      /\ \A k \in 1 .. t - 1 : Below(h)[k] = Below(i)[k + 1] /\ Above(i)[k] = Above(h)[k + 1]
  BY SidesMove
<1> HIDE DEF gone, come, past, next, t, h
<1>4. /\ Noise!SumOf(Below(i)) \in Int /\ Noise!SumOf(Below(h)) \in Int
      /\ Noise!SumOf(Below(h)) = Noise!SumOf(Below(i)) - come + gone
  <2> DEFINE from == Below(i)
             to == Below(h)
  <2>1. Moves(t, from, to) /\ from[1] = come /\ to[t] = gone
    BY <1>1, <1>2, <1>3 DEF Moves
  <2> HIDE DEF from, to
  <2>2. /\ Noise!SumOf(from) \in Int /\ Noise!SumOf(to) \in Int
        /\ Noise!SumOf(to) = Noise!SumOf(from) - from[1] + to[t]
    BY ONLY <2>1, SumShifts, Zenon
  <2> QED
    BY <2>1, <2>2 DEF from, to
<1>5. /\ Noise!SumOf(Above(h)) \in Int /\ Noise!SumOf(Above(i)) \in Int
      /\ Noise!SumOf(Above(i)) = Noise!SumOf(Above(h)) - past + next
  <2> DEFINE from == Above(h)
             to == Above(i)
  <2>1. Moves(t, from, to) /\ from[1] = past /\ to[t] = next
    BY <1>1, <1>2, <1>3 DEF Moves
  <2> HIDE DEF from, to
  <2>2. /\ Noise!SumOf(from) \in Int /\ Noise!SumOf(to) \in Int
        /\ Noise!SumOf(to) = Noise!SumOf(from) - from[1] + to[t]
    BY ONLY <2>1, SumShifts, Zenon
  <2> QED
    BY <2>1, <2>2 DEF from, to
<1>6. Noise!SumOf(Below(h)) - gone + come = Noise!SumOf(Below(i)) /\ Noise!SumOf(Above(h)) - past + next = Noise!SumOf(Above(i))
  BY <1>3, <1>4, <1>5
<1>7. Noise!Slide(spectrum, shape, Sums(h), i)
         = [left |-> Noise!SumOf(Below(h)) - gone + come, right |-> Noise!SumOf(Above(h)) - past + next]
  BY DEF Noise!Slide, Sums, gone, come, past, next, t, Bin
<1> QED
  BY <1>4, <1>5, <1>6, <1>7 DEF Sums, h

(* Sliding goes through the bins.                                             *)
LEMMA WindowSteps ==
  ASSUME NEW n \in Nat, n = Cells - 1
  PROVE  \E f : /\ GoesThrough("slide", <<spectrum, shape>>,
                              <<[left |-> Noise!Left(spectrum, shape), right |-> Noise!Right(spectrum, shape)]>>,
                              [i \in 1 .. n |-> i], n, f)
                /\ Noise!Windows(spectrum, shape) = f[n]
<1> DEFINE base == <<[left |-> Noise!Left(spectrum, shape), right |-> Noise!Right(spectrum, shape)]>>
           order == [i \in 1 .. n |-> i]
           c == <<spectrum, shape>>
           iter == CHOOSE g : Iterates("slide", c, base, order, g)
<1>1. Noise!Windows(spectrum, shape) = iter[DOMAIN order]
  BY DEF Noise!Windows, Noise!FoldLeft, Noise!MapThenFoldSet, Noise!Max, Max, Iterates, Step
<1>2. DOMAIN order = 1 .. n
  OBVIOUS
<1> HIDE DEF order, c, base
<1>3. Iterates("slide", c, base, order, iter)
  <2>1. \E g : Iterates("slide", c, base, order, g)
    BY <1>2, IterExists, Zenon
  <2> QED
    BY <2>1, Zenon
<1> HIDE DEF iter
<1>4. PICK f : GoesThrough("slide", c, base, order, n, f) /\ iter[DOMAIN order] = f[n]
  <2>1. Passes("slide", c, base, order, n, iter[DOMAIN order])
    BY <1>2, <1>3, FoldSteps, Zenon
  <2> QED
    BY <2>1, Zenon DEF Passes
<1> QED
  BY <1>1, <1>4 DEF order, c, base

(* At every bin the windows hold the sums of its own sides.                    *)
LEMMA WindowsAre ==
  ASSUME SpectraSized, Spectra
  PROVE  \A i \in 0 .. Cells - 1 : /\ Noise!Windows(spectrum, shape)[i + 1] = Sums(i)
                                   /\ Sums(i).left \in Int /\ Sums(i).right \in Int
<1> DEFINE W == [left : Int, right : Int]
           Fine(k, ws) == ws \in Seq(W) /\ Len(ws) = k + 1 /\ \A i \in 0 .. k : ws[i + 1] = Sums(i)
<1>1. PICK n \in Nat : n = Cells - 1
  BY ShapeIs
<1>2. PICK f : /\ GoesThrough("slide", <<spectrum, shape>>,
                             <<[left |-> Noise!Left(spectrum, shape), right |-> Noise!Right(spectrum, shape)]>>,
                             [i \in 1 .. n |-> i], n, f)
               /\ Noise!Windows(spectrum, shape) = f[n]
  BY <1>1, WindowSteps
<1>3. \A i \in Nat : Sums(i) \in W
  <2> SUFFICES ASSUME NEW i \in Nat PROVE Sums(i) \in W
    OBVIOUS
  <2>1. i + 1 \in Nat /\ i + 1 >= 1 /\ (i + 1) - 1 = i
    OBVIOUS
  <2>2. Sums(i).left \in Int /\ Sums(i).right \in Int
    BY <2>1, SlideIs
  <2> QED
    BY <2>2 DEF Sums
<1> DEFINE good == {k \in 0 .. n : Fine(k, f[k])}
<1>4. 0 \in good
  <2>1. f[0] = <<Sums(0)>>
    <3>1. Noise!Left(spectrum, shape) = Noise!SumOf(Below(0)) /\ Noise!Right(spectrum, shape) = Noise!SumOf(Above(0))
      BY DEF Noise!Left, Noise!Right, Below, Above, Bin
    <3>2. f[0] = <<[left |-> Noise!Left(spectrum, shape), right |-> Noise!Right(spectrum, shape)]>>
      BY <1>2 DEF GoesThrough
    <3> QED
      BY <3>1, <3>2 DEF Sums
  <2>2. Sums(0) \in W
    BY <1>3
  <2> HIDE DEF W
  <2>3. f[0] \in Seq(W) /\ Len(f[0]) = 0 + 1
    BY <2>1, <2>2
  <2>4. \A i \in 0 .. 0 : f[0][i + 1] = Sums(i)
    BY <2>1
  <2>5. Fine(0, f[0]) /\ 0 \in 0 .. n
    BY <2>3, <2>4
  <2> HIDE DEF Fine
  <2> QED
    BY <2>5
<1>5. ASSUME NEW k \in Nat, k < n, k \in good PROVE k + 1 \in good
  <2>1. k + 1 \in 1 .. n /\ (k + 1) - 1 = k /\ k + 1 \in 0 .. n /\ k + 1 \in Nat /\ k + 1 >= 1
    BY <1>5
  <2> DEFINE ws == f[k]
             w == Sums(k + 1)
  <2>2. ws \in Seq(W) /\ Len(ws) = k + 1 /\ \A i \in 0 .. k : ws[i + 1] = Sums(i)
    BY <1>5
  <2>3. f[k + 1] = Append(ws, Noise!Slide(spectrum, shape, Noise!Last(ws), k + 1))
    <3>1. f[k + 1] = Step("slide", <<spectrum, shape>>, f[(k + 1) - 1], [i \in 1 .. n |-> i][k + 1])
      BY <1>2, <2>1 DEF GoesThrough
    <3> QED
      BY <2>1, <3>1 DEF Step
  <2>4. Noise!Last(ws) = Sums((k + 1) - 1)
    BY <2>1, <2>2 DEF Noise!Last
  <2>5. f[k + 1] = Append(ws, w)
    BY <2>1, <2>3, <2>4, SlideIs
  <2>6. w \in W
    BY <1>3, <2>1
  <2> HIDE DEF W, ws, w
  <2>7. /\ f[k + 1] \in Seq(W) /\ Len(f[k + 1]) = (k + 1) + 1
        /\ \A i \in 1 .. k + 1 : f[k + 1][i] = ws[i]
        /\ f[k + 1][(k + 1) + 1] = w
    BY <2>2, <2>5, <2>6, AppendProperties
  <2>8. \A i \in 0 .. k + 1 : f[k + 1][i + 1] = Sums(i)
    <3>1. \A i \in 0 .. k + 1 : (i \in 0 .. k /\ i + 1 \in 1 .. k + 1) \/ i = k + 1
      OBVIOUS
    <3> QED
      BY <2>2, <2>7, <3>1 DEF w
  <2>9. Fine(k + 1, f[k + 1])
    BY <2>7, <2>8
  <2> HIDE DEF Fine
  <2> QED
    BY <2>1, <2>9
<1>6. n \in good
  <2> HIDE DEF good
  <2>1. \A k \in 0 .. n : k \in good
    BY <1>4, <1>5, Induction
  <2> QED
    BY <2>1
<1>7. \A i \in 0 .. Cells - 1 : f[n][i + 1] = Sums(i) /\ Sums(i) \in W
  <2>1. Fine(n, f[n])
    BY <1>6
  <2>2. \A i \in 0 .. Cells - 1 : i \in 0 .. n /\ i \in Nat
    BY <1>1
  <2> HIDE DEF W
  <2> QED
    BY <1>3, <2>1, <2>2
<1> QED
  BY <1>2, <1>7
-----------------------------------------------------------------------------
(* How many numbers of a sequence are at most x.                               *)
Upto(s, x) == Cardinality({k \in DOMAIN s : s[k] <= x})

(* And whether v is, as a number.                                              *)
One(v, x) == IF v <= x THEN 1 ELSE 0

LEMMA UptoIs ==
  ASSUME NEW s \in Seq(Int), NEW x
  PROVE  IsFiniteSet({k \in DOMAIN s : s[k] <= x}) /\ Upto(s, x) \in Nat
<1>1. PICK n \in Nat : DOMAIN s = 1 .. n
  OBVIOUS
<1>2. IsFiniteSet(1 .. n)
  <2>1. PICK one \in Int : one = 1
    OBVIOUS
  <2>2. IsFiniteSet(one .. n)
    BY FS_Interval
  <2> QED
    BY <2>1, <2>2
<1>3. {k \in DOMAIN s : s[k] <= x} \in SUBSET (1 .. n)
  BY <1>1
<1>4. IsFiniteSet({k \in DOMAIN s : s[k] <= x})
  BY <1>2, <1>3, FS_Subset
<1> QED
  BY <1>4, FS_CardinalityType DEF Upto

(* Sequence b is sequence a with v put in at place p.                           *)
Put(a, b, p, v) ==
  /\ Len(b) = Len(a) + 1 /\ p \in 1 .. Len(b) /\ b[p] = v
  /\ \A k \in 1 .. p - 1 : b[k] = a[k]
  /\ \A k \in p .. Len(a) : b[k + 1] = a[k]

(* It then counts with the others.                                            *)
LEMMA PutCounts ==
  ASSUME NEW a \in Seq(Int), NEW b \in Seq(Int), NEW p, NEW v \in Int, Put(a, b, p, v), NEW x \in Int
  PROVE  Upto(b, x) = Upto(a, x) + One(v, x)
<1> DEFINE A == {k \in DOMAIN a : a[k] <= x}
           B == {k \in DOMAIN b : b[k] <= x}
           C == B \ {p}
           move == [k \in A |-> IF k < p THEN k ELSE k + 1]
<1>1. PICK n \in Nat : n = Len(a) /\ DOMAIN a = 1 .. n
  OBVIOUS
<1>2. /\ DOMAIN b = 1 .. n + 1 /\ p \in 1 .. n + 1 /\ p \in Int /\ b[p] = v
      /\ \A k \in 1 .. p - 1 : b[k] = a[k]
      /\ \A k \in p .. n : b[k + 1] = a[k]
  BY <1>1 DEF Put
<1>3. IsFiniteSet(A) /\ IsFiniteSet(B)
  BY UptoIs
<1>4. ASSUME NEW k \in A PROVE move[k] \in C /\ k \in 1 .. n
  <2>1. k \in 1 .. n /\ a[k] <= x
    BY <1>1
  <2>2. CASE k < p
    <3>1. k \in 1 .. p - 1 /\ k \in 1 .. n + 1 /\ k # p
      BY <1>2, <2>1, <2>2
    <3> QED
      BY <1>2, <2>1, <2>2, <3>1
  <2>3. CASE ~(k < p)
    <3>1. k \in p .. n /\ k + 1 \in 1 .. n + 1 /\ k + 1 # p
      BY <1>2, <2>1, <2>3
    <3> QED
      BY <1>2, <2>1, <2>3, <3>1
  <2> QED
    BY <2>1, <2>2, <2>3
<1>5. ASSUME NEW j \in C PROVE \E k \in A : move[k] = j
  <2>1. j \in 1 .. n + 1 /\ j # p /\ b[j] <= x
    BY <1>2
  <2>2. CASE j < p
    <3>1. j \in 1 .. p - 1 /\ j \in 1 .. n
      BY <1>2, <2>1, <2>2
    <3>2. j \in A
      BY <1>1, <1>2, <2>1, <3>1
    <3> QED
      BY <2>2, <3>2
  <2>3. CASE ~(j < p)
    <3> DEFINE k == j - 1
    <3>0. n \in Nat /\ p \in 1 .. n + 1 /\ j \in 1 .. n + 1 /\ j # p /\ ~(j < p)
      BY <1>2, <2>1, <2>3
    <3>1. k \in p .. n /\ k \in 1 .. n /\ k + 1 = j /\ ~(k < p)
      BY ONLY <3>0
    <3> HIDE DEF k
    <3>2. k \in A
      BY <1>1, <1>2, <2>1, <3>1
    <3> QED
      BY <3>1, <3>2
  <2> QED
    BY <2>2, <2>3
<1>6. ASSUME NEW j \in A, NEW k \in A, move[j] = move[k] PROVE j = k
  <2>1. j \in Int /\ k \in Int
    BY <1>4
  <2>2. move[j] = (IF j < p THEN j ELSE j + 1) /\ move[k] = (IF k < p THEN k ELSE k + 1)
    OBVIOUS
  <2>3. p \in Int
    BY <1>2
  <2>4. (IF j < p THEN j ELSE j + 1) = (IF k < p THEN k ELSE k + 1)
    BY <1>6, <2>2
  <2> QED
    BY ONLY <2>1, <2>3, <2>4
<1>7. Cardinality(C) = Cardinality(A)
  <2>1. DOMAIN move = A
    OBVIOUS
  <2> HIDE DEF A, C, move
  <2>2. move \in [A -> C]
    <3>1. \A k \in A : move[k] \in C
      BY <1>4
    <3>2. move = [k \in A |-> move[k]]
      BY DEF move
    <3> QED
      BY <3>1, <3>2
  <2>3. move \in Injection(A, C)
    BY <1>6, <2>2 DEF Injection, IsInjective
  <2>4. move \in Surjection(A, C)
    BY <1>5, <2>2 DEF Surjection
  <2>5. ExistsBijection(A, C)
    BY <2>3, <2>4 DEF ExistsBijection, Bijection
  <2> QED
    BY <1>3, <2>5, FS_Bijection
<1>8. p \in B <=> v <= x
  BY <1>2
<1>9. Cardinality(C) = IF p \in B THEN Cardinality(B) - 1 ELSE Cardinality(B)
  BY <1>3, FS_RemoveElement
<1>10. Cardinality(A) = Upto(a, x) /\ Cardinality(B) = Upto(b, x) /\ Upto(a, x) \in Nat /\ Upto(b, x) \in Nat
  BY UptoIs DEF Upto
<1> HIDE DEF A, B, C, move
<1>11. CASE v <= x
  <2>1. Cardinality(C) = Cardinality(B) - 1
    BY <1>8, <1>9, <1>11, Zenon
  <2> QED
    BY <1>7, <1>10, <1>11, <2>1 DEF One
<1>12. CASE ~(v <= x)
  <2>1. Cardinality(C) = Cardinality(B)
    BY <1>8, <1>9, <1>12, Zenon
  <2> QED
    BY <1>7, <1>10, <1>12, <2>1 DEF One
<1> QED
  BY <1>11, <1>12

(* Counts grow with the bound, and by something where a number is.              *)
LEMMA Occurs ==
  ASSUME NEW s \in Seq(Int), NEW x \in Int
  PROVE  /\ Upto(s, x) >= Upto(s, x - 1)
         /\ Upto(s, x) > Upto(s, x - 1) <=> \E k \in DOMAIN s : s[k] = x
<1> DEFINE A == {k \in DOMAIN s : s[k] <= x - 1}
           B == {k \in DOMAIN s : s[k] <= x}
<1>1. \A k \in DOMAIN s : s[k] \in Int
  OBVIOUS
<1>2. A \in SUBSET B /\ (A = B <=> ~\E k \in DOMAIN s : s[k] = x)
  <2>1. \A k \in DOMAIN s : s[k] <= x <=> s[k] <= x - 1 \/ s[k] = x
    BY <1>1
  <2>2. \A k \in DOMAIN s : s[k] = x => ~(s[k] <= x - 1)
    BY <1>1
  <2> QED
    BY <2>1, <2>2
<1>3. IsFiniteSet(B) /\ Cardinality(B) = Upto(s, x) /\ Cardinality(A) = Upto(s, x - 1)
      /\ Upto(s, x) \in Nat /\ Upto(s, x - 1) \in Nat
  BY UptoIs DEF Upto
<1> HIDE DEF A, B
<1>4. Cardinality(A) <= Cardinality(B) /\ (Cardinality(B) = Cardinality(A) => B = A)
  BY <1>2, <1>3, FS_Subset
<1> QED
  BY <1>2, <1>3, <1>4

(* When a side moves on by a place, one number leaves it and one enters.         *)
LEMMA SideCounts ==
  ASSUME NEW n, NEW s, NEW t, Moves(n, s, t)
  PROVE  \A x \in Int : Upto(t, x) + One(s[1], x) = Upto(s, x) + One(t[n], x)
<1> DEFINE first == s[1]
           last == t[n]
<1>0. /\ n \in Nat /\ n >= 1 /\ s \in [1 .. n -> Int] /\ t \in [1 .. n -> Int]
      /\ \A k \in 1 .. n - 1 : t[k] = s[k + 1]
      /\ first \in Int /\ last \in Int /\ s[1] = first /\ t[n] = last
  BY DEF Moves
<1> HIDE DEF first, last
<1> SUFFICES ASSUME NEW x \in Int PROVE Upto(t, x) + One(first, x) = Upto(s, x) + One(last, x)
  BY <1>0
<1> DEFINE all == Append(s, last)
<1>1. s \in Seq(Int) /\ t \in Seq(Int) /\ Len(s) = n /\ Len(t) = n
  BY <1>0, SeqDef, LenProperties
<1>2. /\ all \in Seq(Int) /\ Len(all) = n + 1
      /\ \A k \in 1 .. n : all[k] = s[k]
      /\ all[n + 1] = last
  BY <1>0, <1>1, AppendProperties
<1> HIDE DEF all
<1>3. Put(s, all, n + 1, last)
  <2>1. n + 1 \in 1 .. n + 1 /\ (n + 1) - 1 = n /\ \A k \in n + 1 .. n : FALSE
    BY <1>0
  <2> QED
    BY <1>1, <1>2, <2>1 DEF Put
<1>4. Put(t, all, 1, first)
  <2>1. 1 \in 1 .. n + 1 /\ all[1] = first
    BY <1>0, <1>2
  <2>2. \A k \in 1 .. n : all[k + 1] = t[k]
    <3> SUFFICES ASSUME NEW k \in 1 .. n PROVE all[k + 1] = t[k]
      OBVIOUS
    <3>1. CASE k = n
      BY <1>0, <1>2, <3>1
    <3>2. CASE k # n
      <4>1. k \in 1 .. n - 1 /\ k + 1 \in 1 .. n
        BY <1>0, <3>2
      <4> QED
        BY <1>0, <1>2, <4>1
    <3> QED
      BY <3>1, <3>2
  <2>3. \A k \in 1 .. 1 - 1 : FALSE
    OBVIOUS
  <2> QED
    BY <1>1, <1>2, <2>1, <2>2, <2>3 DEF Put
<1>5. Upto(all, x) = Upto(s, x) + One(last, x)
  BY <1>0, <1>1, <1>2, <1>3, PutCounts
<1>6. Upto(all, x) = Upto(t, x) + One(first, x)
  BY <1>0, <1>1, <1>2, <1>4, PutCounts
<1> QED
  BY <1>5, <1>6

(* The numbers of two sequences count together in one after the other.                                    *)
LEMMA BothCount ==
  ASSUME NEW a \in Seq(Int), NEW b \in Seq(Int), NEW c \in Seq(Int), Joined(c, a, b), NEW x \in Int
  PROVE  Upto(c, x) = Upto(a, x) + Upto(b, x)
<1> DEFINE m == Len(a)
           n == Len(b)
           A == {k \in DOMAIN a : a[k] <= x}
           B == {k \in DOMAIN b : b[k] <= x}
           C == {k \in DOMAIN c : c[k] <= x}
           D == C \ A
           move == [k \in B |-> m + k]
<1>0. m \in Nat /\ n \in Nat /\ (\A k \in 1 .. m : c[k] = a[k]) /\ \A k \in 1 .. n : c[m + k] = b[k]
  <2>1. m \in Nat /\ n \in Nat
    OBVIOUS
  <2>2. /\ \A k \in 1 .. m : c[k] = a[k]
        /\ \A k \in m + 1 .. m + n : c[k] = b[k - m]
    BY DEF Joined
  <2> HIDE DEF m, n
  <2>3. \A k \in 1 .. n : m + k \in m + 1 .. m + n /\ (m + k) - m = k
    BY <2>1
  <2> QED
    BY <2>1, <2>2, <2>3
<1>1. DOMAIN a = 1 .. m /\ DOMAIN b = 1 .. n /\ DOMAIN c = 1 .. m + n
  BY DEF Joined
<1> HIDE DEF m, n
<1>2. IsFiniteSet(A) /\ IsFiniteSet(B) /\ IsFiniteSet(C)
  BY UptoIs
<1>3. A \subseteq C
  BY <1>0, <1>1
<1>4. ASSUME NEW k \in B PROVE move[k] \in D /\ k \in 1 .. n
  <2>1. k \in 1 .. n /\ b[k] <= x
    BY <1>1
  <2>2. m + k \in 1 .. m + n /\ m + k \notin 1 .. m /\ c[m + k] = b[k]
    BY <1>0, <2>1
  <2>3. move[k] = m + k
    OBVIOUS
  <2> HIDE DEF move
  <2> QED
    BY <1>1, <2>1, <2>2, <2>3
<1>5. ASSUME NEW j \in D PROVE \E k \in B : move[k] = j
  <2> DEFINE k == j - m
  <2>1. j \in 1 .. m + n /\ c[j] <= x
    BY <1>1
  <2>2. j \notin 1 .. m
    <3>1. j \in 1 .. m => c[j] = a[j]
      BY <1>0
    <3> QED
      BY <1>1, <2>1, <3>1
  <2>3. k \in 1 .. n /\ m + k = j
    BY <1>0, <2>1, <2>2
  <2> HIDE DEF k
  <2>4. k \in B
    BY <1>0, <1>1, <2>1, <2>3
  <2> QED
    BY <2>3, <2>4
<1>6. ASSUME NEW j \in B, NEW k \in B, move[j] = move[k] PROVE j = k
  <2>1. j \in Int /\ k \in Int /\ m + j = m + k
    BY <1>4, <1>6
  <2> QED
    BY <1>0, <2>1
<1>7. Cardinality(D) = Cardinality(B) /\ IsFiniteSet(D)
  <2>1. DOMAIN move = B
    OBVIOUS
  <2> HIDE DEF B, D, move
  <2>2. move \in [B -> D]
    <3>1. \A k \in B : move[k] \in D
      BY <1>4
    <3>2. move = [k \in B |-> move[k]]
      BY DEF move
    <3> QED
      BY <3>1, <3>2
  <2>3. move \in Injection(B, D)
    BY <1>6, <2>2 DEF Injection, IsInjective
  <2>4. move \in Surjection(B, D)
    BY <1>5, <2>2 DEF Surjection
  <2>5. ExistsBijection(B, D)
    BY <2>3, <2>4 DEF ExistsBijection, Bijection
  <2> QED
    BY <1>2, <2>5, FS_Bijection
<1>8. C = A \cup D /\ A \cap D = {}
  BY <1>3
<1>9. Cardinality(A) = Upto(a, x) /\ Cardinality(B) = Upto(b, x) /\ Cardinality(C) = Upto(c, x)
      /\ Upto(a, x) \in Nat /\ Upto(b, x) \in Nat
  BY UptoIs DEF Upto
<1> HIDE DEF A, B, C, D, move
<1>10. Cardinality(C) = Cardinality(A) + Cardinality(D) - Cardinality(A \cap D)
  BY <1>2, <1>7, <1>8, FS_Union
<1>11. Cardinality(A \cap D) = 0
  BY <1>8, FS_EmptySet
<1> QED
  BY <1>7, <1>9, <1>10, <1>11

(* In ascending order.                                                        *)
Ascends(s) == \A i, j \in 1 .. Len(s) : i < j => s[i] <= s[j]

(* What is less than v comes first in such an order.                           *)
LEMMA LessComeFirst ==
  ASSUME NEW s \in Seq(Int), Ascends(s), NEW v \in Int, NEW n, n = Noise!Cardinality({i \in DOMAIN s : s[i] < v})
  PROVE  n \in 0 .. Len(s) /\ \A i \in 1 .. Len(s) : s[i] < v <=> i <= n
<1> DEFINE S == {i \in DOMAIN s : s[i] < v}
<1>1. PICK m \in Nat : m = Len(s) /\ DOMAIN s = 1 .. m
  OBVIOUS
<1>2. Noise!Cardinality(S) = Cardinality(S)
  BY Zenon DEF Noise!Cardinality, Cardinality
<1>3. CASE S = {}
  <2>1. n = 0
    BY <1>2, <1>3, FS_EmptySet
  <2>2. \A i \in 1 .. m : ~(s[i] < v)
    BY <1>1, <1>3
  <2> HIDE DEF S
  <2>3. \A i \in 1 .. m : ~(i <= n)
    BY <2>1
  <2>4. n \in 0 .. m /\ \A i \in 1 .. m : s[i] < v <=> i <= n
    BY <2>1, <2>2, <2>3
  <2> QED
    BY <1>1, <2>4, Zenon
<1>4. CASE S # {}
  <2>1. S \in SUBSET (1 .. m)
    BY <1>1
  <2> DEFINE top == Max(S)
  <2>2. top \in S /\ \A i \in S : i <= top
    BY <1>4, <2>1, MaxIs
  <2> HIDE DEF top
  <2>3. top \in 1 .. m /\ s[top] < v
    BY <1>1, <2>2
  <2>4. \A i \in 1 .. m : s[i] < v <=> i <= top
    <3> SUFFICES ASSUME NEW i \in 1 .. m PROVE s[i] < v <=> i <= top
      OBVIOUS
    <3>1. s[i] \in Int /\ s[top] \in Int
      BY <1>1, <2>3
    <3>2. s[i] < v => i <= top
      BY <1>1, <2>2
    <3>3. i <= top => s[i] <= s[top]
      BY <1>1, <2>3, <3>1 DEF Ascends
    <3> QED
      BY <2>3, <3>1, <3>2, <3>3
  <2>5. S = 1 .. top
    <3>1. \A i : i \in 1 .. top <=> i \in 1 .. m /\ i <= top
      BY <2>3
    <3> QED
      BY <1>1, <2>4, <3>1
  <2>6. Cardinality(1 .. top) = top
    <3>1. PICK one \in Int : one = 1
      OBVIOUS
    <3>2. Cardinality(one .. top) = IF one > top THEN 0 ELSE top - one + 1
      BY <2>3, FS_Interval
    <3> QED
      BY <2>3, <3>1, <3>2
  <2>7. n = top
    BY <1>2, <2>5, <2>6
  <2> HIDE DEF S
  <2>8. n \in 0 .. m
    BY ONLY <1>1, <2>3, <2>7
  <2>9. \A i \in 1 .. m : s[i] < v <=> i <= n
    BY ONLY <2>4, <2>7, Zenon
  <2> QED
    BY <1>1, <2>8, <2>9, Zenon
<1> QED
  BY <1>3, <1>4

(* A part of a sequence.                                                       *)
LEMMA PartIs ==
  ASSUME NEW s \in Seq(Int), NEW a \in Nat, NEW m \in Nat, a + m <= Len(s), NEW b \in Int, b = a + m,
         NEW first \in Int, first = a + 1
  PROVE  /\ SubSeq(s, first, b) \in Seq(Int) /\ Len(SubSeq(s, first, b)) = m
         /\ \A i \in 1 .. m : SubSeq(s, first, b)[i] = s[a + i]
<1> DEFINE part == SubSeq(s, first, b)
<1>1. \A i \in first .. b : s[i] \in Int
  <2>1. \A i \in first .. b : i \in 1 .. Len(s)
    OBVIOUS
  <2> QED
    BY <2>1
<1>2. /\ part \in Seq(Int) /\ Len(part) = IF first <= b THEN b - first + 1 ELSE 0
      /\ \A i \in 1 .. b - first + 1 : part[i] = s[first + i - 1]
  BY ONLY <1>1, SubSeqProperties, first \in Int, b \in Int
<1> HIDE DEF part
<1>3. b - first + 1 = m /\ (first <= b <=> m # 0) /\ \A i \in 1 .. m : first + i - 1 = a + i
  OBVIOUS
<1>4. Len(part) = m
  BY <1>2, <1>3
<1>5. \A i \in 1 .. m : part[i] = s[a + i]
  BY <1>2, <1>3
<1> QED
  BY <1>2, <1>4, <1>5 DEF part

(* A number is put in its place.                                              *)
LEMMA InsertIs ==
  ASSUME NEW s \in Seq(Int), Ascends(s), NEW v \in Int, NEW more, more = Noise!InsertSorted(s, v)
  PROVE  more \in Seq(Int) /\ Len(more) = Len(s) + 1 /\ Ascends(more) /\ \E p : Put(s, more, p, v)
<1> DEFINE n == Noise!Cardinality({i \in DOMAIN s : s[i] < v})
           pre == SubSeq(s, 1, n)
           post == SubSeq(s, n + 1, Len(s))
<1>1. n \in 0 .. Len(s) /\ \A i \in 1 .. Len(s) : s[i] < v <=> i <= n
  BY LessComeFirst
<1>2. more = (SubSeq(s, 1, (n + 1) - 1) \o <<v>>) \o SubSeq(s, n + 1, Len(s))
  BY DEF Noise!InsertSorted, Noise!InsertAt
<1> HIDE DEF n
<1>3. PICK m \in Nat : m = Len(s) /\ DOMAIN s = 1 .. m
  OBVIOUS
<1>4. n \in Nat /\ n <= m /\ (n + 1) - 1 = n
  BY <1>1, <1>3
<1>5. more = (pre \o <<v>>) \o post
  BY <1>2, <1>3, <1>4
<1>6. pre \in Seq(Int) /\ Len(pre) = n /\ \A i \in 1 .. n : pre[i] = s[i]
  <2>1. 0 \in Nat /\ n \in Nat /\ 0 + n <= Len(s) /\ n \in Int /\ n = 0 + n /\ 1 \in Int /\ 1 = 0 + 1
    BY <1>3, <1>4
  <2>2. pre \in Seq(Int) /\ Len(pre) = n /\ \A i \in 1 .. n : pre[i] = s[0 + i]
    BY ONLY <2>1, s \in Seq(Int), PartIs DEF pre
  <2>3. \A i \in 1 .. n : 0 + i = i
    OBVIOUS
  <2> HIDE DEF pre
  <2> QED
    BY <2>2, <2>3
<1>7. post \in Seq(Int) /\ Len(post) = m - n /\ \A i \in 1 .. m - n : post[i] = s[n + i]
  <2>1. n \in Nat /\ m - n \in Nat /\ n + (m - n) <= Len(s) /\ Len(s) \in Int /\ Len(s) = n + (m - n) /\ n + 1 \in Int
    BY <1>3, <1>4
  <2> QED
    BY ONLY <2>1, s \in Seq(Int), PartIs DEF post
<1> HIDE DEF pre, post
<1> DEFINE part == pre \o <<v>>
<1>8. /\ part \in Seq(Int) /\ Len(part) = n + 1 /\ part[n + 1] = v
      /\ \A i \in 1 .. n : part[i] = s[i]
  <2>1. <<v>> \in Seq(Int) /\ Len(<<v>>) = 1 /\ <<v>>[1] = v
    OBVIOUS
  <2>a. pre \in Seq(Int) /\ Len(pre) = n /\ <<v>> \in Seq(Int) /\ Len(<<v>>) = 1
    BY <1>6, <2>1, Zenon
  <2>b. /\ part \in Seq(Int) /\ Len(part) = Len(pre) + Len(<<v>>)
        /\ \A i \in 1 .. Len(pre) + Len(<<v>>) : part[i] = IF i <= Len(pre) THEN pre[i] ELSE <<v>>[i - Len(pre)]
    BY ONLY <2>a, ConcatProperties
  <2>2. /\ part \in Seq(Int) /\ Len(part) = n + 1
        /\ \A i \in 1 .. n + 1 : part[i] = IF i <= n THEN pre[i] ELSE <<v>>[i - n]
    BY ONLY <2>a, <2>b
  <2> HIDE DEF part
  <2>3. n + 1 \in 1 .. n + 1 /\ ~(n + 1 <= n) /\ (n + 1) - n = 1 /\ \A i \in 1 .. n : i \in 1 .. n + 1 /\ i <= n
    BY <1>4
  <2> QED
    BY <1>6, <2>1, <2>2, <2>3
<1> HIDE DEF part
<1>9. /\ more \in Seq(Int) /\ Len(more) = m + 1 /\ more[n + 1] = v
      /\ \A i \in 1 .. n : more[i] = s[i]
      /\ \A i \in n + 1 .. m : more[i + 1] = s[i]
  <2>a. more = part \o post
    BY <1>5 DEF part
  <2>b. part \in Seq(Int) /\ post \in Seq(Int)
    BY <1>7, <1>8
  <2>c. /\ part \o post \in Seq(Int) /\ Len(part \o post) = Len(part) + Len(post)
        /\ \A i \in 1 .. Len(part) + Len(post) : (part \o post)[i] = IF i <= Len(part) THEN part[i] ELSE post[i - Len(part)]
    BY ONLY <2>b, ConcatProperties
  <2>1. /\ more \in Seq(Int) /\ Len(more) = (n + 1) + (m - n)
        /\ \A i \in 1 .. (n + 1) + (m - n) : more[i] = IF i <= n + 1 THEN part[i] ELSE post[i - (n + 1)]
    BY <1>7, <1>8, <2>a, <2>c
  <2>2. (n + 1) + (m - n) = m + 1
    BY <1>4
  <2>3. \A i \in 1 .. n + 1 : i \in 1 .. m + 1 /\ i <= n + 1
    BY <1>4
  <2>4. \A i \in n + 1 .. m : /\ i + 1 \in 1 .. m + 1 /\ ~(i + 1 <= n + 1)
                             /\ (i + 1) - (n + 1) \in 1 .. m - n /\ n + ((i + 1) - (n + 1)) = i
    BY <1>4
  <2>5. \A i \in 1 .. n + 1 : more[i] = part[i]
    BY <2>1, <2>2, <2>3
  <2>6. \A i \in n + 1 .. m : more[i + 1] = s[i]
    BY <1>7, <2>1, <2>2, <2>4
  <2>7. n + 1 \in 1 .. n + 1 /\ \A i \in 1 .. n : i \in 1 .. n + 1
    BY <1>4
  <2> QED
    BY <1>8, <2>1, <2>2, <2>5, <2>6, <2>7
<1>10. Put(s, more, n + 1, v)
  <2>1. n + 1 \in 1 .. m + 1 /\ (n + 1) - 1 = n
    BY <1>4
  <2> QED
    BY <1>3, <1>9, <2>1 DEF Put
<1>11. Ascends(more)
  <2> SUFFICES ASSUME NEW i \in 1 .. m + 1, NEW j \in 1 .. m + 1, i < j PROVE more[i] <= more[j]
    BY <1>9 DEF Ascends
  <2>1. \A a \in 1 .. m : s[a] \in Int
    BY <1>3
  <2>2. \A a, b \in 1 .. m : a < b => s[a] <= s[b]
    BY <1>3 DEF Ascends
  <2>3. \A a \in 1 .. m : (a <= n => s[a] <= v) /\ (~(a <= n) => v <= s[a])
    BY <1>1, <1>3, <2>1
  <2>4. CASE j <= n
    <3>1. i \in 1 .. n /\ j \in 1 .. n /\ i \in 1 .. m /\ j \in 1 .. m
      BY <1>4, <2>4
    <3> QED
      BY <1>9, <2>2, <3>1
  <2>5. CASE j = n + 1
    <3>1. i \in 1 .. n /\ i \in 1 .. m /\ i <= n
      BY <1>4, <2>5
    <3> QED
      BY <1>9, <2>3, <2>5, <3>1
  <2>6. CASE j > n + 1
    <3> DEFINE b == j - 1
    <3>1. b \in n + 1 .. m /\ b \in 1 .. m /\ b + 1 = j /\ ~(b <= n)
      BY <1>4, <2>6
    <3> HIDE DEF b
    <3>2. more[j] = s[b]
      BY <1>9, <3>1
    <3>3. CASE i <= n
      <4>1. i \in 1 .. n /\ i \in 1 .. m /\ i < b
        BY <1>4, <3>1, <3>3
      <4> QED
        BY <1>9, <2>2, <3>1, <3>2, <4>1
    <3>4. CASE i = n + 1
      BY <1>9, <2>3, <3>1, <3>2, <3>4
    <3>5. CASE i > n + 1
      <4> DEFINE a == i - 1
      <4>1. a \in n + 1 .. m /\ a \in 1 .. m /\ a + 1 = i /\ a < b
        BY <1>4, <3>1, <3>5
      <4> HIDE DEF a
      <4>2. more[i] = s[a]
        BY <1>9, <4>1
      <4> QED
        BY <2>2, <3>1, <3>2, <4>1, <4>2
    <3> QED
      BY <1>4, <3>3, <3>4, <3>5
  <2> QED
    BY <1>4, <2>4, <2>5, <2>6
<1> QED
  BY <1>3, <1>9, <1>10, <1>11

(* The first place of some.                                                    *)
LEMMA MinIs ==
  ASSUME NEW n \in Nat, NEW s \in SUBSET (1 .. n), s # {}
  PROVE  Noise!Min(s) \in s
<1>1. s \in SUBSET Nat
  OBVIOUS
<1>2. \E x \in s : \A y \in s : x <= y
  BY <1>1, Least
<1>3. Noise!Min(s) \in s
  BY <1>2 DEF Noise!Min
<1> QED
  BY <1>3

(* A number that occurs is taken out at its place.                              *)
LEMMA RemoveIs ==
  ASSUME NEW s \in Seq(Int), Ascends(s), NEW v \in Int, \E k \in DOMAIN s : s[k] = v,
         NEW less, less = Noise!RemoveSorted(s, v)
  PROVE  less \in Seq(Int) /\ Len(s) = Len(less) + 1 /\ Ascends(less) /\ \E p : Put(less, s, p, v)
<1> DEFINE at == {i \in DOMAIN s : s[i] = v}
           p == Noise!Min(at)
           pre == SubSeq(s, 1, p - 1)
           post == SubSeq(s, p + 1, Len(s))
<1>1. PICK m \in Nat : m = Len(s) /\ DOMAIN s = 1 .. m
  OBVIOUS
<1>2. at \in SUBSET (1 .. m) /\ at # {}
  BY <1>1
<1>3. p \in at
  <2> HIDE DEF at
  <2>1. m \in Nat /\ at \in SUBSET (1 .. m) /\ at # {}
    BY <1>2
  <2>2. Noise!Min(at) \in at
    BY ONLY <2>1, MinIs
  <2> QED
    BY <2>2
<1>4. less = pre \o post
  <2>1. less = SubSeq(s, 1, p - 1) \o SubSeq(s, p + 1, Len(s))
    BY <1>2 DEF Noise!RemoveSorted, Noise!RemoveAt
  <2> QED
    BY <2>1
<1>5. p \in 1 .. m /\ s[p] = v
  BY <1>1, <1>3
<1> HIDE DEF p, at
<1>6. pre \in Seq(Int) /\ Len(pre) = p - 1 /\ \A i \in 1 .. p - 1 : pre[i] = s[i]
  <2>1. /\ 0 \in Nat /\ p - 1 \in Nat /\ 0 + (p - 1) <= Len(s) /\ p - 1 \in Int /\ p - 1 = 0 + (p - 1)
        /\ 1 \in Int /\ 1 = 0 + 1
    BY <1>1, <1>5
  <2>2. pre \in Seq(Int) /\ Len(pre) = p - 1 /\ \A i \in 1 .. p - 1 : pre[i] = s[0 + i]
    BY ONLY <2>1, s \in Seq(Int), PartIs DEF pre
  <2>3. \A i \in 1 .. p - 1 : 0 + i = i
    BY <1>5
  <2> HIDE DEF pre
  <2> QED
    BY <2>2, <2>3
<1>7. post \in Seq(Int) /\ Len(post) = m - p /\ \A i \in 1 .. m - p : post[i] = s[p + i]
  <2>1. p \in Nat /\ m - p \in Nat /\ p + (m - p) <= Len(s) /\ Len(s) \in Int /\ Len(s) = p + (m - p) /\ p + 1 \in Int
    BY <1>1, <1>5
  <2> QED
    BY ONLY <2>1, s \in Seq(Int), PartIs DEF post
<1> HIDE DEF pre, post
<1>8. /\ less \in Seq(Int) /\ Len(less) = m - 1
      /\ \A i \in 1 .. p - 1 : less[i] = s[i]
      /\ \A i \in p .. m - 1 : less[i] = s[i + 1]
  <2>1. /\ pre \o post \in Seq(Int) /\ Len(pre \o post) = Len(pre) + Len(post)
        /\ \A i \in 1 .. Len(pre) + Len(post) : (pre \o post)[i] = IF i <= Len(pre) THEN pre[i] ELSE post[i - Len(pre)]
    BY ONLY <1>6, <1>7, ConcatProperties
  <2>2. /\ less \in Seq(Int) /\ Len(less) = (p - 1) + (m - p)
        /\ \A i \in 1 .. (p - 1) + (m - p) : less[i] = IF i <= p - 1 THEN pre[i] ELSE post[i - (p - 1)]
    BY <1>4, <1>6, <1>7, <2>1
  <2>3. (p - 1) + (m - p) = m - 1
    BY <1>5
  <2>4. \A i \in 1 .. p - 1 : i \in 1 .. m - 1 /\ i <= p - 1
    BY <1>5
  <2>5. \A i \in p .. m - 1 : /\ i \in 1 .. m - 1 /\ ~(i <= p - 1)
                             /\ i - (p - 1) \in 1 .. m - p /\ p + (i - (p - 1)) = i + 1
    BY <1>5
  <2>6. \A i \in 1 .. p - 1 : less[i] = s[i]
    BY <1>6, <2>2, <2>3, <2>4
  <2>7. \A i \in p .. m - 1 : less[i] = s[i + 1]
    BY <1>7, <2>2, <2>3, <2>5
  <2> QED
    BY <2>2, <2>3, <2>6, <2>7
<1>9. Put(less, s, p, v)
  BY <1>1, <1>5, <1>8 DEF Put
<1>10. Ascends(less)
  <2> SUFFICES ASSUME NEW i \in 1 .. m - 1, NEW j \in 1 .. m - 1, i < j PROVE less[i] <= less[j]
    BY <1>8 DEF Ascends
  <2>1. \A a, b \in 1 .. m : a < b => s[a] <= s[b]
    BY <1>1 DEF Ascends
  <2> DEFINE old(k) == IF k <= p - 1 THEN k ELSE k + 1
  <2>2. \A k \in 1 .. m - 1 : less[k] = s[old(k)] /\ old(k) \in 1 .. m
    <3> SUFFICES ASSUME NEW k \in 1 .. m - 1 PROVE less[k] = s[old(k)] /\ old(k) \in 1 .. m
      OBVIOUS
    <3>1. CASE k <= p - 1
      BY <1>5, <1>8, <3>1
    <3>2. CASE ~(k <= p - 1)
      <4>1. k \in p .. m - 1
        BY <1>5, <3>2
      <4> QED
        BY <1>5, <1>8, <3>2, <4>1
    <3> QED
      BY <3>1, <3>2
  <2>3. old(i) < old(j)
    BY <1>5
  <2> HIDE DEF old
  <2> QED
    BY <2>1, <2>2, <2>3
<1> QED
  BY <1>1, <1>8, <1>9, <1>10

(* The cells of a bin, side after side, the first k of some, and what it means *)
(* that a window holds the cells of a bin in their order.                        *)
CellsOf(i) == [k \in 1 .. 2 * shape.train |->
                 IF k <= shape.train THEN Bin(i - shape.guard - k) ELSE Bin(i + shape.guard + k - shape.train)]
First(s, k) == [j \in 1 .. k |-> s[j]]
Sorts(win, i) ==
  /\ win \in Seq(Int) /\ Len(win) = 2 * shape.train /\ Ascends(win)
  /\ \A x \in Int : Upto(win, x) = Upto(Below(i), x) + Upto(Above(i), x)

(* They count as those of the two sides.                                       *)
LEMMA CellsCount ==
  ASSUME SpectraSized, Spectra, NEW i \in Int
  PROVE  /\ CellsOf(i) \in Seq(Int) /\ Len(CellsOf(i)) = 2 * shape.train
         /\ \A x \in Int : Upto(CellsOf(i), x) = Upto(Below(i), x) + Upto(Above(i), x)
<1> DEFINE t == shape.train
           g == shape.guard
           c == CellsOf(i)
           a == Below(i)
           b == Above(i)
<1>1. t \in Nat /\ g \in Nat /\ 2 * t \in Nat /\ 2 * t = t + t
  BY ShapeIs
<1>2. a \in [1 .. t -> Int] /\ b \in [1 .. t -> Int]
  BY SidesAre
<1>3. \A k \in 1 .. t : c[k] = a[k] /\ c[t + k] = b[k]
  <2> SUFFICES ASSUME NEW k \in 1 .. t PROVE c[k] = a[k] /\ c[t + k] = b[k]
    OBVIOUS
  <2>1. k \in 1 .. 2 * t /\ k <= t /\ t + k \in 1 .. 2 * t /\ ~(t + k <= t)
    BY <1>1
  <2>2. i + g + (t + k) - t = i + g + k
    BY <1>1
  <2> QED
    BY <2>1, <2>2 DEF CellsOf, Below, Above
<1>4. c \in [1 .. 2 * t -> Int]
  <2>1. \A k \in 1 .. 2 * t : c[k] \in Int
    <3>1. \A k \in 1 .. 2 * t : k \in 1 .. t \/ (k - t \in 1 .. t /\ t + (k - t) = k)
      BY <1>1
    <3> HIDE DEF c, a, b
    <3> QED
      BY <1>2, <1>3, <3>1
  <2>2. c = [k \in 1 .. 2 * t |-> c[k]]
    BY DEF CellsOf
  <2> HIDE DEF c
  <2> QED
    BY <2>1, <2>2
<1> HIDE DEF c, a, b, t
<1>5. /\ a \in Seq(Int) /\ b \in Seq(Int) /\ c \in Seq(Int)
      /\ Len(a) = t /\ Len(b) = t /\ Len(c) = t + t
  BY <1>1, <1>2, <1>4, SeqDef, LenProperties
<1>6. Joined(c, a, b)
  <2>1. \A k \in t + 1 .. t + t : k - t \in 1 .. t /\ t + (k - t) = k
    BY <1>1
  <2>2. /\ \A k \in 1 .. t : c[k] = a[k]
        /\ \A k \in t + 1 .. t + t : c[k] = b[k - t]
    BY <1>3, <2>1
  <2>3. DOMAIN c = 1 .. t + t
    BY <1>5
  <2> QED
    BY <1>5, <2>2, <2>3 DEF Joined
<1>7. \A x \in Int : Upto(c, x) = Upto(a, x) + Upto(b, x)
  BY <1>5, <1>6, BothCount
<1> QED
  BY <1>1, <1>5, <1>7 DEF c, a, b, t

(* Sorting goes through the cells.                                             *)
LEMMA SortSteps ==
  ASSUME NEW n \in Nat, n = 2 * shape.train, NEW i
  PROVE  \E f : /\ GoesThrough("insert", <<>>, <<>>, CellsOf(i), n, f)
                /\ Noise!SortedCells(spectrum, shape, i) = f[n]
<1> DEFINE order == CellsOf(i)
           iter == CHOOSE g : Iterates("insert", <<>>, <<>>, order, g)
<1>1. Noise!SortedCells(spectrum, shape, i) = iter[DOMAIN order]
  BY DEF Noise!SortedCells, Noise!FoldLeft, Noise!MapThenFoldSet, Noise!Max, Max, Iterates, Step, CellsOf, Bin
<1>2. DOMAIN order = 1 .. n
  BY DEF CellsOf
<1> HIDE DEF order
<1>3. Iterates("insert", <<>>, <<>>, order, iter)
  <2>1. \E g : Iterates("insert", <<>>, <<>>, order, g)
    BY <1>2, IterExists, Zenon
  <2> QED
    BY <2>1, Zenon
<1> HIDE DEF iter
<1>4. PICK f : GoesThrough("insert", <<>>, <<>>, order, n, f) /\ iter[DOMAIN order] = f[n]
  <2>1. Passes("insert", <<>>, <<>>, order, n, iter[DOMAIN order])
    BY <1>2, <1>3, FoldSteps, Zenon
  <2> QED
    BY <2>1, Zenon DEF Passes
<1> QED
  BY <1>1, <1>4 DEF order

(* Put in one after the other, the cells are in their order.                    *)
LEMMA SortIs ==
  ASSUME SpectraSized, Spectra, NEW i \in Int
  PROVE  Sorts(Noise!SortedCells(spectrum, shape, i), i)
<1> DEFINE n == 2 * shape.train
           c == CellsOf(i)
           Fine(k, s) == s \in Seq(Int) /\ Len(s) = k /\ Ascends(s) /\ \A x \in Int : Upto(s, x) = Upto(First(c, k), x)
<1>1. n \in Nat
  BY ShapeIs
<1>2. PICK f : GoesThrough("insert", <<>>, <<>>, c, n, f) /\ Noise!SortedCells(spectrum, shape, i) = f[n]
  BY <1>1, SortSteps
<1>3. c \in Seq(Int) /\ Len(c) = n
  BY CellsCount
<1> HIDE DEF c
<1>4. ASSUME NEW k \in 0 .. n PROVE First(c, k) \in Seq(Int) /\ Len(First(c, k)) = k
  <2>1. \A j \in 1 .. k : c[j] \in Int
    BY <1>1, <1>3
  <2>2. First(c, k) \in [1 .. k -> Int] /\ k \in Nat
    BY <1>1, <2>1 DEF First
  <2> QED
    BY <2>2, SeqDef, LenProperties
<1> HIDE DEF n
<1> DEFINE good == {k \in 0 .. n : Fine(k, f[k])}
<1>5. 0 \in good
  <2>1. f[0] = <<>> /\ First(c, 0) = <<>>
    BY <1>2 DEF GoesThrough, First
  <2>2. f[0] \in Seq(Int) /\ Len(f[0]) = 0 /\ Ascends(f[0])
    BY <2>1 DEF Ascends
  <2>3. \A x \in Int : Upto(f[0], x) = Upto(First(c, 0), x)
    BY <2>1
  <2>4. Fine(0, f[0]) /\ 0 \in 0 .. n
    BY <1>1, <2>2, <2>3
  <2> HIDE DEF Fine
  <2> QED
    BY <2>4
<1>6. ASSUME NEW k \in Nat, k < n, k \in good PROVE k + 1 \in good
  <2> DEFINE v == c[k + 1]
             a == First(c, k)
             b == First(c, k + 1)
             s == f[k]
             more == f[k + 1]
  <2>1. k \in 0 .. n /\ k + 1 \in 0 .. n /\ k + 1 \in 1 .. n /\ (k + 1) - 1 = k
    BY <1>1, <1>6
  <2>2. v \in Int
    BY <1>3, <2>1
  <2>3. s \in Seq(Int) /\ Len(s) = k /\ Ascends(s) /\ \A x \in Int : Upto(s, x) = Upto(a, x)
    BY <1>6
  <2>4. more = Noise!InsertSorted(s, v)
    <3>1. more = Step("insert", <<>>, f[(k + 1) - 1], c[k + 1])
      BY <1>2, <2>1 DEF GoesThrough
    <3> QED
      BY <2>1, <3>1 DEF Step
  <2>5. a \in Seq(Int) /\ b \in Seq(Int) /\ Len(a) = k /\ Len(b) = k + 1
    BY <1>4, <2>1
  <2>6. Put(a, b, k + 1, v)
    <3>1. k + 1 \in 1 .. k + 1 /\ \A j \in 1 .. k : j \in 1 .. k + 1
      OBVIOUS
    <3>2. b[k + 1] = v /\ \A j \in 1 .. k : b[j] = a[j]
      BY <3>1 DEF First
    <3>3. \A j \in k + 1 .. k : FALSE
      OBVIOUS
    <3> HIDE DEF a, b, v
    <3> QED
      BY <2>1, <2>5, <3>1, <3>2, <3>3 DEF Put
  <2> HIDE DEF v, a, b, s, more
  <2>7. more \in Seq(Int) /\ Len(more) = k + 1 /\ Ascends(more)
    BY <2>2, <2>3, <2>4, InsertIs
  <2>8. PICK p : Put(s, more, p, v)
    BY <2>2, <2>3, <2>4, InsertIs
  <2>9. \A x \in Int : Upto(more, x) = Upto(b, x)
    <3> SUFFICES ASSUME NEW x \in Int PROVE Upto(more, x) = Upto(b, x)
      OBVIOUS
    <3>1. Upto(more, x) = Upto(s, x) + One(v, x)
      BY <2>2, <2>3, <2>7, <2>8, PutCounts
    <3>2. Upto(b, x) = Upto(a, x) + One(v, x)
      BY <2>2, <2>5, <2>6, PutCounts
    <3> QED
      BY <2>3, <3>1, <3>2
  <2>10. Fine(k + 1, f[k + 1])
    BY <2>7, <2>9 DEF more, b
  <2> HIDE DEF Fine
  <2> QED
    BY <2>1, <2>10
<1>7. Fine(n, f[n])
  <2> HIDE DEF Fine
  <2>1. n \in 0 .. n
    BY <1>1
  <2>2. \A k \in 0 .. n : k \in good
    <3> HIDE DEF good
    <3> QED
      BY <1>1, <1>5, <1>6, Induction
  <2> QED
    BY <2>1, <2>2
<1>8. First(c, n) = c
  BY <1>1, <1>3 DEF First
<1> QED
  BY <1>2, <1>7, <1>8, CellsCount DEF Sorts, n, c

(* Sliding leaves the cells of the next bin in their order: what is taken out    *)
(* was there, so that nothing is sorted anew.                                   *)
LEMMA SlideSortedIs ==
  ASSUME SpectraSized, Spectra, NEW i \in Nat, i >= 1, NEW win, Sorts(win, i - 1)
  PROVE  Sorts(Noise!SlideSorted(spectrum, shape, win, i), i)
<1> DEFINE t == shape.train
           g == shape.guard
           h == i - 1
           gone == Bin(i - 1 - g - t)
           come == Bin(i - g - 1)
           past == Bin(i - 1 + g + 1)
           next == Bin(i + g + t)
           a == Below(h)
           b == Above(h)
           c == Below(i)
           d == Above(i)
           w1 == Noise!RemoveSorted(win, gone)
           w2 == Noise!RemoveSorted(w1, past)
           w3 == Noise!InsertSorted(w2, come)
           w4 == Noise!InsertSorted(w3, next)
<1>1. t \in Nat /\ t >= 1 /\ h \in Int /\ i \in Int
  BY ShapeIs
<1>2. a \in [1 .. t -> Int] /\ b \in [1 .. t -> Int] /\ c \in [1 .. t -> Int] /\ d \in [1 .. t -> Int]
  BY <1>1, SidesAre
<1>3. /\ gone \in Int /\ come \in Int /\ past \in Int /\ next \in Int
      /\ c[1] = come /\ a[t] = gone /\ b[1] = past /\ d[t] = next
      /\ \A k \in 1 .. t - 1 : a[k] = c[k + 1] /\ d[k] = b[k + 1]
  BY SidesMove
<1>4. win \in Seq(Int) /\ Len(win) = 2 * t /\ Ascends(win) /\ \A x \in Int : Upto(win, x) = Upto(a, x) + Upto(b, x)
  BY DEF Sorts
<1>5. Noise!SlideSorted(spectrum, shape, win, i)
        = IF Len(w4) # 2 * t THEN Noise!SortedCells(spectrum, shape, i) ELSE w4
  BY DEF Noise!SlideSorted, Bin
<1> HIDE DEF t, g, h, gone, come, past, next, a, b, c, d, w1, w2, w3, w4
<1>6. /\ a \in Seq(Int) /\ b \in Seq(Int) /\ c \in Seq(Int) /\ d \in Seq(Int)
      /\ DOMAIN a = 1 .. t /\ DOMAIN b = 1 .. t
  BY <1>1, <1>2, SeqDef
<1>7. \A v, x \in Int : One(v, x) \in {0, 1} /\ (v = x => One(v, x) = 1 /\ One(v, x - 1) = 0)
                       /\ (v # x => One(v, x) = One(v, x - 1))
  BY DEF One
<1>8. \A x \in Int : Upto(a, x) + One(come, x) = Upto(c, x) + One(gone, x)
  <2>1. Moves(t, c, a)
    BY <1>1, <1>2, <1>3 DEF Moves
  <2>2. \A x \in Int : Upto(a, x) + One(c[1], x) = Upto(c, x) + One(a[t], x)
    BY ONLY <2>1, SideCounts
  <2> QED
    BY <1>3, <2>2
<1>9. \A x \in Int : Upto(d, x) + One(past, x) = Upto(b, x) + One(next, x)
  <2>1. Moves(t, b, d)
    BY <1>1, <1>2, <1>3 DEF Moves
  <2>2. \A x \in Int : Upto(d, x) + One(b[1], x) = Upto(b, x) + One(d[t], x)
    BY ONLY <2>1, SideCounts
  <2> QED
    BY <1>3, <2>2
<1>10. \A x \in Int : /\ Upto(a, x) \in Nat /\ Upto(b, x) \in Nat /\ Upto(c, x) \in Nat /\ Upto(d, x) \in Nat
                      /\ Upto(a, x) >= Upto(a, x - 1) /\ Upto(b, x) >= Upto(b, x - 1)
  BY <1>6, UptoIs, Occurs
<1>11. Upto(a, gone) > Upto(a, gone - 1) /\ Upto(b, past) > Upto(b, past - 1)
  <2>1. t \in DOMAIN a /\ 1 \in DOMAIN b
    BY <1>1, <1>6
  <2>2. (\E k \in DOMAIN a : a[k] = gone) /\ \E k \in DOMAIN b : b[k] = past
    BY <1>3, <2>1
  <2> QED
    BY <1>3, <1>6, <2>2, Occurs
<1>12. /\ w1 \in Seq(Int) /\ Len(w1) = 2 * t - 1 /\ Ascends(w1)
       /\ \A x \in Int : Upto(w1, x) + One(gone, x) = Upto(a, x) + Upto(b, x)
  <2>1. Upto(win, gone) > Upto(win, gone - 1)
    <3>1. gone \in Int /\ gone - 1 \in Int
      BY <1>3
    <3>2. /\ Upto(win, gone) = Upto(a, gone) + Upto(b, gone)
          /\ Upto(win, gone - 1) = Upto(a, gone - 1) + Upto(b, gone - 1)
      BY <1>4, <3>1
    <3>3. /\ Upto(a, gone) \in Nat /\ Upto(b, gone) \in Nat /\ Upto(a, gone - 1) \in Nat /\ Upto(b, gone - 1) \in Nat
          /\ Upto(b, gone) >= Upto(b, gone - 1)
      BY <1>10, <3>1
    <3> QED
      BY ONLY <1>11, <3>2, <3>3
  <2>2. \E k \in DOMAIN win : win[k] = gone
    BY <1>3, <1>4, <2>1, Occurs
  <2>3. w1 \in Seq(Int) /\ Len(win) = Len(w1) + 1 /\ Ascends(w1) /\ \E p : Put(w1, win, p, gone)
    <3>1. win \in Seq(Int) /\ Ascends(win) /\ gone \in Int
      BY <1>3, <1>4
    <3>2. w1 = Noise!RemoveSorted(win, gone)
      BY DEF w1
    <3> QED
      BY ONLY <2>2, <3>1, <3>2, RemoveIs
  <2>4. \A x \in Int : Upto(win, x) = Upto(w1, x) + One(gone, x)
    BY <1>3, <1>4, <2>3, PutCounts
  <2>5. Len(w1) = 2 * t - 1
    <3>1. Len(w1) \in Nat
      BY <2>3
    <3> QED
      BY <1>1, <1>4, <2>3, <3>1
  <2> QED
    BY <1>4, <2>3, <2>4, <2>5
<1>13. /\ w2 \in Seq(Int) /\ Len(w2) = 2 * t - 2 /\ Ascends(w2)
       /\ \A x \in Int : Upto(w1, x) = Upto(w2, x) + One(past, x)
  <2>1. Upto(w1, past) > Upto(w1, past - 1)
    <3>1. past \in Int /\ past - 1 \in Int
      BY <1>3
    <3>2. /\ Upto(w1, past) + One(gone, past) = Upto(a, past) + Upto(b, past)
          /\ Upto(w1, past - 1) + One(gone, past - 1) = Upto(a, past - 1) + Upto(b, past - 1)
      BY <1>12, <3>1
    <3>3. /\ Upto(a, past) \in Nat /\ Upto(b, past) \in Nat /\ Upto(a, past - 1) \in Nat /\ Upto(b, past - 1) \in Nat
          /\ Upto(a, past) >= Upto(a, past - 1)
      BY <1>10, <3>1
    <3>4. Upto(w1, past) \in Nat /\ Upto(w1, past - 1) \in Nat
      BY <1>12, UptoIs
    <3>5. One(gone, past) \in {0, 1} /\ One(gone, past - 1) \in {0, 1}
      BY <1>3, <1>7, <3>1
    <3>6. gone # past => One(gone, past) = One(gone, past - 1)
      BY <1>3, <1>7
    <3>7. gone = past => Upto(a, past) > Upto(a, past - 1) /\ One(gone, past) = 1 /\ One(gone, past - 1) = 0
      BY <1>3, <1>7, <1>11
    <3> QED
      BY ONLY <1>11, <3>2, <3>3, <3>4, <3>5, <3>6, <3>7
  <2>2. \E k \in DOMAIN w1 : w1[k] = past
    BY <1>3, <1>12, <2>1, Occurs
  <2>3. w2 \in Seq(Int) /\ Len(w1) = Len(w2) + 1 /\ Ascends(w2) /\ \E p : Put(w2, w1, p, past)
    <3>1. w1 \in Seq(Int) /\ Ascends(w1) /\ past \in Int
      BY <1>3, <1>12
    <3>2. w2 = Noise!RemoveSorted(w1, past)
      BY DEF w2
    <3> QED
      BY ONLY <2>2, <3>1, <3>2, RemoveIs
  <2>4. \A x \in Int : Upto(w1, x) = Upto(w2, x) + One(past, x)
    BY <1>3, <1>12, <2>3, PutCounts
  <2>5. Len(w2) = 2 * t - 2
    <3>1. Len(w2) \in Nat
      BY <2>3
    <3> QED
      BY <1>1, <1>12, <2>3, <3>1
  <2> QED
    BY <2>3, <2>4, <2>5
<1>14. /\ w3 \in Seq(Int) /\ Len(w3) = 2 * t - 1 /\ Ascends(w3)
       /\ \A x \in Int : Upto(w3, x) = Upto(w2, x) + One(come, x)
  <2>1. w3 \in Seq(Int) /\ Len(w3) = Len(w2) + 1 /\ Ascends(w3) /\ \E p : Put(w2, w3, p, come)
    BY <1>3, <1>13, InsertIs DEF w3
  <2>2. \A x \in Int : Upto(w3, x) = Upto(w2, x) + One(come, x)
    BY <1>3, <1>13, <2>1, PutCounts
  <2> QED
    BY <1>1, <1>13, <2>1, <2>2
<1>15. /\ w4 \in Seq(Int) /\ Len(w4) = 2 * t /\ Ascends(w4)
       /\ \A x \in Int : Upto(w4, x) = Upto(w3, x) + One(next, x)
  <2>1. w4 \in Seq(Int) /\ Len(w4) = Len(w3) + 1 /\ Ascends(w4) /\ \E p : Put(w3, w4, p, next)
    BY <1>3, <1>14, InsertIs DEF w4
  <2>2. \A x \in Int : Upto(w4, x) = Upto(w3, x) + One(next, x)
    BY <1>3, <1>14, <2>1, PutCounts
  <2> QED
    BY <1>1, <1>14, <2>1, <2>2
<1>16. \A x \in Int : Upto(w4, x) = Upto(c, x) + Upto(d, x)
  <2> SUFFICES ASSUME NEW x \in Int PROVE Upto(w4, x) = Upto(c, x) + Upto(d, x)
    OBVIOUS
  <2>1. /\ Upto(w4, x) = Upto(w3, x) + One(next, x) /\ Upto(w3, x) = Upto(w2, x) + One(come, x)
        /\ Upto(w1, x) = Upto(w2, x) + One(past, x) /\ Upto(w1, x) + One(gone, x) = Upto(a, x) + Upto(b, x)
        /\ Upto(a, x) + One(come, x) = Upto(c, x) + One(gone, x)
        /\ Upto(d, x) + One(past, x) = Upto(b, x) + One(next, x)
    BY <1>8, <1>9, <1>12, <1>13, <1>14, <1>15
  <2>2. Upto(w1, x) \in Nat /\ Upto(w2, x) \in Nat /\ Upto(w3, x) \in Nat /\ Upto(w4, x) \in Nat
    BY <1>12, <1>13, <1>14, <1>15, UptoIs
  <2>3. Upto(a, x) \in Nat /\ Upto(b, x) \in Nat /\ Upto(c, x) \in Nat /\ Upto(d, x) \in Nat
    BY <1>10
  <2>4. One(gone, x) \in {0, 1} /\ One(come, x) \in {0, 1} /\ One(past, x) \in {0, 1} /\ One(next, x) \in {0, 1}
    BY <1>3, <1>7
  <2> QED
    BY ONLY <2>1, <2>2, <2>3, <2>4
<1>17. Noise!SlideSorted(spectrum, shape, win, i) = w4
  BY <1>5, <1>15
<1> QED
  BY <1>15, <1>16, <1>17 DEF Sorts, t, c, d

(* The windows of the ranked mode go through the bins.                          *)
LEMMA SortedSteps ==
  ASSUME NEW n \in Nat, n = Cells - 1
  PROVE  \E f : /\ GoesThrough("slideSorted", <<spectrum, shape>>, <<Noise!SortedCells(spectrum, shape, 0)>>,
                              [i \in 1 .. n |-> i], n, f)
                /\ Noise!OSWindows(spectrum, shape) = f[n]
<1> DEFINE base == <<Noise!SortedCells(spectrum, shape, 0)>>
           order == [i \in 1 .. n |-> i]
           c == <<spectrum, shape>>
           iter == CHOOSE g : Iterates("slideSorted", c, base, order, g)
<1>1. Noise!OSWindows(spectrum, shape) = iter[DOMAIN order]
  BY DEF Noise!OSWindows, Noise!FoldLeft, Noise!MapThenFoldSet, Noise!Max, Max, Iterates, Step
<1>2. DOMAIN order = 1 .. n
  OBVIOUS
<1> HIDE DEF order, c, base
<1>3. Iterates("slideSorted", c, base, order, iter)
  <2>1. \E g : Iterates("slideSorted", c, base, order, g)
    BY <1>2, IterExists, Zenon
  <2> QED
    BY <2>1, Zenon
<1> HIDE DEF iter
<1>4. PICK f : GoesThrough("slideSorted", c, base, order, n, f) /\ iter[DOMAIN order] = f[n]
  <2>1. Passes("slideSorted", c, base, order, n, iter[DOMAIN order])
    BY <1>2, <1>3, FoldSteps, Zenon
  <2> QED
    BY <2>1, Zenon DEF Passes
<1> QED
  BY <1>1, <1>4 DEF order, c, base

(* At every bin they hold its cells in their order.                             *)
LEMMA SortedAre ==
  ASSUME SpectraSized, Spectra
  PROVE  \A i \in 0 .. Cells - 1 : Sorts(Noise!OSWindows(spectrum, shape)[i + 1], i)
<1> DEFINE Fine(k, ws) == ws \in Seq(Seq(Int)) /\ Len(ws) = k + 1 /\ \A i \in 0 .. k : Sorts(ws[i + 1], i)
<1>1. PICK n \in Nat : n = Cells - 1
  BY ShapeIs
<1>2. PICK f : /\ GoesThrough("slideSorted", <<spectrum, shape>>, <<Noise!SortedCells(spectrum, shape, 0)>>,
                             [i \in 1 .. n |-> i], n, f)
               /\ Noise!OSWindows(spectrum, shape) = f[n]
  BY <1>1, SortedSteps
<1> DEFINE good == {k \in 0 .. n : Fine(k, f[k])}
<1>3. 0 \in good
  <2> DEFINE w == Noise!SortedCells(spectrum, shape, 0)
  <2>1. f[0] = <<w>>
    BY <1>2 DEF GoesThrough
  <2>2. Sorts(w, 0)
    BY SortIs
  <2> HIDE DEF w
  <2>3. w \in Seq(Int)
    BY <2>2 DEF Sorts
  <2>4. f[0] \in Seq(Seq(Int)) /\ Len(f[0]) = 0 + 1 /\ f[0][1] = w
    BY <2>1, <2>3
  <2>5. \A i \in 0 .. 0 : i = 0 /\ i + 1 = 1
    OBVIOUS
  <2>6. Fine(0, f[0]) /\ 0 \in 0 .. n
    BY <2>2, <2>4, <2>5
  <2> HIDE DEF Fine
  <2> QED
    BY <2>6
<1>4. ASSUME NEW k \in Nat, k < n, k \in good PROVE k + 1 \in good
  <2>1. k + 1 \in 1 .. n /\ (k + 1) - 1 = k /\ k + 1 \in 0 .. n /\ k + 1 \in Nat /\ k + 1 >= 1
    BY <1>4
  <2> DEFINE ws == f[k]
             w == Noise!SlideSorted(spectrum, shape, Noise!Last(ws), k + 1)
  <2>2. ws \in Seq(Seq(Int)) /\ Len(ws) = k + 1 /\ \A i \in 0 .. k : Sorts(ws[i + 1], i)
    BY <1>4
  <2>3. f[k + 1] = Append(ws, w)
    <3>1. f[k + 1] = Step("slideSorted", <<spectrum, shape>>, f[(k + 1) - 1], [i \in 1 .. n |-> i][k + 1])
      BY <1>2, <2>1 DEF GoesThrough
    <3> QED
      BY <2>1, <3>1 DEF Step
  <2>4. Sorts(Noise!Last(ws), (k + 1) - 1)
    <3>1. Noise!Last(ws) = ws[k + 1] /\ k \in 0 .. k
      BY <2>1, <2>2 DEF Noise!Last
    <3> QED
      BY <2>1, <2>2, <3>1
  <2>5. Sorts(w, k + 1)
    BY <2>1, <2>4, SlideSortedIs
  <2> HIDE DEF ws, w
  <2>6. w \in Seq(Int)
    BY <2>5 DEF Sorts
  <2>7. /\ f[k + 1] \in Seq(Seq(Int)) /\ Len(f[k + 1]) = (k + 1) + 1
        /\ \A i \in 1 .. k + 1 : f[k + 1][i] = ws[i]
        /\ f[k + 1][(k + 1) + 1] = w
    BY <2>2, <2>3, <2>6, AppendProperties
  <2>8. \A i \in 0 .. k + 1 : Sorts(f[k + 1][i + 1], i)
    <3>1. \A i \in 0 .. k + 1 : (i \in 0 .. k /\ i + 1 \in 1 .. k + 1) \/ i = k + 1
      OBVIOUS
    <3> QED
      BY <2>2, <2>5, <2>7, <3>1
  <2>9. Fine(k + 1, f[k + 1])
    BY <2>7, <2>8
  <2> HIDE DEF Fine
  <2> QED
    BY <2>1, <2>9
<1>5. n \in good
  <2> HIDE DEF good
  <2>1. \A k \in 0 .. n : k \in good
    BY <1>3, <1>4, Induction
  <2> QED
    BY <2>1
<1>6. Fine(n, f[n])
  BY <1>5
<1> QED
  BY <1>1, <1>2, <1>6

(* In such an order the number at place r has at most r - 1 before it that are   *)
(* less, and at least r up to it.                                              *)
LEMMA RankIs ==
  ASSUME NEW s \in Seq(Int), Ascends(s), NEW r \in 1 .. Len(s)
  PROVE  s[r] \in Int /\ Upto(s, s[r] - 1) <= r - 1 /\ Upto(s, s[r]) >= r
<1> DEFINE v == s[r]
           A == {k \in DOMAIN s : s[k] <= v - 1}
           B == {k \in DOMAIN s : s[k] <= v}
<1>1. PICK m \in Nat : m = Len(s) /\ DOMAIN s = 1 .. m
  OBVIOUS
<1>2. v \in Int /\ r \in 1 .. m /\ \A k \in 1 .. m : s[k] \in Int
  BY <1>1
<1>3. \A n \in Nat : IsFiniteSet(1 .. n) /\ Cardinality(1 .. n) = n
  <2>1. PICK one \in Int : one = 1
    OBVIOUS
  <2>2. \A n \in Nat : IsFiniteSet(one .. n) /\ Cardinality(one .. n) = IF one > n THEN 0 ELSE n - one + 1
    BY FS_Interval
  <2> QED
    BY <2>1, <2>2
<1>4. \A k \in 1 .. m : r < k => v <= s[k]
  BY <1>1, <1>2 DEF Ascends
<1>5. \A k \in 1 .. m : k <= r => s[k] <= v
  <2>1. \A k \in 1 .. m : k < r => s[k] <= v
    BY <1>1, <1>2 DEF Ascends
  <2> QED
    BY <1>2, <2>1
<1> HIDE DEF v
<1>6. A \in SUBSET (1 .. r - 1)
  <2> SUFFICES ASSUME NEW k \in A PROVE k \in 1 .. r - 1
    OBVIOUS
  <2>1. k \in 1 .. m /\ s[k] <= v - 1
    BY <1>1
  <2>2. k # r
    BY <1>2, <2>1 DEF v
  <2>3. ~(r < k)
    BY <1>2, <1>4, <2>1
  <2> QED
    BY <1>2, <2>1, <2>2, <2>3
<1>7. (1 .. r) \in SUBSET B
  BY <1>1, <1>2, <1>5
<1>8. IsFiniteSet(B)
  BY UptoIs
<1> HIDE DEF A, B
<1>9. Cardinality(A) <= r - 1
  <2>1. r - 1 \in Nat
    BY <1>2
  <2>2. IsFiniteSet(1 .. r - 1) /\ Cardinality(1 .. r - 1) = r - 1
    BY <1>3, <2>1
  <2>3. Cardinality(A) <= Cardinality(1 .. r - 1)
    BY ONLY <1>6, <2>2, FS_Subset
  <2> QED
    BY <2>2, <2>3
<1>10. Cardinality(B) >= r
  <2>1. r \in Nat
    BY <1>2
  <2>2. Cardinality(1 .. r) = r
    BY <1>3, <2>1
  <2>3. Cardinality(1 .. r) <= Cardinality(B)
    BY <1>7, <1>8, FS_Subset
  <2> QED
    BY <1>8, <2>1, <2>2, <2>3, FS_CardinalityType
<1> QED
  BY <1>2, <1>9, <1>10 DEF Upto, A, B, v

(* The threshold of rank r, taken out of the sorted window, is one of the bin's *)
(* own cells, with at most Rank of them below it and more than Rank up to it.    *)
LEMMA RankedIsDirect ==
  ASSUME SpectraSized, Spectra, NEW i \in Int, NEW win, Sorts(win, i),
         NEW all, all = Below(i) \o Above(i), NEW v, v = win[Noise!Rank(shape) + 1]
  PROVE  /\ v \in Noise!Range(all)
         /\ Noise!Cardinality({k \in DOMAIN all : all[k] < v}) <= Noise!Rank(shape)
         /\ Noise!Cardinality({k \in DOMAIN all : all[k] <= v}) > Noise!Rank(shape)
<1> DEFINE t == shape.train
           a == Below(i)
           b == Above(i)
           r == Noise!Rank(shape) + 1
<1>1. t \in Nat /\ t >= 1 /\ shape.rank \in Int
  BY ShapeIs
<1>2. a \in Seq(Int) /\ b \in Seq(Int) /\ all = a \o b
  <2>1. a \in [1 .. t -> Int] /\ b \in [1 .. t -> Int]
    BY SidesAre
  <2> HIDE DEF a, b, t
  <2>2. a \in Seq(Int) /\ b \in Seq(Int)
    BY <1>1, <2>1, SeqDef
  <2> QED
    BY <2>2 DEF a, b
<1>3. /\ win \in Seq(Int) /\ Len(win) = 2 * t /\ Ascends(win)
      /\ \A x \in Int : Upto(win, x) = Upto(a, x) + Upto(b, x)
  BY DEF Sorts
<1>4. Noise!Rank(shape) \in Int /\ r \in 1 .. 2 * t /\ r - 1 = Noise!Rank(shape)
  <2>1. 2 * t \in Nat /\ 2 * t >= 1 /\ shape.rank - 1 \in Int
    BY <1>1
  <2>2. Noise!Rank(shape) \in 0 .. 2 * t - 1
    BY <2>1 DEF Noise!Rank, Noise!ClampInt
  <2> QED
    BY <2>1, <2>2
<1> HIDE DEF t, a, b, r
<1>5. v = win[r] /\ r \in 1 .. Len(win)
  BY <1>3, <1>4 DEF r
<1>6. v \in Int /\ Upto(win, v - 1) <= r - 1 /\ Upto(win, v) >= r
  BY <1>3, <1>5, RankIs
<1>7. all \in Seq(Int) /\ Joined(all, a, b)
  BY <1>2, Appended
<1>8. \A x \in Int : Upto(all, x) = Upto(win, x)
  <2> SUFFICES ASSUME NEW x \in Int PROVE Upto(all, x) = Upto(win, x)
    OBVIOUS
  <2>1. a \in Seq(Int) /\ b \in Seq(Int) /\ all \in Seq(Int) /\ Joined(all, a, b) /\ x \in Int
    BY <1>2, <1>7, Zenon
  <2>2. Upto(all, x) = Upto(a, x) + Upto(b, x)
    BY ONLY <2>1, BothCount
  <2> QED
    BY <1>3, <2>2, Zenon
<1>9. v - 1 \in Int /\ Upto(all, v - 1) = Upto(win, v - 1) /\ Upto(all, v) = Upto(win, v)
  BY <1>6, <1>8
<1>10. Upto(win, v) \in Nat /\ Upto(win, v - 1) \in Nat
  BY <1>3, UptoIs
<1>11. v \in Noise!Range(all)
  <2>1. Upto(all, v) > Upto(all, v - 1)
    BY <1>4, <1>6, <1>9, <1>10
  <2>2. \E k \in DOMAIN all : all[k] = v
    BY <1>6, <1>7, <2>1, Occurs
  <2> QED
    BY <2>2 DEF Noise!Range
<1>12. Upto(all, v - 1) <= Noise!Rank(shape) /\ Upto(all, v) > Noise!Rank(shape)
  BY <1>4, <1>6, <1>9, <1>10
<1>13. {k \in DOMAIN all : all[k] < v} = {k \in DOMAIN all : all[k] <= v - 1}
  <2>1. \A k \in DOMAIN all : all[k] \in Int
    BY <1>7
  <2>2. \A k \in DOMAIN all : all[k] < v <=> all[k] <= v - 1
    BY <1>6, <2>1
  <2> QED
    BY <2>2
<1>14. \A S : Noise!Cardinality(S) = Cardinality(S)
  BY Zenon DEF Noise!Cardinality, Cardinality
<1>15. /\ Noise!Cardinality({k \in DOMAIN all : all[k] < v}) = Upto(all, v - 1)
       /\ Noise!Cardinality({k \in DOMAIN all : all[k] <= v}) = Upto(all, v)
  BY <1>13, <1>14, Zenon DEF Upto
<1> QED
  BY <1>11, <1>12, <1>15

(* The less and the greater of two.                                            *)
LEMMA OfTwo ==
  ASSUME NEW x \in Int, NEW y \in Int
  PROVE  /\ Noise!Min({x, y}) = IF y < x THEN y ELSE x
         /\ Noise!Max({x, y}) = IF y > x THEN y ELSE x
<1>1. Noise!Min({x, y}) \in {x, y} /\ \A z \in {x, y} : Noise!Min({x, y}) <= z
  <2>1. \E w \in {x, y} : \A z \in {x, y} : w <= z
    OBVIOUS
  <2> QED
    BY <2>1 DEF Noise!Min
<1>2. Noise!Max({x, y}) \in {x, y} /\ \A z \in {x, y} : Noise!Max({x, y}) >= z
  <2>1. \E w \in {x, y} : \A z \in {x, y} : w >= z
    OBVIOUS
  <2> QED
    BY <2>1 DEF Noise!Max
<1> QED
  BY <1>1, <1>2

(* The thresholds of every bin, from the windows.                               *)
FromWindows ==
  [i \in 1 .. Cells |->
     [ca    |-> Noise!CA(Noise!Windows(spectrum, shape)[i]),
      caso  |-> Noise!CASO(Noise!Windows(spectrum, shape)[i]),
      gosca |-> Noise!GOSCA(Noise!Windows(spectrum, shape)[i]),
      os    |-> Noise!OSWindows(spectrum, shape)[i][Noise!Rank(shape) + 1]]]

CfarInv == Spectra /\ (thresholds = <<>> \/ thresholds = FromWindows)

(* Those are the thresholds that the definition gives.                          *)
LEMMA FromWindowsDirect ==
  ASSUME SpectraSized, CfarInv
  PROVE  Noise!SlidingIsDirect
<1> SUFFICES ASSUME thresholds # <<>>, NEW i \in 1 .. Cells
             PROVE  LET l == Noise!Side(i - 1, -1) r == Noise!Side(i - 1, 1) all == l \o r t == thresholds[i] IN
                    /\ t.ca = Noise!SumOf(l) + Noise!SumOf(r)
                    /\ t.caso = Noise!Min({Noise!SumOf(l), Noise!SumOf(r)})
                    /\ t.gosca = Noise!Max({Noise!SumOf(l), Noise!SumOf(r)})
                    /\ t.os \in Noise!Range(all)
                    /\ Noise!Cardinality({k \in DOMAIN all : all[k] < t.os}) <= Noise!Rank(shape)
                    /\ Noise!Cardinality({k \in DOMAIN all : all[k] <= t.os}) > Noise!Rank(shape)
  BY DEF Noise!SlidingIsDirect
<1> DEFINE h == i - 1
           t == thresholds[i]
           win == Noise!OSWindows(spectrum, shape)[i]
           all == Below(h) \o Above(h)
<1>1. Spectra /\ h \in 0 .. Cells - 1 /\ h \in Int /\ h + 1 = i
  <2>1. Spectra /\ Cells \in Nat
    BY ShapeIs DEF CfarInv
  <2> QED
    BY <2>1
<1>2. t = [ca    |-> Noise!CA(Noise!Windows(spectrum, shape)[i]),
           caso  |-> Noise!CASO(Noise!Windows(spectrum, shape)[i]),
           gosca |-> Noise!GOSCA(Noise!Windows(spectrum, shape)[i]),
           os    |-> win[Noise!Rank(shape) + 1]]
  BY DEF CfarInv, FromWindows
<1>3. Noise!Windows(spectrum, shape)[i] = Sums(h) /\ Sums(h).left \in Int /\ Sums(h).right \in Int
  BY <1>1, WindowsAre
<1>4. Sorts(win, h)
  BY <1>1, SortedAre
<1>5. Noise!Side(i - 1, -1) = Below(h) /\ Noise!Side(i - 1, 1) = Above(h)
  BY <1>1, SidesAre
<1> HIDE DEF h, t, win, all
<1>6. /\ t.ca = Noise!SumOf(Below(h)) + Noise!SumOf(Above(h))
      /\ t.caso = Noise!Min({Noise!SumOf(Below(h)), Noise!SumOf(Above(h))})
      /\ t.gosca = Noise!Max({Noise!SumOf(Below(h)), Noise!SumOf(Above(h))})
  <2> DEFINE x == Noise!SumOf(Below(h))
             y == Noise!SumOf(Above(h))
  <2>1. Sums(h) = [left |-> x, right |-> y]
    BY DEF Sums
  <2>2. x \in Int /\ y \in Int
    BY <1>3 DEF Sums
  <2>3. /\ t.ca = Noise!CA(Sums(h)) /\ t.caso = Noise!CASO(Sums(h)) /\ t.gosca = Noise!GOSCA(Sums(h))
    BY <1>2, <1>3
  <2> HIDE DEF x, y
  <2>4. /\ t.ca = x + y /\ t.caso = (IF y < x THEN y ELSE x) /\ t.gosca = (IF y > x THEN y ELSE x)
    BY <2>1, <2>3 DEF Noise!CA, Noise!CASO, Noise!GOSCA
  <2>5. /\ Noise!Min({x, y}) = (IF y < x THEN y ELSE x)
        /\ Noise!Max({x, y}) = (IF y > x THEN y ELSE x)
    BY ONLY <2>2, OfTwo
  <2>6. t.ca = x + y /\ t.caso = Noise!Min({x, y}) /\ t.gosca = Noise!Max({x, y})
    BY ONLY <2>4, <2>5
  <2> QED
    BY <2>6 DEF x, y
<1>7. t.os = win[Noise!Rank(shape) + 1]
  BY <1>2
<1> DEFINE v == t.os
<1>8. /\ v \in Noise!Range(all)
      /\ Noise!Cardinality({k \in DOMAIN all : all[k] < v}) <= Noise!Rank(shape)
      /\ Noise!Cardinality({k \in DOMAIN all : all[k] <= v}) > Noise!Rank(shape)
  <2>1. v = win[Noise!Rank(shape) + 1] /\ all = Below(h) \o Above(h)
    BY <1>7 DEF all
  <2> HIDE DEF v
  <2> QED
    BY <1>1, <1>4, <2>1, RankedIsDirect
<1> QED
  BY <1>5, <1>6, <1>8, Zenon DEF all, t

(* Whatever the spectrum, the cells, the guard and the rank, and at every bin,    *)
(* the sliding windows of internal/cfar give each mode the threshold that its     *)
(* definition gives: the mean, the lesser and the greater mean of the bin's own   *)
(* cells, and one of these cells with at most Rank of them below it and more than *)
(* Rank up to it.                                                              *)
THEOREM ThresholdsExact == SpectraSized /\ Noise!Spec => []Noise!SlidingIsDirect
<1> SUFFICES ASSUME SpectraSized PROVE Noise!Spec => []Noise!SlidingIsDirect
  OBVIOUS
<1>1. Noise!Init => CfarInv
  BY DEF Noise!Init, CfarInv, Spectra
<1>2. CfarInv /\ [Noise!Next]_Noise!vars => CfarInv'
  <2> SUFFICES ASSUME CfarInv, [Noise!Next]_Noise!vars PROVE CfarInv'
    OBVIOUS
  <2>1. CASE Noise!Thresholds
    <3>1. UNCHANGED <<spectrum, shape>>
      BY <2>1 DEF Noise!Thresholds
    <3>2. thresholds' = FromWindows
      BY <2>1 DEF Noise!Thresholds, FromWindows
    <3>3. Spectra' /\ FromWindows' = FromWindows
      BY <3>1 DEF CfarInv, Spectra, FromWindows
    <3> QED
      BY <3>2, <3>3 DEF CfarInv
  <2>2. CASE UNCHANGED Noise!vars
    <3>1. UNCHANGED <<spectrum, shape, thresholds>>
      BY <2>2 DEF Noise!vars
    <3>2. Spectra' /\ FromWindows' = FromWindows
      BY <3>1 DEF CfarInv, Spectra, FromWindows
    <3> QED
      BY <3>1, <3>2 DEF CfarInv
  <2> QED
    BY <2>1, <2>2 DEF Noise!Next
<1>3. CfarInv => Noise!SlidingIsDirect
  BY FromWindowsDirect
<1> QED
  BY <1>1, <1>2, <1>3, PTL DEF Noise!Spec
===============================================================================
